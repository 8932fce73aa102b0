--------------------------- MODULE GroupRolesProofs ---------------------------
(***************************************************************************)
(* Safety of the ClavexGroup controller, for any sets of roles and specs   *)
(* and any number of faults and of changes by others: its types, the true  *)
(* status, no wanted role taken away, and the refinement of                *)
(* ManagedLifecycle.                                                       *)
(***************************************************************************)
EXTENDS GroupRoles, TLAPS

Running == pc # "idle"
Finalizing == pc \in {"lookup", "delete", "release"}
Grouped == pc \in {"roles", "current", "assign", "remove", "synced"}
Listed == pc \in {"current", "assign", "remove", "synced"}

\* A generation is observed after it was made; only a guarded CR can be marked
\* for deletion.
StoredSane == stored.obs <= stored.gen /\ (stored.del => stored.fin)

\* What a pass may rely on of its copy: the stored CR is the same unless the
\* copy is behind, and keeps the finalizer and the deletion mark the copy shows.
Copied ==
  Running =>
    /\ cr.here /\ cr.obs <= cr.gen
    /\ cr.del => cr.fin /\ stored.del
    /\ ~behind => cr = stored
    /\ cr.fin => stored.here /\ stored.fin

\* What the steps of a pass know.
Knows ==
  /\ Finalizing => cr.del
  /\ Grouped \/ Finalizing \/ pc \in {"refetch", "find", "create"} => cr.fin
  /\ pc = "guard" => ~cr.fin

\* A generation in sync is the one the pass works for, written under it or not.
SpecKept == Running /\ stored.here => stored.obs < stored.gen \/ stored.want = cr.want

\* A change under the pass is one the status does not know of.
CalmKnown == Running /\ ~calm => changed

\* While nobody else changes anything, each step of a pass finds the group as
\* the steps before left it.
Undisturbed ==
  calm =>
    /\ pc = "create" => group.id = 0
    /\ Grouped => group.id = gid
    /\ Listed => wantIDs = {roles[n] : n \in cr.want}
    /\ pc = "assign" => adds = wantIDs \ group.roles
    /\ pc \in {"assign", "remove"} => drops = group.roles \ wantIDs
    /\ pc \in {"remove", "synced"} => wantIDs \subseteq group.roles
    /\ pc = "synced" => group.roles = wantIDs

\* A wanted role that returned under a new ID leaves its old one in the pass's
\* lists, which no assignment can satisfy: the pass gets no further.
Replaced ==
  /\ Listed => \A n \in cr.want : roles[n] \in wantIDs \/ \E id \in wantIDs : ~Exists(id)
  /\ pc \in {"assign", "remove"} =>
       \A n \in cr.want : roles[n] \in drops => \E id \in adds : ~Exists(id)
  /\ pc = "remove" => adds = {}

\* The finalizer's pass leaves no group of the operator behind it.
Cleared ==
  /\ pc = "delete" /\ group.ours => group.id = gid
  /\ pc = "release" => ~group.ours

PassInv ==
  Copied /\ Knows /\ SpecKept /\ CalmKnown /\ Undisturbed /\ Replaced /\ Cleared

-----------------------------------------------------------------------------
(* Types *)

\* A CR that is not there is a CR, without mark or generation.
LEMMA GoneType == Gone \in CRType /\ ~Gone.here /\ ~Gone.del /\ Gone.gen = 0 /\ Gone.obs = 0
<1>1. (CHOOSE s \in Specs : TRUE) \in Specs
  BY SpecsAssumption
<1> QED
  BY <1>1 DEF Gone, Fresh, CRType, Readys

\* A CR just applied has its first generation, not yet observed.
LEMMA FreshType ==
  ASSUME NEW want \in Specs
  PROVE  /\ Fresh(want) \in CRType /\ Fresh(want).here /\ Fresh(want).want = want
         /\ Fresh(want).gen = 1 /\ Fresh(want).obs = 0
         /\ ~Fresh(want).fin /\ ~Fresh(want).del
  BY DEF Fresh, CRType, Readys

\* The versions of the CR the pass may write, from its copy.
LEMMA WrittenTypes ==
  ASSUME cr \in CRType
  PROVE  /\ \A r \in Readys : [cr EXCEPT !.ready = r] \in CRType
         /\ [cr EXCEPT !.obs = cr.gen, !.ready = "True"] \in CRType
         /\ [cr EXCEPT !.fin = TRUE] \in CRType
  BY DEF CRType, Readys

\* A call leaves a natural number of faults.
LEMMA CallTypes ==
  ASSUME faults \in Nat, NEW o, Call(o)
  PROVE  faults' \in Nat
  BY DEF Call

\* The two halves of the types that depend on one another: the server's, and
\* what a pass holds of it.
AdminOK ==
  /\ roles \in [Names -> 0..lastRole] /\ lastRole \in 0..MaxRole
  /\ \A m, n \in Names : roles[m] = roles[n] => m = n \/ roles[m] = 0
  /\ group \in [id: 0..lastGroup, roles: SUBSET (1..lastRole), ours: BOOLEAN]
  /\ lastGroup \in 0..MaxGroup
  /\ group.id = 0 => group = NoGroup
  /\ \A id \in group.roles : Exists(id)

PassOK ==
  /\ pc \in Steps /\ cr \in CRType
  /\ gid \in 0..lastGroup
  /\ pc \in {"delete", "roles", "current", "assign", "remove", "synced"} => gid # 0
  /\ wantIDs \subseteq 1..lastRole /\ adds \subseteq wantIDs
  /\ drops \subseteq 1..lastRole /\ drops \cap wantIDs = {}
  /\ pc \notin {"assign", "remove", "synced", "failed"} => adds = {} /\ drops = {}

RestOK ==
  /\ stored \in CRType /\ authOk \in BOOLEAN
  /\ changed \in BOOLEAN /\ calm \in BOOLEAN /\ behind \in BOOLEAN
  /\ user \in Nat /\ faults \in Nat

\* TypeOK, with the ids tied to those handed out.
Types == AdminOK /\ PassOK /\ RestOK

\* What the theorems rest on.
IInv == Types /\ StoredSane /\ SyncedTruth /\ PassInv

\* Types is TypeOK, with what the ids of the roles and of the group are.
LEMMA TypesOK == Types => TypeOK
<1>1. \A A, B, C, S : A \subseteq S /\ B \subseteq S /\ C \subseteq S => {A, B, C} \subseteq SUBSET S
  OBVIOUS
<1>2. adds \subseteq wantIDs /\ wantIDs \subseteq 1..lastRole => adds \subseteq 1..lastRole
  OBVIOUS
<1> QED
  BY <1>1, <1>2 DEF TypeOK, Types, AdminOK, PassOK, RestOK

\* What the Admin API does to its groups and roles.
LEMMA AdminIdle ==
  ASSUME AdminOK, UNCHANGED admin
  PROVE  AdminOK'
  BY DEF AdminOK, admin, Exists, NoGroup

\* The group is deleted: no role is left to be assigned to one.
LEMMA GroupGoes ==
  ASSUME AdminOK, group' = NoGroup, UNCHANGED <<roles, lastRole, lastGroup>>
  PROVE  AdminOK'
  BY DEF AdminOK, Exists, NoGroup

\* A group appears under an id no group has had, and has no roles.
LEMMA GroupComes ==
  ASSUME AdminOK, NEW ours \in BOOLEAN, Appears(ours), UNCHANGED <<roles, lastRole>>
  PROVE  /\ AdminOK' /\ lastGroup' = lastGroup + 1
         /\ group'.id = lastGroup' /\ group'.ours = ours /\ group'.roles = {}
<1>1. lastGroup' = lastGroup + 1 /\ lastGroup' \in 0..MaxGroup /\ lastGroup' # 0
  BY BoundsAssumption DEF AdminOK, Appears
<1>2. group' = [id |-> lastGroup', roles |-> {}, ours |-> ours]
  BY DEF Appears
<1>3. group' \in [id: 0..lastGroup', roles: SUBSET (1..lastRole'), ours: BOOLEAN]
  BY <1>1, <1>2
<1> QED
  BY <1>1, <1>2, <1>3 DEF AdminOK

\* The group's roles become some of the realm's roles; the realm's own may
\* shrink at the same time.
LEMMA GroupRolesChange ==
  ASSUME AdminOK, NEW X \in SUBSET (1..lastRole), group' = [group EXCEPT !.roles = X],
         group.id # 0 \/ X = {}, \A id \in X : Exists(id)',
         \A m, n \in Names : roles'[m] = roles'[n] => m = n \/ roles'[m] = 0,
         roles' \in [Names -> 0..lastRole], UNCHANGED <<lastRole, lastGroup>>
  PROVE  AdminOK' /\ group'.id = group.id /\ group'.roles = X /\ group'.ours = group.ours
<1>1. group'.id = group.id /\ group'.roles = X /\ group'.ours = group.ours
  BY DEF AdminOK
<1>2. group' \in [id: 0..lastGroup, roles: SUBSET (1..lastRole), ours: BOOLEAN]
  BY DEF AdminOK
<1>3. ASSUME group.id = 0 PROVE group' = NoGroup
  <2>1. group = NoGroup /\ X = {}
    BY <1>3 DEF AdminOK
  <2> QED
    BY <2>1 DEF NoGroup
<1> QED
  BY <1>1, <1>2, <1>3 DEF AdminOK

\* A role appears under an id no role has had.
LEMMA RoleComes ==
  ASSUME AdminOK, NEW n \in Names, roles[n] = 0, lastRole < MaxRole, lastRole' = lastRole + 1,
         roles' = [roles EXCEPT ![n] = lastRole'], UNCHANGED <<group, lastGroup>>
  PROVE  AdminOK'
<1>1. lastRole' \in 0..MaxRole /\ 1..lastRole \subseteq 1..lastRole' /\ 0..lastRole \subseteq 0..lastRole'
  BY BoundsAssumption DEF AdminOK
<1>2. roles' \in [Names -> 0..lastRole']
  BY <1>1 DEF AdminOK
<1>3. \A k, m \in Names : roles'[k] = roles'[m] => k = m \/ roles'[k] = 0
  BY DEF AdminOK
<1>4. group' \in [id: 0..lastGroup', roles: SUBSET (1..lastRole'), ours: BOOLEAN]
  BY <1>1 DEF AdminOK
<1>5. \A id \in group'.roles : Exists(id)'
  <2> SUFFICES ASSUME NEW id \in group.roles PROVE \E m \in Names : roles'[m] = id
    BY DEF Exists
  <2>1. PICK m \in Names : roles[m] = id
    BY DEF AdminOK, Exists
  <2>2. id # 0
    BY DEF AdminOK
  <2> QED
    BY <2>1, <2>2 DEF AdminOK
<1> QED
  BY <1>1, <1>2, <1>3, <1>4, <1>5 DEF AdminOK, NoGroup

\* Dropping what the pass held keeps its types.
LEMMA EndPassOK ==
  ASSUME EndPass, AdminOK'
  PROVE  PassOK' /\ behind' \in BOOLEAN
<1>1. 0 \in 0..lastGroup'
  BY DEF AdminOK
<1> QED
  BY <1>1, GoneType DEF EndPass, PassOK, Steps

\* What the pass holds stays typed while roles and groups come and go.
LEMMA PassIdle ==
  ASSUME PassOK, AdminOK, UNCHANGED <<pc, cr, lists>>,
         lastRole <= lastRole', lastGroup <= lastGroup',
         lastRole' \in Nat, lastGroup' \in Nat
  PROVE  PassOK'
<1>1. 1..lastRole \subseteq 1..lastRole' /\ 0..lastGroup \subseteq 0..lastGroup'
  BY DEF AdminOK
<1> QED
  BY <1>1 DEF PassOK, lists

\* Both directions of the diff are made of known ids, and do not overlap.
LEMMA ListedTypes ==
  ASSUME AdminOK, PassOK
  PROVE  /\ wantIDs \ group.roles \subseteq wantIDs /\ group.roles \ wantIDs \subseteq 1..lastRole
         /\ (group.roles \ wantIDs) \cap wantIDs = {}
  BY DEF AdminOK, PassOK

\* A pass that writes the CR and returns keeps the types.
LEMMA WriteEndsTypes ==
  ASSUME Types, NEW o, NEW new \in CRType, Write(o, new), EndPass, changed' \in BOOLEAN
  PROVE  Types'
<1>1. AdminOK'
  BY AdminIdle DEF Types, Write
<1>2. RestOK'
  BY <1>1, CallTypes, EndPassOK DEF Types, Write, RestOK
<1> QED
  BY <1>1, <1>2, EndPassOK DEF Types

\* So does a look for the group by name,
LEMMA LookTypes ==
  ASSUME Types, NEW o \in Outcomes, NEW absent \in {"release", "create"}, NEW present \in {"delete", "roles"},
         Look(o, absent, present), pc \in {"lookup", "find"}
  PROVE  Types'
<1>1. AdminOK' /\ lastRole' = lastRole /\ lastGroup' = lastGroup
  BY AdminIdle DEF Types, Look, admin
<1>2. gid' \in 0..lastGroup /\ pc' \in Steps
  BY DEF Types, Look, AdminOK, Steps
<1>3. pc' \in {"delete", "roles", "current", "assign", "remove", "synced"} => gid' # 0
  <2>1. CASE o = "failed"
    BY <2>1 DEF Look
  <2>2. CASE o = "ok"
    BY <2>2 DEF Look
  <2>3. o = "ok" \/ o = "failed"
    BY DEF Look, Call, Outcomes
  <2> QED
    BY <2>1, <2>2, <2>3
<1>4. PassOK'
  BY <1>1, <1>2, <1>3 DEF Types, Look, PassOK
<1>5. RestOK'
  BY CallTypes DEF Types, Look, RestOK, kube, history
<1> QED
  BY <1>1, <1>4, <1>5 DEF Types

\* every call of a pass,
LEMMA PassTypes == Types /\ Reconcile => Types'
<1> SUFFICES ASSUME Types, Reconcile PROVE Types'
  OBVIOUS
<1>0. AdminOK /\ PassOK /\ RestOK
  BY DEF Types
<1>1. CASE GetCR
  <2>1. AdminOK' /\ PassOK' /\ RestOK'
    BY <1>0, <1>1, AdminIdle DEF GetCR, kube, admin, lists, PassOK, RestOK, Steps
  <2> QED
    BY <2>1 DEF Types
<1>2. CASE ResolveAuth
  <2>1. AdminOK'
    BY <1>0, <1>2, AdminIdle DEF ResolveAuth
  <2>2. PassOK' /\ behind' \in BOOLEAN
    <3>1. CASE EndPass
      BY <2>1, <3>1, EndPassOK
    <3>2. ASSUME NEW step \in {"autherr", "lookup", "find", "guard"}, Goto(step)
          PROVE  PassOK' /\ behind' \in BOOLEAN
      BY <1>0, <1>2, <3>2 DEF ResolveAuth, Goto, held, lists, admin, PassOK, RestOK, Steps
    <3> QED
      BY <1>2, <3>1, <3>2 DEF ResolveAuth
  <2> QED
    BY <1>0, <1>2, <2>1, <2>2 DEF Types, ResolveAuth, kube, history, RestOK
<1>3. CASE Refetch
  <2>1. AdminOK'
    BY <1>0, <1>3, AdminIdle DEF Refetch
  <2>2. PassOK' /\ behind' \in BOOLEAN
    <3>1. CASE EndPass
      BY <2>1, <3>1, EndPassOK
    <3>2. CASE cr' = stored /\ behind' = FALSE /\ pc' = "find" /\ UNCHANGED lists
      BY <1>0, <1>3, <3>2 DEF Refetch, lists, admin, PassOK, RestOK, Steps
    <3> QED
      BY <1>3, <3>1, <3>2 DEF Refetch
  <2> QED
    BY <1>0, <1>3, <2>1, <2>2 DEF Types, Refetch, kube, history, RestOK
<1>4. CASE Assigned \/ Removed
  <2>1. UNCHANGED <<kube, admin, history, held, user, faults>>
        /\ pc \in {"assign", "remove"} /\ pc' \in {"remove", "synced"}
    BY <1>4 DEF Assigned, Removed, Goto
  <2>2. AdminOK' /\ PassOK' /\ RestOK'
    BY <1>0, <2>1, AdminIdle
       DEF kube, admin, history, held, lists, PassOK, RestOK, Steps
  <2> QED
    BY <2>2 DEF Types
<1>5. ASSUME NEW o \in Outcomes, AuthSecretError(o) PROVE Types'
  BY <1>5, WriteEndsTypes, WrittenTypes DEF AuthSecretError, Readys, Types, PassOK, RestOK
<1>6. ASSUME NEW o \in Outcomes, Lookup(o) PROVE Types'
  <2>1. CASE Look(o, "release", "delete")
    BY <1>6, <2>1, LookTypes DEF Lookup, LookupThen
  <2>2. CASE Call(o) /\ EndPass /\ UNCHANGED <<kube, admin, history, user>>
    <3>1. AdminOK'
      BY <1>0, <2>2, AdminIdle
    <3> QED
      BY <1>0, <2>2, <3>1, CallTypes, EndPassOK DEF Types, kube, history, RestOK
  <2> QED
    BY <1>6, <2>1, <2>2 DEF Lookup, LookupThen
<1>7. ASSUME NEW o \in Outcomes, DeleteRemote(o) PROVE Types'
  <2>1. /\ pc = "delete" /\ Call(o) /\ UNCHANGED <<kube, roles, lastRole, lastGroup, history, user>>
        /\ (pc' = "release" /\ UNCHANGED held) \/ EndPass
    BY <1>7 DEF DeleteRemote, DeleteThen, Goto
  <2>2. AdminOK'
    <3>1. CASE group' = NoGroup
      BY <1>0, <2>1, <3>1, GroupGoes
    <3>2. CASE group' = group
      BY <1>0, <2>1, <3>2, AdminIdle DEF admin
    <3> QED
      BY <1>7, <3>1, <3>2 DEF DeleteRemote, DeleteThen
  <2>3. PassOK' /\ behind' \in BOOLEAN
    <3>1. CASE EndPass
      BY <2>2, <3>1, EndPassOK
    <3>2. CASE pc' = "release" /\ UNCHANGED held
      BY <1>0, <2>1, <3>2 DEF held, lists, PassOK, RestOK, Steps
    <3> QED
      BY <2>1, <3>1, <3>2
  <2> QED
    BY <1>0, <2>1, <2>2, <2>3, CallTypes DEF Types, kube, history, RestOK
<1>8. ASSUME NEW o \in Outcomes, RemoveFinalizer(o) PROVE Types'
  BY <1>8, WriteEndsTypes, GoneType DEF RemoveFinalizer, Types, RestOK
<1>9. ASSUME NEW o \in Outcomes, AddFinalizer(o) PROVE Types'
  <2> DEFINE new == [cr EXCEPT !.fin = TRUE]
  <2>1. new \in CRType /\ Write(o, new) /\ UNCHANGED changed /\ pc = "guard"
    BY <1>9, WrittenTypes DEF AddFinalizer, Types, PassOK
  <2>2. CASE EndPass
    BY <2>1, <2>2, WriteEndsTypes DEF Types, RestOK
  <2>3. CASE cr' = new /\ pc' = "refetch" /\ UNCHANGED <<behind, lists>>
    <3> HIDE DEF new
    <3>1. AdminOK' /\ RestOK'
      BY <1>0, <2>1, <2>3, AdminIdle, CallTypes DEF Write, RestOK
    <3>2. PassOK'
      BY <1>0, <2>1, <2>3 DEF Write, admin, lists, PassOK, Steps
    <3> QED
      BY <3>1, <3>2 DEF Types
  <2> QED
    BY <1>9, <2>2, <2>3 DEF AddFinalizer
<1>10. ASSUME NEW o \in Outcomes, Find(o) PROVE Types'
  BY <1>10, LookTypes DEF Find
<1>11. ASSUME NEW o \in Outcomes, Create(o) PROVE Types'
  <2>1. UNCHANGED <<kube, roles, lastRole, history, cr, behind, wantIDs, adds, drops, user>>
        /\ Call(o) /\ pc = "create"
    BY <1>11 DEF Create
  <2>2. RestOK'
    BY <1>0, <2>1, CallTypes DEF kube, history, RestOK
  <2>3. CASE Appears(TRUE)
    <3>1. AdminOK' /\ lastGroup' = lastGroup + 1
      BY <1>0, <2>1, <2>3, GroupComes
    <3>2. \/ gid' = lastGroup' /\ pc' = "roles"
          \/ gid' = gid /\ pc' = "failed"
      BY <1>11 DEF Create
    <3>3. PassOK'
      BY <1>0, <2>1, <3>1, <3>2 DEF AdminOK, PassOK, Steps
    <3> QED
      BY <2>2, <3>1, <3>3 DEF Types
  <2>4. CASE UNCHANGED <<group, lastGroup>> /\ gid' = gid /\ pc' = "failed"
    BY <1>0, <2>1, <2>2, <2>4, AdminIdle DEF Types, admin, PassOK, Steps
  <2> QED
    BY <1>11, <2>3, <2>4 DEF Create, Applied
<1>12. ASSUME NEW o \in Outcomes, ListRoles(o) PROVE Types'
  <2>1. UNCHANGED <<kube, admin, history, user>> /\ Call(o) /\ pc = "roles"
    BY <1>12 DEF ListRoles
  <2>2. PassOK' /\ UNCHANGED behind
    <3>1. CASE Goto("failed")
      BY <1>0, <2>1, <3>1 DEF Goto, held, lists, admin, PassOK, Steps
    <3>2. CASE ~Goto("failed")
      <4>1. /\ \A n \in cr.want : roles[n] # 0
            /\ wantIDs' = {roles[n] : n \in cr.want} /\ pc' = "current"
            /\ UNCHANGED <<cr, behind, gid, adds, drops>>
        BY <1>12, <3>2 DEF ListRoles
      <4>2. cr.want \subseteq Names
        BY <1>0, SpecsAssumption DEF PassOK, CRType
      <4>3. wantIDs' \subseteq 1..lastRole
        BY <1>0, <4>1, <4>2 DEF AdminOK
      <4> QED
        BY <1>0, <2>1, <4>1, <4>3 DEF admin, PassOK, Steps
    <3> QED
      BY <3>1, <3>2
  <2> QED
    BY <1>0, <2>1, <2>2, AdminIdle, CallTypes DEF Types, kube, history, RestOK
<1>13. ASSUME NEW o \in Outcomes, ListGroupRoles(o) PROVE Types'
  <2>1. UNCHANGED <<kube, admin, history, user>> /\ Call(o) /\ pc = "current"
    BY <1>13 DEF ListGroupRoles
  <2>2. PassOK' /\ UNCHANGED behind
    <3>1. CASE Goto("failed")
      BY <1>0, <2>1, <3>1 DEF Goto, held, lists, admin, PassOK, Steps
    <3>2. CASE ~Goto("failed")
      <4>1. /\ adds' = wantIDs \ group.roles /\ drops' = group.roles \ wantIDs
            /\ pc' = "assign" /\ UNCHANGED <<cr, behind, gid, wantIDs>>
        BY <1>13, <3>2 DEF ListGroupRoles
      <4> QED
        BY <1>0, <2>1, <4>1, ListedTypes DEF admin, PassOK, Steps
    <3> QED
      BY <3>1, <3>2
  <2> QED
    BY <1>0, <2>1, <2>2, AdminIdle, CallTypes DEF Types, kube, history, RestOK
<1>14. ASSUME NEW o \in Outcomes, NEW id \in adds, AssignRole(o, id) PROVE Types'
  <2>1. /\ UNCHANGED <<kube, roles, lastRole, lastGroup, history, cr, behind, gid, wantIDs, drops, user>>
        /\ Call(o) /\ adds' = adds \ {id} /\ pc = "assign" /\ pc' \in {"assign", "failed"}
    BY <1>14 DEF AssignRole, AssignRoleThen
  <2>2. AdminOK'
    <3>1. CASE group' = group
      BY <1>0, <2>1, <3>1, AdminIdle DEF admin
    <3>2. CASE group' = [group EXCEPT !.roles = @ \cup {id}] /\ Exists(id) /\ group.id # 0
      <4> DEFINE X == group.roles \cup {id}
      <4>1. X \in SUBSET (1..lastRole) /\ \A i \in X : Exists(i)'
        BY <1>0, <2>1, <3>2 DEF AdminOK, PassOK, Exists
      <4>2. group' = [group EXCEPT !.roles = X]
        BY <3>2
      <4> HIDE DEF X
      <4> QED
        BY <1>0, <2>1, <3>2, <4>1, <4>2, GroupRolesChange DEF AdminOK
    <3> QED
      BY <1>0, <1>14, <3>1, <3>2 DEF AssignRole, AssignRoleThen, Assignable, PassOK
  <2>3. PassOK'
    BY <1>0, <2>1 DEF PassOK, Steps
  <2> QED
    BY <1>0, <2>1, <2>2, <2>3, CallTypes DEF Types, kube, history, RestOK
<1>15. ASSUME NEW o \in Outcomes, NEW id \in drops, RemoveRole(o, id) PROVE Types'
  <2>1. /\ UNCHANGED <<kube, roles, lastRole, lastGroup, history, cr, behind, gid, wantIDs, adds, user>>
        /\ Call(o) /\ drops' = drops \ {id} /\ pc = "remove" /\ pc' \in {"remove", "failed"}
    BY <1>15 DEF RemoveRole
  <2>2. AdminOK'
    <3>1. CASE group' = group
      BY <1>0, <2>1, <3>1, AdminIdle DEF admin
    <3>2. CASE group' = [group EXCEPT !.roles = @ \ {id}] /\ group.id # 0
      <4> DEFINE X == group.roles \ {id}
      <4>1. X \in SUBSET (1..lastRole) /\ \A i \in X : Exists(i)'
        BY <1>0, <2>1 DEF AdminOK, Exists
      <4>2. group' = [group EXCEPT !.roles = X]
        BY <3>2
      <4> HIDE DEF X
      <4> QED
        BY <1>0, <2>1, <3>2, <4>1, <4>2, GroupRolesChange DEF AdminOK
    <3> QED
      BY <1>0, <1>15, <3>1, <3>2 DEF RemoveRole, PassOK
  <2>3. PassOK'
    BY <1>0, <2>1 DEF PassOK, Steps
  <2> QED
    BY <1>0, <2>1, <2>2, <2>3, CallTypes DEF Types, kube, history, RestOK
<1>16. ASSUME NEW o \in Outcomes, ReportSynced(o) \/ ReportError(o) PROVE Types'
  BY <1>16, WriteEndsTypes, WrittenTypes DEF ReportSynced, ReportError, Readys, Types, PassOK, RestOK
<1> QED
  BY <1>1, <1>2, <1>3, <1>4, <1>5, <1>6, <1>7, <1>8, <1>9, <1>10, <1>11, <1>12, <1>13, <1>14,
     <1>15, <1>16 DEF Reconcile

\* The steps of users, roles and outsiders leave the running pass its types.
LEMMA OthersTypes ==
  ASSUME Types,
         \/ Apply \/ Edit \/ Delete \/ ToggleAuth \/ OutsideGroup
         \/ \E n \in Names : RoleAppears(n) \/ RoleVanishes(n) \/ OutsideAssign(n)
  PROVE  Types'
<1>0. AdminOK /\ PassOK /\ RestOK
  BY DEF Types
<1>1. UserStep => user' \in Nat /\ UNCHANGED <<cr, lists, pc, faults>>
  BY <1>0 DEF UserStep, RestOK
<1>2. ASSUME UserStep, AdminOK', stored' \in CRType, authOk' \in BOOLEAN, behind' \in BOOLEAN,
             changed' \in BOOLEAN, calm' \in BOOLEAN,
             lastRole <= lastRole', lastGroup <= lastGroup'
      PROVE  Types'
  <2>1. PassOK'
    BY <1>0, <1>1, <1>2, PassIdle DEF AdminOK
  <2> QED
    BY <1>0, <1>1, <1>2, <2>1 DEF Types, RestOK
<1>3. ASSUME NEW new \in CRType, UserWrites(new) PROVE Types'
  <2>1. AdminOK'
    BY <1>0, <1>3, AdminIdle DEF UserWrites
  <2> QED
    BY <1>0, <1>2, <1>3, <2>1 DEF UserWrites, admin, history, AdminOK, RestOK
<1>4. CASE Apply
  BY <1>3, <1>4, FreshType DEF Apply
<1>5. CASE Edit
  <2>1. \A want \in Specs : [stored EXCEPT !.want = want, !.gen = @ + 1] \in CRType
    <3>1. stored \in CRType /\ stored.gen + 1 \in Nat
      BY <1>0 DEF RestOK, CRType
    <3> QED
      BY <3>1 DEF CRType
  <2> QED
    BY <1>3, <1>5, <2>1 DEF Edit
<1>6. CASE Delete
  <2>1. [stored EXCEPT !.del = TRUE] \in CRType
    BY <1>0 DEF RestOK, CRType
  <2> QED
    BY <1>3, <1>6, <2>1, GoneType DEF Delete
<1>7. CASE ToggleAuth
  <2>1. AdminOK'
    BY <1>0, <1>7, AdminIdle DEF ToggleAuth
  <2> QED
    BY <1>0, <1>2, <1>7, <2>1 DEF ToggleAuth, admin, history, AdminOK, RestOK
<1>8. ASSUME Disturb, AdminOK', lastRole <= lastRole', lastGroup <= lastGroup' PROVE Types'
  BY <1>0, <1>2, <1>8 DEF Disturb, kube, RestOK
<1>9. CASE OutsideGroup
  <2>1. Disturb /\ UNCHANGED <<roles, lastRole>> /\ lastRole \in Nat /\ lastGroup \in Nat
    BY <1>0, <1>9 DEF OutsideGroup, AdminOK
  <2>2. CASE Appears(FALSE)
    <3>1. AdminOK' /\ lastGroup' = lastGroup + 1
      BY <1>0, <2>1, <2>2, GroupComes
    <3> QED
      BY <1>8, <2>1, <3>1
  <2>3. CASE group' = NoGroup /\ UNCHANGED lastGroup
    <3>1. AdminOK'
      BY <1>0, <2>1, <2>3, GroupGoes
    <3> QED
      BY <1>8, <2>1, <2>3, <3>1
  <2> QED
    BY <1>9, <2>2, <2>3 DEF OutsideGroup
<1>10. ASSUME NEW n \in Names, RoleAppears(n) PROVE Types'
  <2>1. AdminOK'
    BY <1>0, <1>10, RoleComes DEF RoleAppears
  <2> QED
    BY <1>0, <1>8, <1>10, <2>1 DEF RoleAppears, AdminOK
<1>11. ASSUME NEW n \in Names, RoleVanishes(n) PROVE Types'
  <2> DEFINE X == group.roles \ {roles[n]}
  <2>1. group' = [group EXCEPT !.roles = X] /\ UNCHANGED <<lastRole, lastGroup>>
        /\ roles' = [roles EXCEPT ![n] = 0]
    BY <1>11 DEF RoleVanishes
  <2>2. /\ X \in SUBSET (1..lastRole) /\ roles' \in [Names -> 0..lastRole]
        /\ \A k, m \in Names : roles'[k] = roles'[m] => k = m \/ roles'[k] = 0
        /\ group.id # 0 \/ X = {}
    BY <1>0, <2>1 DEF AdminOK, NoGroup
  <2>3. \A id \in X : Exists(id)'
    BY <1>0, <2>1 DEF AdminOK, Exists
  <2> HIDE DEF X
  <2>4. \A k, m \in Names : roles'[k] = roles'[m] => k = m \/ roles'[m] = 0
    BY <2>2
  <2>5. AdminOK'
    BY <1>0, <2>1, <2>2, <2>3, <2>4, GroupRolesChange
  <2> QED
    BY <1>0, <1>8, <1>11, <2>1, <2>5 DEF RoleVanishes, AdminOK
<1>12. ASSUME NEW n \in Names, OutsideAssign(n) PROVE Types'
  <2>1. PICK X \in {group.roles \ {roles[n]}, group.roles \cup {roles[n]}} :
          group' = [group EXCEPT !.roles = X]
    BY <1>12 DEF OutsideAssign
  <2>2. X \in SUBSET (1..lastRole) /\ \A id \in X : Exists(id)'
    BY <1>0, <1>12 DEF OutsideAssign, AdminOK, Exists
  <2> QED
    BY <1>0, <1>8, <1>12, <2>1, <2>2, GroupRolesChange DEF OutsideAssign, AdminOK
<1> QED
  BY <1>4, <1>5, <1>6, <1>7, <1>9, <1>10, <1>11, <1>12

\* and every step.
LEMMA TypeKeeps == Types /\ [Next]_vars => Types'
<1> SUFFICES ASSUME Types, [Next]_vars PROVE Types'
  OBVIOUS
<1>0. AdminOK /\ PassOK /\ RestOK
  BY DEF Types
<1>1. CASE Crash
  <2>1. AdminOK'
    BY <1>0, <1>1, AdminIdle DEF Crash
  <2> QED
    BY <1>0, <1>1, <2>1, EndPassOK DEF Types, Crash, kube, history, RestOK
<1>2. CASE UNCHANGED vars
  <2>1. AdminOK' /\ PassOK'
    BY <1>0, <1>2, AdminIdle, PassIdle DEF vars, admin, held, AdminOK
  <2> QED
    BY <1>0, <1>2, <2>1 DEF Types, vars, kube, history, held, RestOK
<1> QED
  BY <1>1, <1>2, PassTypes, OthersTypes DEF Next

-----------------------------------------------------------------------------
(* One step of a pass                                                      *)

\* The initial state satisfies IInv.
LEMMA InitHolds == Init => IInv
<1> SUFFICES ASSUME Init PROVE IInv
  OBVIOUS
<1>1. AdminOK
  BY BoundsAssumption DEF Init, AdminOK, NoGroup
<1>2. PassOK
  BY GoneType DEF Init, PassOK, Steps
<1>5. RestOK
  BY GoneType, BoundsAssumption DEF Init, RestOK
<1>3. StoredSane /\ SyncedTruth
  BY GoneType DEF Init, StoredSane, SyncedTruth
<1>4. PassInv
  BY DEF Init, PassInv, Copied, Knows, SpecKept, CalmKnown, Undisturbed, Replaced, Cleared,
         Running, Finalizing, Grouped, Listed
<1> QED
  BY <1>1, <1>2, <1>3, <1>4, <1>5 DEF IInv, Types

\* Between passes there is nothing to know.
LEMMA EndPassKeeps == EndPass => PassInv'
  BY DEF EndPass, PassInv, Copied, Knows, SpecKept, CalmKnown, Undisturbed, Replaced, Cleared,
         Running, Finalizing, Grouped, Listed

\* A status stays as true as it is while the CR, the roles, the group and the
\* history stay.
LEMMA TruthIdle ==
  ASSUME IInv, UNCHANGED <<stored, roles, group, changed>>
  PROVE  StoredSane' /\ SyncedTruth'
  BY DEF IInv, StoredSane, SyncedTruth, Exact

\* A status update with a copy that may be behind.
LEMMA WriteKeeps ==
  ASSUME IInv, Running, NEW o, NEW new \in CRType, Write(o, new),
         new.obs <= new.gen, new.del => new.fin
  PROVE  /\ StoredSane'
         /\ UNCHANGED changed /\ new.ready # "True" => SyncedTruth'
  BY DEF IInv, Write, StoredSane, SyncedTruth, Exact, admin

\* An error status, or none because the CR is gone.
LEMMA FailureKeeps ==
  ASSUME IInv, Types', NEW o \in Outcomes,
         AuthSecretError(o) \/ ReportError(o) \/ RemoveFinalizer(o)
  PROVE  IInv'
<1>1. Running /\ EndPass /\ UNCHANGED changed
  BY DEF AuthSecretError, ReportError, RemoveFinalizer, Running
<1>2. PICK new \in {[cr EXCEPT !.ready = "AuthSecretError"],
                    [cr EXCEPT !.ready = "ReconcileError"], Gone} : Write(o, new)
  BY DEF AuthSecretError, ReportError, RemoveFinalizer
<1>3. cr \in CRType /\ cr.obs <= cr.gen /\ (cr.del => cr.fin)
  BY <1>1 DEF IInv, Types, PassOK, PassInv, Copied
<1>4. /\ new \in CRType /\ new.obs <= new.gen /\ (new.del => new.fin) /\ new.ready # "True"
  <2>1. CASE new = Gone
    BY <2>1, GoneType DEF Gone, Fresh
  <2>2. CASE new # Gone
    BY <1>2, <1>3, <2>2 DEF CRType, Readys
  <2> QED
    BY <2>1, <2>2
<1>5. StoredSane' /\ SyncedTruth'
  BY <1>1, <1>2, <1>4, WriteKeeps
<1> QED
  BY <1>1, <1>5, EndPassKeeps DEF IInv

\* A status of a pass nobody disturbed is true; one of another is not trusted.
LEMMA ReportSyncedKeeps ==
  ASSUME IInv, Types', NEW o \in Outcomes, ReportSynced(o)
  PROVE  IInv'
<1> DEFINE new == [cr EXCEPT !.obs = cr.gen, !.ready = "True"]
<1>1. pc = "synced" /\ Running /\ EndPass /\ Write(o, new)
  BY DEF ReportSynced, Running
<1>2. cr \in CRType /\ (cr.del => cr.fin)
  BY <1>1 DEF IInv, Types, PassOK, PassInv, Copied
<1>3. /\ new \in CRType /\ new.obs <= new.gen /\ (new.del => new.fin) /\ new.want = cr.want
  <2>1. new \in CRType
    BY <1>2, WrittenTypes
  <2>2. new.obs = cr.gen /\ new.gen = cr.gen /\ new.del = cr.del /\ new.fin = cr.fin
        /\ new.want = cr.want /\ cr.gen \in Nat
    BY <1>2 DEF CRType
  <2> HIDE DEF new
  <2> QED
    BY <1>2, <2>1, <2>2
<1> HIDE DEF new
<1>4. StoredSane'
  BY <1>1, <1>3, WriteKeeps
<1>5. SyncedTruth'
  <2>1. CASE Applied(o) /\ ~behind
    <3>1. stored' = new /\ UNCHANGED <<roles, group>> /\ changed' = ~calm
      BY <1>1, <2>1 DEF ReportSynced, Write, admin
    <3>2. calm => group.id # 0 /\ group.roles = {roles[n] : n \in cr.want}
      BY <1>1 DEF IInv, Types, PassOK, PassInv, Undisturbed, Grouped, Listed
    <3> QED
      BY <1>3, <3>1, <3>2 DEF SyncedTruth, Exact
  <2>2. CASE ~(Applied(o) /\ ~behind)
    BY <1>1, <2>2, TruthIdle DEF ReportSynced, Write, admin
  <2> QED
    BY <2>1, <2>2
<1> QED
  BY <1>1, <1>4, <1>5, EndPassKeeps DEF IInv

\* r.Get at the start of a pass takes the stored CR.
LEMMA GetCRKeeps ==
  ASSUME IInv, Types', GetCR
  PROVE  IInv'
<1>1. StoredSane' /\ SyncedTruth'
  BY TruthIdle DEF GetCR, kube, admin
<1>2. PassInv'
  <2>1. /\ pc' = "auth" /\ cr' = stored /\ stored' = stored /\ stored.here /\ calm' = TRUE
    BY DEF GetCR, kube
  <2> QED
    BY <2>1 DEF IInv, StoredSane, PassInv, Copied, Knows, SpecKept, CalmKnown,
       Undisturbed, Replaced, Cleared, Running, Finalizing, Grouped, Listed
<1> QED
  BY <1>1, <1>2 DEF IInv

\* The way a pass takes is justified by the mark and the finalizer of its copy.
LEMMA ResolveAuthKeeps ==
  ASSUME IInv, Types', ResolveAuth
  PROVE  IInv'
<1>1. StoredSane' /\ SyncedTruth'
  BY TruthIdle DEF ResolveAuth, kube, admin, history
<1>2. PassInv'
  <2>1. CASE EndPass
    BY <2>1, EndPassKeeps
  <2>2. ASSUME ~EndPass PROVE PassInv'
    <3>1. /\ pc = "auth" /\ UNCHANGED held /\ UNCHANGED <<kube, admin, history>>
          /\ pc' \in {"autherr", "lookup", "find", "guard"}
          /\ pc' = "lookup" => cr.del /\ cr.fin
          /\ pc' = "find" => cr.fin
          /\ pc' = "guard" => ~cr.fin
      BY <2>2 DEF ResolveAuth, Goto
    <3> QED
      BY <3>1 DEF IInv, PassInv, Copied, Knows, SpecKept, CalmKnown, Undisturbed, Replaced,
         Cleared, Running, Finalizing, Grouped, Listed, held, lists, kube, admin, history
  <2> QED
    BY <2>1, <2>2
<1> QED
  BY <1>1, <1>2 DEF IInv

\* A copy that was written is the stored one, and no generation of it was
\* observed yet.
LEMMA AddFinalizerKeeps ==
  ASSUME IInv, Types', NEW o \in Outcomes, AddFinalizer(o)
  PROVE  IInv'
<1> DEFINE new == [cr EXCEPT !.fin = TRUE]
<1>1. pc = "guard" /\ Running /\ Write(o, new) /\ UNCHANGED changed
  BY DEF AddFinalizer, Running
<1>2. cr \in CRType /\ cr.here /\ ~cr.del /\ ~cr.fin /\ cr.obs <= cr.gen
  BY <1>1 DEF IInv, Types, PassOK, PassInv, Copied, Knows
<1>3. /\ new \in CRType /\ new.here /\ ~new.del /\ new.fin /\ new.want = cr.want
      /\ new.obs = cr.obs /\ new.gen = cr.gen /\ new.ready = cr.ready
  BY <1>2 DEF CRType
<1> HIDE DEF new
<1>4. StoredSane'
  BY <1>1, <1>2, <1>3, WriteKeeps
<1>5. SyncedTruth'
  <2>1. CASE stored' = new /\ ~behind
    <3>1. cr = stored
      BY <1>1, <2>1 DEF IInv, PassInv, Copied
    <3> QED
      BY <1>1, <1>2, <1>3, <2>1, <3>1 DEF Write, admin, IInv, SyncedTruth, Exact
  <2>2. CASE stored' = stored
    BY <1>1, <2>2, TruthIdle DEF Write, admin
  <2> QED
    BY <1>1, <2>1, <2>2 DEF Write
<1>6. PassInv'
  <2>1. CASE EndPass
    BY <2>1, EndPassKeeps
  <2>2. CASE ~EndPass
    <3>1. /\ stored' = new /\ cr' = new /\ pc' = "refetch" /\ behind' = behind
          /\ UNCHANGED <<calm, changed>>
      BY <1>1, <2>2 DEF AddFinalizer, Write, Applied, new
    <3> QED
      BY <1>1, <1>2, <1>3, <3>1 DEF IInv, PassInv, Copied, Knows, SpecKept, CalmKnown,
         Undisturbed, Replaced, Cleared, Running, Finalizing, Grouped, Listed
  <2> QED
    BY <2>1, <2>2
<1> QED
  BY <1>4, <1>5, <1>6 DEF IInv

\* The copy read again is the stored CR, unless that is gone.
LEMMA RefetchKeeps ==
  ASSUME IInv, Types', Refetch
  PROVE  IInv'
<1>1. StoredSane' /\ SyncedTruth'
  BY TruthIdle DEF Refetch, kube, admin, history
<1>2. PassInv'
  <2>1. CASE EndPass
    BY <2>1, EndPassKeeps
  <2>2. CASE ~EndPass
    <3>1. /\ pc = "refetch" /\ cr' = stored /\ stored.here /\ stored.fin /\ pc' = "find"
          /\ UNCHANGED <<stored, calm, changed>>
      BY <2>2 DEF Refetch, kube, history, IInv, PassInv, Knows, Copied, Running
    <3> QED
      BY <3>1 DEF IInv, StoredSane, PassInv, Copied, Knows, SpecKept, CalmKnown,
         Undisturbed, Replaced, Cleared, Running, Finalizing, Grouped, Listed
  <2> QED
    BY <2>1, <2>2
<1> QED
  BY <1>1, <1>2 DEF IInv

-----------------------------------------------------------------------------
(* The calls to the Admin API                                              *)

\* A step within a pass that leaves the CR, its copy and the history.
LEMMA PassGoesOn ==
  ASSUME IInv, Running, pc' # "idle", UNCHANGED <<stored, cr, behind, changed, calm>>
  PROVE  Copied' /\ SpecKept' /\ CalmKnown'
  BY DEF IInv, PassInv, Copied, SpecKept, CalmKnown, Running

\* Before a deletion: the group found is the one there is.
LEMMA LookupKeeps ==
  ASSUME IInv, Types', NEW o \in Outcomes, Lookup(o)
  PROVE  IInv'
<1>1. /\ pc = "lookup" /\ UNCHANGED <<stored, roles, group, changed, calm>>
      /\ \/ EndPass
         \/ /\ pc' = "delete" /\ gid' = group.id
            /\ UNCHANGED <<cr, behind>>
         \/ /\ pc' = "release" /\ group.id = 0
            /\ UNCHANGED <<cr, behind>>
  BY DEF Lookup, LookupThen, Look, Call, Outcomes, kube, admin, history
<1>2. StoredSane' /\ SyncedTruth'
  BY <1>1, TruthIdle
<1>3. CASE EndPass
  BY <1>2, <1>3, EndPassKeeps DEF IInv
<1>4. CASE ~EndPass
  <2>1. Copied' /\ SpecKept' /\ CalmKnown'
    BY <1>1, <1>4, PassGoesOn DEF Running
  <2>2. Knows' /\ Undisturbed' /\ Replaced'
    BY <1>1, <1>4 DEF IInv, PassInv, Knows, Undisturbed, Replaced, Finalizing, Grouped, Listed
  <2>3. Cleared'
    BY <1>1, <1>4 DEF IInv, Types, AdminOK, NoGroup, Cleared
  <2> QED
    BY <1>2, <2>1, <2>2, <2>3 DEF IInv, PassInv
<1> QED
  BY <1>3, <1>4

\* The group goes only for a CR that is being deleted, of which nothing is said.
LEMMA DeleteRemoteKeeps ==
  ASSUME IInv, Types', NEW o \in Outcomes, DeleteRemote(o)
  PROVE  IInv'
<1>1. /\ pc = "delete" /\ UNCHANGED <<stored, changed, calm>>
      /\ group' = IF Applied(o) /\ group.id = gid THEN NoGroup ELSE group
      /\ EndPass \/ (pc' = "release" /\ o = "ok" /\ UNCHANGED <<cr, behind>>)
  BY DEF DeleteRemote, DeleteThen, Goto, held, kube, history
<1>2. cr.del /\ stored.del
  BY <1>1 DEF IInv, PassInv, Knows, Copied, Finalizing, Running
<1>3. StoredSane' /\ SyncedTruth'
  BY <1>1, <1>2 DEF IInv, StoredSane, SyncedTruth
<1>4. CASE EndPass
  BY <1>3, <1>4, EndPassKeeps DEF IInv
<1>5. CASE ~EndPass
  <2>1. Copied' /\ SpecKept' /\ CalmKnown'
    BY <1>1, <1>5, PassGoesOn DEF Running
  <2>2. Knows' /\ Undisturbed' /\ Replaced'
    BY <1>1, <1>5 DEF IInv, PassInv, Knows, Undisturbed, Replaced, Finalizing, Grouped, Listed
  <2>3. Cleared'
    BY <1>1, <1>5 DEF IInv, PassInv, Cleared, Applied, NoGroup
  <2> QED
    BY <1>3, <2>1, <2>2, <2>3 DEF IInv, PassInv
<1> QED
  BY <1>4, <1>5

\* Before a sync: a group of the name, ours or not, is adopted.
LEMMA FindKeeps ==
  ASSUME IInv, Types', NEW o \in Outcomes, Find(o)
  PROVE  IInv'
<1>1. /\ pc = "find" /\ UNCHANGED <<stored, roles, group, changed, calm, cr, behind>>
      /\ \/ pc' = "failed"
         \/ pc' = "create" /\ group.id = 0
         \/ pc' = "roles" /\ gid' = group.id
  BY DEF Find, Look, Call, Outcomes, kube, admin, history
<1>2. StoredSane' /\ SyncedTruth'
  BY <1>1, TruthIdle
<1>3. Copied' /\ SpecKept' /\ CalmKnown'
  BY <1>1, PassGoesOn DEF Running
<1>4. Knows' /\ Undisturbed' /\ Replaced' /\ Cleared'
  BY <1>1 DEF IInv, PassInv, Knows, Undisturbed, Replaced, Cleared, Finalizing, Grouped, Listed
<1> QED
  BY <1>2, <1>3, <1>4 DEF IInv, PassInv

\* While the status is true nobody creates the group: it is there.
LEMMA CreateKeeps ==
  ASSUME IInv, Types', NEW o \in Outcomes, Create(o)
  PROVE  IInv'
<1>1. /\ pc = "create" /\ UNCHANGED <<stored, roles, changed, calm, cr, behind>>
      /\ (Appears(TRUE) /\ group.id = 0) \/ UNCHANGED <<group, lastGroup>>
      /\ pc' = "failed" \/ (pc' = "roles" /\ gid' = lastGroup' /\ Appears(TRUE))
  BY DEF Create, Applied, kube, history
<1>2. Copied' /\ SpecKept' /\ CalmKnown'
  BY <1>1, PassGoesOn DEF Running
<1>3. StoredSane' /\ SyncedTruth'
  <2>1. CASE UNCHANGED group
    BY <1>1, <2>1, TruthIdle
  <2>2. CASE Appears(TRUE) /\ group.id = 0
    BY <1>1, <2>2 DEF IInv, StoredSane, SyncedTruth, Exact
  <2> QED
    BY <1>1, <2>1, <2>2
<1>4. Knows' /\ Replaced' /\ Cleared'
  BY <1>1 DEF IInv, PassInv, Knows, Replaced, Cleared, Finalizing, Grouped, Listed
<1>5. Undisturbed'
  <2>1. Appears(TRUE) => group'.id = lastGroup'
    BY DEF Appears
  <2> QED
    BY <1>1, <2>1 DEF Undisturbed, Grouped, Listed
<1> QED
  BY <1>2, <1>3, <1>4, <1>5 DEF IInv, PassInv

\* The ids of the wanted names are those of this moment.
LEMMA ListRolesKeeps ==
  ASSUME IInv, Types', NEW o \in Outcomes, ListRoles(o)
  PROVE  IInv'
<1>1. /\ pc = "roles" /\ UNCHANGED <<stored, roles, group, changed, calm, cr, behind, gid>>
      /\ pc' = "failed" \/ (pc' = "current" /\ wantIDs' = {roles[n] : n \in cr.want})
  BY DEF ListRoles, Goto, held, lists, kube, admin, history
<1>2. StoredSane' /\ SyncedTruth'
  BY <1>1, TruthIdle
<1>3. Copied' /\ SpecKept' /\ CalmKnown'
  BY <1>1, PassGoesOn DEF Running
<1>4. Knows' /\ Undisturbed' /\ Cleared'
  BY <1>1 DEF IInv, PassInv, Knows, Undisturbed, Cleared, Finalizing, Grouped, Listed
<1>5. Replaced'
  BY <1>1 DEF Replaced, Listed
<1> QED
  BY <1>2, <1>3, <1>4, <1>5 DEF IInv, PassInv

\* What is left to add and to remove is the difference to the group's roles.
LEMMA ListGroupRolesKeeps ==
  ASSUME IInv, Types', NEW o \in Outcomes, ListGroupRoles(o)
  PROVE  IInv'
<1>1. /\ pc = "current" /\ UNCHANGED <<stored, roles, group, changed, calm, cr, behind, gid>>
      /\ \/ pc' = "failed"
         \/ /\ pc' = "assign" /\ wantIDs' = wantIDs /\ adds' = wantIDs \ group.roles
            /\ drops' = group.roles \ wantIDs
  BY DEF ListGroupRoles, Goto, held, lists, kube, admin, history
<1>2. StoredSane' /\ SyncedTruth'
  BY <1>1, TruthIdle
<1>3. Copied' /\ SpecKept' /\ CalmKnown'
  BY <1>1, PassGoesOn DEF Running
<1>4. Knows' /\ Undisturbed' /\ Cleared'
  BY <1>1 DEF IInv, PassInv, Knows, Undisturbed, Cleared, Finalizing, Grouped, Listed
<1>5. Replaced'
  <2>1. CASE pc' = "failed"
    BY <2>1 DEF Replaced, Listed
  <2>2. CASE pc' = "assign"
    <3>1. /\ pc \in {"current"} /\ UNCHANGED <<cr, roles, wantIDs>>
          /\ \A n \in cr.want : roles[n] \in wantIDs \/ \E id \in wantIDs : ~Exists(id)
      BY <1>1, <2>2 DEF IInv, PassInv, Replaced, Listed
    <3>2. \A id \in wantIDs : ~Exists(id) => id \in adds'
      BY <1>1, <2>2 DEF IInv, Types, AdminOK
    <3>3. \A n \in cr.want : roles[n] \in drops' => \E id \in adds' : ~Exists(id)
      BY <1>1, <2>2, <3>1, <3>2
    <3> QED
      BY <2>2, <3>1, <3>3 DEF Replaced, Listed, Exists
  <2> QED
    BY <1>1, <2>1, <2>2
<1> QED
  BY <1>2, <1>3, <1>4, <1>5 DEF IInv, PassInv

\* An assignment reaches a role that exists: the one that is missing for ever
\* stays among those still to be assigned.
LEMMA AssignRoleKeeps ==
  ASSUME IInv, Types', NEW o \in Outcomes, NEW id \in adds, AssignRole(o, id)
  PROVE  IInv'
<1>1. /\ pc = "assign" /\ pc' \in {"assign", "failed"} /\ adds' = adds \ {id}
      /\ UNCHANGED <<stored, roles, changed, calm, cr, behind, gid, wantIDs, drops>>
      /\ \/ group' = group /\ pc' = "failed"
         \/ Assignable(id) /\ group' = [group EXCEPT !.roles = @ \cup {id}]
  BY DEF AssignRole, AssignRoleThen, Applied, kube, history
<1>2. Copied' /\ SpecKept' /\ CalmKnown'
  BY <1>1, PassGoesOn DEF Running
<1>3. id \in wantIDs /\ id \notin drops
  BY DEF IInv, Types, PassOK
<1>4. /\ group'.id = group.id /\ group'.ours = group.ours
      /\ group'.roles = group.roles \/ (Assignable(id) /\ group'.roles = group.roles \cup {id})
      /\ pc' = "assign" => Assignable(id) /\ group'.roles = group.roles \cup {id}
  BY <1>1 DEF IInv, Types, AdminOK
\* A true status leaves nothing to assign.
<1>5. StoredSane' /\ SyncedTruth'
  <2>1. StoredSane'
    BY <1>1 DEF IInv, StoredSane
  <2>2. CASE changed
    <3>1. changed' = TRUE
      BY <1>1, <2>2 DEF IInv, Types, RestOK
    <3> QED
      BY <2>1, <3>1 DEF SyncedTruth
  <2>3. ASSUME ~changed, stored.here, stored.obs = stored.gen, Exact(stored.want) PROVE FALSE
    <3>1. calm /\ stored.want = cr.want
      BY <1>1, <2>3 DEF IInv, Types, RestOK, CRType, PassInv, CalmKnown, SpecKept, Running
    <3>2. adds = wantIDs \ group.roles /\ wantIDs = {roles[n] : n \in cr.want}
      BY <1>1, <3>1 DEF IInv, PassInv, Undisturbed, Listed
    <3> QED
      BY <2>3, <3>1, <3>2 DEF Exact
  <2> QED
    BY <1>1, <2>1, <2>2, <2>3 DEF IInv, SyncedTruth
<1>6. Knows' /\ Cleared'
  BY <1>1 DEF IInv, PassInv, Knows, Cleared, Finalizing, Grouped
<1>7. Undisturbed'
  BY <1>1, <1>3, <1>4 DEF IInv, PassInv, Undisturbed, Grouped, Listed
<1>8. Replaced'
  <2>1. CASE pc' = "failed"
    BY <2>1 DEF Replaced, Listed
  <2>2. CASE pc' = "assign"
    <3>1. Exists(id)
      BY <1>4, <2>2 DEF Assignable
    <3>2. \A i \in adds : ~Exists(i) => i \in adds'
      BY <1>1, <3>1
    <3>3. /\ \A n \in cr.want : roles[n] \in wantIDs \/ \E i \in wantIDs : ~Exists(i)
          /\ \A n \in cr.want : roles[n] \in drops => \E i \in adds : ~Exists(i)
      BY <1>1 DEF IInv, PassInv, Replaced, Listed
    <3> QED
      BY <1>1, <2>2, <3>2, <3>3 DEF Replaced, Listed, Exists
  <2> QED
    BY <1>1, <2>1, <2>2
<1> QED
  BY <1>2, <1>5, <1>6, <1>7, <1>8 DEF IInv, PassInv

\* A role taken away is not a wanted one.
LEMMA RemoveRoleKeeps ==
  ASSUME IInv, Types', NEW o \in Outcomes, NEW id \in drops, RemoveRole(o, id)
  PROVE  IInv'
<1>1. /\ pc = "remove" /\ pc' \in {"remove", "failed"} /\ drops' = drops \ {id}
      /\ UNCHANGED <<stored, roles, changed, calm, cr, behind, gid, wantIDs, adds>>
      /\ \/ group' = group /\ pc' = "failed"
         \/ group' = [group EXCEPT !.roles = @ \ {id}]
  BY DEF RemoveRole, Applied, kube, history
<1>2. Copied' /\ SpecKept' /\ CalmKnown'
  BY <1>1, PassGoesOn DEF Running
<1>3. id \notin wantIDs
  BY DEF IInv, Types, PassOK
<1>4. /\ group'.id = group.id /\ group'.ours = group.ours
      /\ pc' = "remove" => group'.roles = group.roles \ {id}
  BY <1>1 DEF IInv, Types, AdminOK
\* A true status leaves nothing to remove.
<1>5. StoredSane' /\ SyncedTruth'
  <2>1. StoredSane'
    BY <1>1 DEF IInv, StoredSane
  <2>2. CASE changed
    <3>1. changed' = TRUE
      BY <1>1, <2>2 DEF IInv, Types, RestOK
    <3> QED
      BY <2>1, <3>1 DEF SyncedTruth
  <2>3. ASSUME ~changed, stored.here, stored.obs = stored.gen, Exact(stored.want) PROVE FALSE
    <3>1. calm /\ stored.want = cr.want
      BY <1>1, <2>3 DEF IInv, Types, RestOK, CRType, PassInv, CalmKnown, SpecKept, Running
    <3>2. drops = group.roles \ wantIDs /\ wantIDs = {roles[n] : n \in cr.want}
      BY <1>1, <3>1 DEF IInv, PassInv, Undisturbed, Listed
    <3> QED
      BY <2>3, <3>1, <3>2 DEF Exact
  <2> QED
    BY <1>1, <2>1, <2>2, <2>3 DEF IInv, SyncedTruth
<1>6. Knows' /\ Cleared'
  BY <1>1 DEF IInv, PassInv, Knows, Cleared, Finalizing, Grouped
<1>7. Undisturbed'
  BY <1>1, <1>3, <1>4 DEF IInv, PassInv, Undisturbed, Grouped, Listed
<1>8. Replaced'
  BY <1>1 DEF IInv, PassInv, Replaced, Listed, Exists
<1> QED
  BY <1>2, <1>5, <1>6, <1>7, <1>8 DEF IInv, PassInv

\* With nothing left to assign no wanted role is among those to remove.
LEMMA LoopsKeep ==
  ASSUME IInv, Types', Assigned \/ Removed
  PROVE  IInv'
<1>1. /\ UNCHANGED <<stored, roles, group, changed, calm, cr, behind, gid, wantIDs, adds, drops>>
      /\ \/ pc = "assign" /\ pc' = "remove" /\ adds = {}
         \/ pc = "remove" /\ pc' = "synced" /\ drops = {}
  BY DEF Assigned, Removed, Goto, held, lists, kube, admin, history
<1>2. StoredSane' /\ SyncedTruth'
  BY <1>1, TruthIdle
<1>3. Copied' /\ SpecKept' /\ CalmKnown'
  BY <1>1, PassGoesOn DEF Running
<1>4. Knows' /\ Cleared'
  BY <1>1 DEF IInv, PassInv, Knows, Cleared, Finalizing, Grouped
<1>5. Undisturbed'
  BY <1>1 DEF IInv, PassInv, Undisturbed, Grouped, Listed
<1>6. Replaced'
  BY <1>1 DEF IInv, PassInv, Replaced, Listed, Exists
<1> QED
  BY <1>2, <1>3, <1>4, <1>5, <1>6 DEF IInv, PassInv

-----------------------------------------------------------------------------
(* The others                                                              *)

\* A crash drops the copy, and all that was said of it.
LEMMA CrashKeeps ==
  ASSUME IInv, Types', Crash
  PROVE  IInv'
<1>1. StoredSane' /\ SyncedTruth'
  BY TruthIdle DEF Crash, kube, admin, history
<1> QED
  BY <1>1, EndPassKeeps DEF Crash, IInv

\* What a write of the user leaves a pass that runs.
LEMMA UserWritesKeeps ==
  ASSUME IInv, Types', NEW new \in CRType, UserWrites(new), new.here \/ new = Gone,
         new.obs <= new.gen, new.del => new.fin,
         new.obs < new.gen \/ new.del \/ ~new.here,
         new.here /\ ~stored.here => new.obs < new.gen,
         ~new.here => ~stored.here \/ ~stored.fin,
         new.here /\ stored.here =>
           /\ new.fin = stored.fin /\ (stored.del => new.del)
           /\ new.obs < new.gen \/ (new.obs = stored.obs /\ new.gen = stored.gen
                                    /\ new.want = stored.want)
  PROVE  IInv'
<1>1. /\ stored' = new /\ behind' = (pc # "idle")
      /\ UNCHANGED <<admin, history, cr, lists, pc>>
  BY DEF UserWrites, UserStep
<1>2. StoredSane'
  BY <1>1 DEF StoredSane
<1>3. SyncedTruth'
  <2>1. new.gen \in Nat /\ new.obs \in Nat
    BY DEF CRType
  <2> QED
    BY <1>1, <2>1 DEF SyncedTruth
<1>4. PassInv'
  <2>1. Copied'
    BY <1>1 DEF IInv, StoredSane, PassInv, Copied, Running
  <2>2. SpecKept'
    BY <1>1 DEF IInv, PassInv, SpecKept, Running
  <2>3. CalmKnown' /\ Knows' /\ Undisturbed' /\ Replaced' /\ Cleared'
    BY <1>1 DEF IInv, PassInv, CalmKnown, Knows, Undisturbed, Replaced, Cleared, Running,
       Finalizing, Grouped, Listed, admin, history, lists, Exists
  <2> QED
    BY <2>1, <2>2, <2>3 DEF PassInv
<1> QED
  BY <1>2, <1>3, <1>4 DEF IInv

\* A new generation has not been observed.
LEMMA UserKeeps ==
  ASSUME IInv, Types', Apply \/ Edit \/ Delete
  PROVE  IInv'
<1>1. stored \in CRType /\ stored.gen \in Nat /\ stored.obs \in Nat
  BY DEF IInv, Types, RestOK, CRType
<1>2. CASE Apply
  <2>1. PICK want \in Specs : UserWrites(Fresh(want))
    BY <1>2 DEF Apply
  <2> QED
    BY <1>2, <2>1, FreshType, UserWritesKeeps DEF Apply
<1>3. CASE Edit
  <2>1. PICK want \in Specs : UserWrites([stored EXCEPT !.want = want, !.gen = @ + 1])
    BY <1>3 DEF Edit
  <2> DEFINE new == [stored EXCEPT !.want = want, !.gen = @ + 1]
  <2>2. stored.gen + 1 \in Nat /\ stored.obs < stored.gen + 1
    <3>1. stored.here
      BY <1>3 DEF Edit
    <3> QED
      BY <1>1, <3>1 DEF IInv, StoredSane
  <2>3. /\ new.here = stored.here /\ new.obs = stored.obs /\ new.gen = stored.gen + 1
        /\ new.fin = stored.fin /\ new.del = stored.del
    BY <1>1 DEF CRType
  <2>4. new \in CRType
    BY <1>1, <2>2 DEF CRType
  <2>5. UserWrites(new) /\ stored.here
    BY <1>3, <2>1 DEF Edit
  <2>6. new.obs < new.gen /\ new.obs <= new.gen
    BY <1>1, <2>2, <2>3
  <2>7. new.here /\ (new.del => new.fin) /\ (stored.del => new.del) /\ new.fin = stored.fin
    BY <2>3, <2>5 DEF IInv, StoredSane
  <2> HIDE DEF new
  <2> QED
    BY <2>4, <2>5, <2>6, <2>7, UserWritesKeeps
<1>4. CASE Delete
  <2>1. CASE stored.fin
    <3> DEFINE new == [stored EXCEPT !.del = TRUE]
    <3>1. /\ new \in CRType /\ new.here = stored.here /\ new.obs = stored.obs
          /\ new.gen = stored.gen /\ new.fin = stored.fin /\ new.del /\ new.want = stored.want
      BY <1>1 DEF CRType
    <3>2. UserWrites(new) /\ stored.here
      BY <1>4, <2>1 DEF Delete
    <3> HIDE DEF new
    <3> QED
      BY <1>1, <2>1, <3>1, <3>2, UserWritesKeeps DEF IInv, StoredSane
  <2>2. CASE ~stored.fin
    BY <1>4, <2>2, GoneType, UserWritesKeeps DEF Delete
  <2> QED
    BY <2>1, <2>2
<1> QED
  BY <1>2, <1>3, <1>4

\* Whatever somebody else does to the roles and the group.
LEMMA DisturbKeeps ==
  ASSUME IInv, Types', Disturb,
         \A n \in Names : roles'[n] = roles[n] \/ roles'[n] = 0 \/ roles'[n] = lastRole + 1,
         \A n \in Names : roles[n] = 0 => roles'[n] \in {0, lastRole + 1},
         group'.ours => group.ours /\ group'.id = group.id
  PROVE  IInv'
<1>1. /\ UNCHANGED <<stored, cr, behind, lists, pc>> /\ changed' = TRUE /\ calm' = FALSE
  BY DEF Disturb, UserStep, kube
<1>2. StoredSane' /\ SyncedTruth'
  BY <1>1 DEF IInv, StoredSane, SyncedTruth
<1>3. Copied' /\ Knows' /\ SpecKept' /\ CalmKnown' /\ Undisturbed'
  BY <1>1 DEF IInv, PassInv, Copied, Knows, SpecKept, CalmKnown, Undisturbed, Running,
     Finalizing, Grouped, Listed
<1>4. Cleared'
  BY <1>1 DEF IInv, PassInv, Cleared, lists
<1>5. Replaced'
  <2>1. UNCHANGED <<cr, wantIDs, adds, drops, pc>>
    BY <1>1 DEF lists
  <2>2. /\ wantIDs \subseteq 1..lastRole /\ adds \subseteq wantIDs /\ drops \subseteq 1..lastRole
        /\ Running => cr.want \subseteq Names
        /\ lastRole \in Nat
    BY SpecsAssumption DEF IInv, Types, PassOK, AdminOK, CRType
  \* An ID that is gone stays gone.
  <2>3. \A id \in wantIDs : ~Exists(id) => ~Exists(id)'
    <3> SUFFICES ASSUME NEW id \in wantIDs, NEW n \in Names, roles'[n] = id
                 PROVE  roles[n] = id
      BY DEF Exists
    <3> QED
      BY <2>2
  <2>4. ASSUME Listed, NEW n \in cr.want
        PROVE  roles'[n] \in wantIDs \/ \E id \in wantIDs : ~Exists(id)'
    <3>1. n \in Names
      BY <2>2, <2>4 DEF Listed, Running
    <3>2. roles[n] \in wantIDs \/ \E id \in wantIDs : ~Exists(id)
      BY <2>4 DEF IInv, PassInv, Replaced
    <3>3. ASSUME NEW id \in wantIDs, id = roles[n], id # roles'[n] PROVE ~Exists(id)'
      <4> SUFFICES ASSUME NEW m \in Names, roles'[m] = id PROVE FALSE
        BY DEF Exists
      <4>1. id \in 1..lastRole
        BY <2>2
      <4>2. roles[m] = roles[n]
        BY <2>2, <3>3, <4>1
      <4> QED
        BY <3>1, <3>3, <4>1, <4>2 DEF IInv, Types, AdminOK
    <3> QED
      BY <2>3, <3>2, <3>3
  <2>5. ASSUME pc \in {"assign", "remove"}, NEW n \in cr.want, roles'[n] \in drops
        PROVE  \E id \in adds : ~Exists(id)'
    <3>1. n \in Names
      BY <2>2, <2>5 DEF Running
    <3>2. roles[n] = roles'[n]
      BY <2>2, <2>5, <3>1
    <3>3. PICK id \in adds : ~Exists(id)
      BY <2>5, <3>2 DEF IInv, PassInv, Replaced
    <3> QED
      BY <2>2, <2>3, <3>3
  <2>6. pc' = "remove" => adds' = {}
    BY <2>1 DEF IInv, PassInv, Replaced
  <2> QED
    BY <2>1, <2>4, <2>5, <2>6 DEF Replaced, Listed
<1> QED
  BY <1>2, <1>3, <1>4, <1>5 DEF IInv, PassInv

\* Roles that come and go, and outsiders who change the group, are recorded in
\* `changed' and end the calm.
LEMMA OthersKeep ==
  ASSUME IInv, Types',
         OutsideGroup \/ \E n \in Names : RoleAppears(n) \/ RoleVanishes(n) \/ OutsideAssign(n)
  PROVE  IInv'
<1>1. AdminOK
  BY DEF IInv, Types
<1>2. CASE OutsideGroup
  <2>1. Disturb /\ roles' = roles /\ ~group'.ours
    BY <1>2 DEF OutsideGroup, Appears, NoGroup
  <2> QED
    BY <2>1, DisturbKeeps
<1>3. ASSUME NEW n \in Names, RoleAppears(n) PROVE IInv'
  <2>1. /\ Disturb /\ group' = group /\ roles[n] = 0
        /\ roles' = [roles EXCEPT ![n] = lastRole + 1]
    BY <1>3 DEF RoleAppears
  <2>2. \A m \in Names : roles'[m] = IF m = n THEN lastRole + 1 ELSE roles[m]
    BY <1>1, <2>1 DEF AdminOK
  <2> QED
    BY <2>1, <2>2, DisturbKeeps
<1>4. ASSUME NEW n \in Names, RoleVanishes(n) PROVE IInv'
  <2>1. /\ Disturb /\ group'.ours = group.ours /\ group'.id = group.id
        /\ roles' = [roles EXCEPT ![n] = 0]
    BY <1>1, <1>4 DEF RoleVanishes, AdminOK
  <2>2. \A m \in Names : roles'[m] = IF m = n THEN 0 ELSE roles[m]
    BY <1>1, <2>1 DEF AdminOK
  <2> QED
    BY <2>1, <2>2, DisturbKeeps
<1>5. ASSUME NEW n \in Names, OutsideAssign(n) PROVE IInv'
  <2>1. Disturb /\ roles' = roles /\ group'.ours = group.ours /\ group'.id = group.id
    BY <1>1, <1>5 DEF OutsideAssign, AdminOK
  <2> QED
    BY <2>1, DisturbKeeps
<1> QED
  BY <1>2, <1>3, <1>4, <1>5

\* Steps that change neither the CR nor the Admin API nor the pass.
LEMMA StutterKeeps ==
  ASSUME IInv, Types', UNCHANGED <<stored, admin, history, held, pc>>
  PROVE  IInv'
<1>1. UNCHANGED <<stored, roles, group, changed, calm, cr, behind, gid, wantIDs, adds, drops, pc>>
  BY DEF admin, history, held, lists
<1>2. StoredSane' /\ SyncedTruth'
  BY <1>1, TruthIdle
<1>3. PassInv'
  BY <1>1 DEF IInv, PassInv, Copied, Knows, SpecKept, CalmKnown, Undisturbed, Replaced, Cleared,
     Running, Finalizing, Grouped, Listed, Exists
<1> QED
  BY <1>2, <1>3 DEF IInv

\* Every step preserves IInv.
LEMMA NextKeeps == IInv /\ [Next]_vars => IInv'
<1> SUFFICES ASSUME IInv, [Next]_vars PROVE IInv'
  OBVIOUS
<1>1. Types'
  BY TypeKeeps DEF IInv
<1>2. CASE GetCR \/ ResolveAuth \/ Refetch \/ Assigned \/ Removed
  BY <1>1, <1>2, GetCRKeeps, ResolveAuthKeeps, RefetchKeeps, LoopsKeep
<1>3. ASSUME NEW o \in Outcomes,
             \/ AuthSecretError(o) \/ Lookup(o) \/ DeleteRemote(o) \/ RemoveFinalizer(o)
             \/ AddFinalizer(o) \/ Find(o) \/ Create(o) \/ ListRoles(o) \/ ListGroupRoles(o)
             \/ ReportSynced(o) \/ ReportError(o)
      PROVE  IInv'
  BY <1>1, <1>3, FailureKeeps, LookupKeeps, DeleteRemoteKeeps, AddFinalizerKeeps, FindKeeps,
     CreateKeeps, ListRolesKeeps, ListGroupRolesKeeps, ReportSyncedKeeps
<1>4. ASSUME NEW o \in Outcomes,
             \/ \E id \in adds : AssignRole(o, id)
             \/ \E id \in drops : RemoveRole(o, id)
      PROVE  IInv'
  BY <1>1, <1>4, AssignRoleKeeps, RemoveRoleKeeps
<1>5. CASE Crash \/ Apply \/ Edit \/ Delete
  BY <1>1, <1>5, CrashKeeps, UserKeeps
<1>6. CASE OutsideGroup \/ \E n \in Names : RoleAppears(n) \/ RoleVanishes(n) \/ OutsideAssign(n)
  BY <1>1, <1>6, OthersKeep
<1>7. CASE ToggleAuth
  BY <1>1, <1>7, StutterKeeps DEF ToggleAuth, UserStep, held
<1>8. CASE UNCHANGED vars
  BY <1>1, <1>8, StutterKeeps DEF vars, kube
<1> QED
  BY <1>2, <1>3, <1>4, <1>5, <1>6, <1>7, <1>8 DEF Next, Reconcile

-----------------------------------------------------------------------------
(* Refinement of ManagedLifecycle                                          *)

\* A step that leaves the CR, or the group, leaves its abstraction.
LEMMA AbstractFrame ==
  /\ stored' = stored => CRState' = CRState
  /\ group' = group => Remote' = Remote
  BY DEF CRState, Remote

\* A change of the group's roles is none of the group.
LEMMA RolesStutter ==
  ASSUME group'.id = group.id, group'.ours = group.ours
  PROVE  Remote' = Remote
  BY DEF Remote

\* A status update is a stutter.
LEMMA StatusStutters ==
  ASSUME IInv, Running, NEW o, NEW new, Write(o, new),
         new.here = cr.here, new.fin = cr.fin, new.del = cr.del
  PROVE  UNCHANGED <<CRState, Remote>>
<1>1. group' = group /\ (stored' = stored \/ (stored' = new /\ ~behind))
  BY DEF Write, admin
<1>2. ~behind => cr = stored
  BY DEF IInv, PassInv, Copied
<1> QED
  BY <1>1, <1>2, AbstractFrame DEF CRState

\* Every call of a pass is a step of the protocol or changes nothing it sees,
LEMMA ReconcileRefines == IInv /\ Types' /\ Reconcile => [Lifecycle!Next]_(Lifecycle!vars)
<1> SUFFICES ASSUME IInv, Types', Reconcile, ~UNCHANGED <<CRState, Remote>>
             PROVE  Lifecycle!Next
  BY DEF Lifecycle!vars
<1>1. CASE GetCR \/ ResolveAuth \/ Refetch \/ Assigned \/ Removed
  BY <1>1, AbstractFrame DEF GetCR, ResolveAuth, Refetch, Assigned, Removed, kube, admin
<1>2. ASSUME NEW o \in Outcomes, AuthSecretError(o) \/ ReportError(o) \/ ReportSynced(o)
      PROVE  FALSE
  <2>1. PICK new \in {[cr EXCEPT !.ready = "AuthSecretError"],
                      [cr EXCEPT !.ready = "ReconcileError"],
                      [cr EXCEPT !.obs = cr.gen, !.ready = "True"]} : Write(o, new) /\ Running
    BY <1>2 DEF AuthSecretError, ReportError, ReportSynced, Running
  <2>2. new.here = cr.here /\ new.fin = cr.fin /\ new.del = cr.del
    BY <2>1 DEF IInv, Types, PassOK, CRType
  <2> QED
    BY <2>1, <2>2, StatusStutters
<1>3. ASSUME NEW o \in Outcomes, Lookup(o) \/ Find(o) \/ ListRoles(o) \/ ListGroupRoles(o)
      PROVE  FALSE
  BY <1>3, AbstractFrame
     DEF Lookup, LookupThen, Find, Look, ListRoles, ListGroupRoles, kube, admin
<1>4. ASSUME NEW o \in Outcomes, DeleteRemote(o) PROVE Lifecycle!Vanish
  <2>1. stored' = stored /\ (group' = group \/ group' = NoGroup)
    BY <1>4 DEF DeleteRemote, DeleteThen, kube
  <2>2. CRState' = CRState /\ Remote' = "absent" /\ Remote # "absent"
    BY <2>1, AbstractFrame DEF Remote, NoGroup
  <2> QED
    BY <2>2 DEF Lifecycle!Vanish
<1>5. ASSUME NEW o \in Outcomes, RemoveFinalizer(o) PROVE Lifecycle!Release
  <2>1. pc = "release" /\ group' = group /\ (stored' = stored \/ (stored' = Gone /\ ~behind))
    BY <1>5 DEF RemoveFinalizer, Write, admin
  <2>2. Remote' = Remote /\ Remote # "operator" /\ stored' = Gone
    BY <2>1, AbstractFrame DEF IInv, PassInv, Cleared, Remote
  <2>3. stored.here /\ stored.del
    BY <2>1 DEF IInv, PassInv, Copied, Knows, Running, Finalizing
  <2> QED
    BY <2>2, <2>3, GoneType DEF Lifecycle!Release, CRState
<1>6. ASSUME NEW o \in Outcomes, AddFinalizer(o) PROVE Lifecycle!Guard
  <2> DEFINE new == [cr EXCEPT !.fin = TRUE]
  <2>1. /\ pc = "guard" /\ group' = group
        /\ stored' = stored \/ (stored' = new /\ ~behind)
    BY <1>6 DEF AddFinalizer, Write, admin
  <2>2. /\ cr \in CRType /\ cr.here /\ ~cr.fin /\ ~cr.del
        /\ ~behind => cr = stored
    BY <2>1 DEF IInv, Types, PassOK, PassInv, Copied, Knows, Running
  <2>3. new.here /\ new.fin /\ ~new.del
    BY <2>2 DEF CRType
  <2> HIDE DEF new
  <2> QED
    BY <2>1, <2>2, <2>3, AbstractFrame DEF Lifecycle!Guard, CRState
<1>7. ASSUME NEW o \in Outcomes, Create(o) PROVE Lifecycle!Manage
  <2>1. pc = "create" /\ stored' = stored /\ (Appears(TRUE) \/ group' = group)
    BY <1>7 DEF Create, kube
  <2>2. group'.id # 0 /\ group'.ours
    BY <2>1, AbstractFrame DEF Appears, IInv, Types, AdminOK
  <2>3. stored.here /\ stored.fin
    BY <2>1 DEF IInv, PassInv, Copied, Knows, Running
  <2> QED
    BY <2>1, <2>2, <2>3 DEF Lifecycle!Manage, CRState, Remote
<1>8. ASSUME NEW o \in Outcomes, NEW id, AssignRole(o, id) \/ RemoveRole(o, id) PROVE FALSE
  <2>1. stored' = stored /\ group'.id = group.id /\ group'.ours = group.ours
    BY <1>8 DEF AssignRole, AssignRoleThen, RemoveRole, kube, IInv, Types, AdminOK
  <2> QED
    BY <2>1, AbstractFrame, RolesStutter
<1> QED
  BY <1>1, <1>2, <1>3, <1>4, <1>5, <1>6, <1>7, <1>8 DEF Reconcile, Lifecycle!Next

\* and so is what the user and the outsiders do.
LEMMA OthersRefine ==
  ASSUME IInv, Types', ~UNCHANGED <<CRState, Remote>>,
         \/ Apply \/ Edit \/ Delete \/ ToggleAuth \/ OutsideGroup
         \/ \E n \in Names : RoleAppears(n) \/ RoleVanishes(n) \/ OutsideAssign(n)
  PROVE  Lifecycle!Next
<1>1. CASE Apply
  <2>1. PICK want \in Specs : stored' = Fresh(want) /\ group' = group /\ ~stored.here
    BY <1>1 DEF Apply, UserWrites, admin
  <2> QED
    BY <2>1, AbstractFrame, FreshType DEF Lifecycle!Next, Lifecycle!Apply, CRState
<1>2. CASE Edit
  <2>1. PICK want \in Specs : stored' = [stored EXCEPT !.want = want, !.gen = @ + 1]
                              /\ group' = group
    BY <1>2 DEF Edit, UserWrites, admin
  <2>2. stored'.here = stored.here /\ stored'.fin = stored.fin /\ stored'.del = stored.del
    BY <2>1 DEF IInv, Types, RestOK, CRType
  <2> QED
    BY <2>1, <2>2, AbstractFrame DEF CRState
<1>3. CASE Delete
  <2>1. /\ stored.here /\ ~stored.del /\ group' = group
        /\ stored' = IF stored.fin THEN [stored EXCEPT !.del = TRUE] ELSE Gone
    BY <1>3 DEF Delete, UserWrites, admin
  <2>2. stored.fin => stored'.here /\ stored'.del
    BY <2>1 DEF IInv, Types, RestOK, CRType
  <2> QED
    BY <2>1, <2>2, AbstractFrame, GoneType DEF Lifecycle!Next, Lifecycle!Delete, CRState
<1>4. CASE ToggleAuth
  BY <1>4, AbstractFrame DEF ToggleAuth, admin
<1>5. CASE OutsideGroup
  <2>1. /\ stored' = stored
        /\ \/ group.id = 0 /\ Appears(FALSE)
           \/ group.id # 0 /\ group' = NoGroup
    BY <1>5 DEF OutsideGroup, Disturb, kube
  <2>2. Appears(FALSE) => group'.id # 0 /\ ~group'.ours
    BY DEF Appears, IInv, Types, AdminOK
  <2>3. CRState' = CRState
    BY <2>1, AbstractFrame
  <2>4. CASE Appears(FALSE) /\ group.id = 0
    <3>1. Remote = "absent" /\ Remote' = "other"
      BY <2>2, <2>4 DEF Remote
    <3> QED
      BY <2>3, <3>1 DEF Lifecycle!Next, Lifecycle!Appear
  <2>5. CASE group.id # 0 /\ group' = NoGroup
    <3>1. Remote # "absent" /\ Remote' = "absent"
      BY <2>5 DEF Remote, NoGroup
    <3> QED
      BY <2>3, <3>1 DEF Lifecycle!Next, Lifecycle!Vanish
  <2> QED
    BY <2>1, <2>4, <2>5
<1>6. ASSUME NEW n \in Names, RoleAppears(n) \/ RoleVanishes(n) \/ OutsideAssign(n) PROVE FALSE
  <2>1. stored' = stored /\ group'.id = group.id /\ group'.ours = group.ours
    BY <1>6 DEF RoleAppears, RoleVanishes, OutsideAssign, Disturb, kube, IInv, Types, AdminOK
  <2> QED
    BY <2>1, AbstractFrame, RolesStutter
<1> QED
  BY <1>1, <1>2, <1>3, <1>4, <1>5, <1>6

-----------------------------------------------------------------------------
(* Theorems                                                                *)

\* Every reachable state satisfies the inductive invariant.
THEOREM Inductive == Spec => []IInv
<1>1. IInv /\ [Next]_vars => IInv'
  BY NextKeeps
<1> QED
  BY InitHolds, <1>1, PTL DEF Spec

\* The CR, the roles, the group and the running pass stay in their types.
THEOREM TypeCorrect == Spec => []TypeOK
<1>1. IInv => TypeOK
  BY TypesOK DEF IInv
<1> QED
  BY <1>1, Inductive, PTL

\* Ready for the current generation means exactly spec.roles, unless others
\* changed something since the pass that said so began.
THEOREM SyncedTrue == Spec => []SyncedTruth
<1>1. IInv => SyncedTruth
  BY DEF IInv
<1> QED
  BY <1>1, Inductive, PTL

\* No pass takes a role away that its CR asks for.
THEOREM KeepsWanted == Spec => NeverTakesWanted
<1>1. IInv /\ [Next]_vars =>
        [\A n \in stored.want : pc = "remove" /\ roles[n] \in drops \ drops' => behind]_vars
  <2> SUFFICES ASSUME IInv, NEW n \in stored.want, pc = "remove", roles[n] \in drops, ~behind
               PROVE  FALSE
    OBVIOUS
  <2>1. cr = stored
    BY DEF IInv, PassInv, Copied, Running
  <2> QED
    BY <2>1 DEF IInv, PassInv, Replaced
<1> QED
  BY <1>1, Inductive, PTL DEF Spec, NeverTakesWanted

\* The controller implements the finalizer protocol: its group is written only
\* under a finalizer and gone before the CR is, whatever others do to it.
THEOREM Refinement == Spec => ImplementsLifecycle
<1>1. Init => Lifecycle!Init
  BY GoneType DEF Init, Lifecycle!Init, CRState, Remote, NoGroup
<1>2. IInv /\ [Next]_vars => [Lifecycle!Next]_(Lifecycle!vars)
  <2> SUFFICES ASSUME IInv, [Next]_vars PROVE [Lifecycle!Next]_(Lifecycle!vars)
    OBVIOUS
  <2>1. Types'
    BY TypeKeeps DEF IInv
  <2>2. CASE Crash \/ UNCHANGED vars
    BY <2>2, AbstractFrame DEF Crash, vars, kube, admin, Lifecycle!vars
  <2>3. CASE Reconcile
    BY <2>1, <2>3, ReconcileRefines
  <2>4. ASSUME ~UNCHANGED <<CRState, Remote>> PROVE
          \/ Lifecycle!Next
          \/ Reconcile \/ Crash \/ UNCHANGED vars
    BY <2>1, <2>4, OthersRefine DEF Next
  <2> QED
    BY <2>2, <2>3, <2>4 DEF Lifecycle!vars
<1> QED
  BY <1>1, <1>2, Inductive, PTL DEF Spec, ImplementsLifecycle, Lifecycle!Spec
=============================================================================
