---------------------------- MODULE NamedResource ----------------------------
(***************************************************************************)
(* The controllers of the resources the Admin API knows by an ID of its    *)
(* own and the operator by a field of the spec: ClavexRole,                *)
(* ClavexIdentityProvider, ClavexAuthPolicy (spec.name) and ClavexWebhook  *)
(* (spec.url).  Every pass lists the organisation's resources and takes    *)
(* the first with the CR's key.  The four share their control; `kind' is   *)
(* the one under study and says where they differ: a role is never         *)
(* updated, a policy rule is created enabled whatever the spec says, a     *)
(* provider and a webhook have a second Secret to resolve.                 *)
(*                                                                         *)
(* A controller has one worker for all CRs of its kind.  A pass is cut at  *)
(* every call that leaves the process.  What a stale informer cache adds   *)
(* is in ClavexClient; here r.Get returns the stored CR.                   *)
(***************************************************************************)
EXTENDS Naturals

CONSTANTS
  CRs,        \* names of the CRs of the kind
  Keys,       \* values of spec.name or spec.url
  Bodies,     \* contents of the compared fields, but for `on'
  Specs,      \* the specs the user may apply
  Kinds,      \* the kinds under study
  Other,      \* whoever is not a CR: clavexctl, the Admin UI
  Unique,     \* whether the Admin API refuses a second resource with a key
  MaxGen,     \* bound: generation an edit of the spec may reach
  MaxId,      \* bound: resources ever created
  MaxUser,    \* bound: steps of the user and of outsiders
  MaxFaults   \* bound: crashes, failed calls and lost replies

SpecType == [key: Keys, body: Bodies, on: BOOLEAN]
AllKinds == {"role", "provider", "policy", "webhook"}

ASSUME NamesAssumption == Other \notin CRs
ASSUME SpecsAssumption == Specs # {} /\ Specs \subseteq SpecType
ASSUME KindsAssumption == Kinds \subseteq AllKinds /\ Unique \in BOOLEAN
ASSUME BoundsAssumption == {MaxGen, MaxId, MaxUser, MaxFaults} \subseteq Nat

VARIABLES
  kind,     \* the kind of the controller, fixed
  crs,      \* the stored CRs
  secrets,  \* the Secrets that resolve: authSecretRef's and the parameters'
  live,     \* the resources of the Admin API
  last,     \* the last ID the Admin API gave
  outside,  \* history: keys under which an outsider created a resource
  rekeyed,  \* history: CRs whose key was edited
  changed,  \* history: CRs whose resource others may have changed since their
            \* last status was true
  at, pc,   \* the CR of the running pass and the next call of it
  cr,       \* the pass's copy of the CR
  behind,   \* the CR was written after that copy was
  found,    \* ID of the resource the pass found, 0 if none
  drifted,  \* the pass found out-of-band drift and emitted its Event
  calm,     \* history: nobody else changed a resource since the pass began
  user,     \* steps the user and outsiders have left
  faults    \* faults left

kube    == <<kind, crs, secrets>>
admin   == <<live, last>>
history == <<outside, rekeyed, changed>>
held    == <<at, cr, behind, found, drifted, calm>>
vars    == <<kube, admin, history, held, pc, user, faults>>

-----------------------------------------------------------------------------
(* Types *)

Steps == {"idle", "auth", "autherr", "lookup", "delete", "release", "guard",
          "refetch", "find", "create", "patch", "synced", "failed"}

Outcomes == {"ok", "lost", "failed"}
Secrets == {"auth", "params"}
Readys == {"none", "True", "AuthSecretError", "ReconcileError"}
Synceds == {"none", "Synced", "DriftCorrected", "ReconcileError"}

\* A stored CR; one that is not `here' does not exist.
CRType == [here: BOOLEAN, gen: Nat, obs: Nat, fin: BOOLEAN, del: BOOLEAN,
           spec: Specs, ready: Readys, synced: Synceds]

Fresh(spec) == [here |-> TRUE, gen |-> 1, obs |-> 0, fin |-> FALSE, del |-> FALSE,
                spec |-> spec, ready |-> "none", synced |-> "none"]

Gone == [Fresh(CHOOSE s \in Specs : TRUE) EXCEPT !.here = FALSE, !.gen = 0]

\* A resource; `by' wrote it last: the CR named in its managed_ref, or another.
Resources == [id: 1..MaxId, key: Keys, body: Bodies, on: BOOLEAN, by: CRs \cup {Other}]

Init ==
  /\ kind \in Kinds
  /\ crs = [c \in CRs |-> Gone]
  /\ secrets = Secrets
  /\ live = {}
  /\ last = 0
  /\ outside = {}
  /\ rekeyed = {}
  /\ changed = {}
  /\ at = Other
  /\ pc = "idle"
  /\ cr = Gone
  /\ behind = FALSE
  /\ found = 0
  /\ drifted = FALSE
  /\ calm = FALSE
  /\ user = MaxUser
  /\ faults = MaxFaults

-----------------------------------------------------------------------------
(* Calls: answered ("ok"), taking effect without the caller learning it    *)
(* ("lost"), or failing without effect ("failed").                         *)

Call(o) ==
  /\ o = "ok" \/ faults > 0
  /\ faults' = IF o = "ok" THEN faults ELSE faults - 1

Applied(o) == o \in {"ok", "lost"}

\* A write of the pass's CR: refused as a conflict when the copy is behind.
Write(o, new) ==
  /\ Call(o)
  /\ crs' = IF Applied(o) /\ ~behind THEN [crs EXCEPT ![at] = new] ELSE crs
  /\ UNCHANGED <<kind, secrets, admin, outside, rekeyed, user>>

Goto(step) ==
  /\ pc' = step
  /\ UNCHANGED held

\* The pass returns and what it held is dropped.
EndPass ==
  /\ pc' = "idle"
  /\ at' = Other
  /\ cr' = Gone
  /\ behind' = FALSE
  /\ found' = 0
  /\ drifted' = FALSE
  /\ calm' = FALSE

OrNone(ids) == IF ids = {} THEN {0} ELSE ids

\* Mutant: only the first page of the list, of one resource, is looked at.
FirstPageWithKey(k) == OrNone({r.id : r \in {x \in live : x.key = k /\ \A y \in live : x.id <= y.id}})

\* The ID of the first resource of the list with the key, 0 if there is none.
\* Where several have it any may come first: no order is asked for.
FirstWithKey(k) == OrNone({r.id : r \in {x \in live : x.key = k}})

-----------------------------------------------------------------------------
(* One Reconcile pass *)

GetCR(c) ==
  /\ pc = "idle"
  /\ crs[c].here
  /\ at' = c
  /\ cr' = crs[c]
  /\ pc' = "auth"
  /\ calm' = TRUE
  /\ UNCHANGED <<kube, admin, history, behind, found, drifted, user, faults>>

\* ResolveAuthSecret, then the choice between deletion, finalizer and sync.
ResolveAuth ==
  /\ pc = "auth"
  /\ IF "auth" \notin secrets THEN Goto("autherr")
     ELSE IF cr.del THEN IF cr.fin THEN Goto("lookup") ELSE EndPass
     ELSE IF cr.fin THEN Goto("find") ELSE Goto("guard")
  /\ UNCHANGED <<kube, admin, history, user, faults>>

AuthSecretError(o) ==
  /\ pc = "autherr"
  /\ Write(o, [cr EXCEPT !.ready = "AuthSecretError"])
  /\ EndPass
  /\ UNCHANGED changed

\* The deletion's listing; whether a failed one ends the pass, and what follows
\* when nothing is found.
LookupThen(o, checked, none) ==
  /\ pc = "lookup"
  /\ o # "lost"
  /\ Call(o)
  /\ IF o = "failed" /\ checked THEN EndPass
     ELSE /\ found' \in IF o = "failed" THEN {0} ELSE FirstWithKey(cr.spec.key)
          /\ pc' = IF found' = 0 THEN none ELSE "delete"
          /\ UNCHANGED <<at, cr, behind, drifted, calm>>
  /\ UNCHANGED <<kube, admin, history, user>>

\* Mutant: an error of the listing is taken for an empty list.
LookupUnchecked(o) == LookupThen(o, FALSE, "release")

\* Mutant: the result of the listing is used without a look whether it is nil.
LookupStraight(o) == LookupThen(o, TRUE, "delete")

\* What is not there needs no delete.
Lookup(o) == LookupThen(o, TRUE, "release")

\* Delete by the ID found; a resource that is gone meanwhile is deleted.
DeleteRemote(o) ==
  /\ pc = "delete"
  /\ Call(o)
  /\ live' = IF Applied(o) THEN {r \in live : r.id # found} ELSE live
  /\ changed' = IF Applied(o) THEN changed \cup (CRs \ {at}) ELSE changed
  /\ IF o = "ok" THEN Goto("release") ELSE EndPass
  /\ UNCHANGED <<kube, last, outside, rekeyed, user>>

RemoveFinalizer(o) ==
  /\ pc = "release"
  /\ Write(o, Gone)
  /\ EndPass
  /\ UNCHANGED changed

\* AddFinalizer and r.Update, which returns the written object in cr.
AddFinalizer(o) ==
  /\ pc = "guard"
  /\ LET new == [cr EXCEPT !.fin = TRUE]
     IN  /\ Write(o, new)
         /\ IF o = "ok" /\ ~behind
            THEN /\ cr' = new
                 /\ pc' = "refetch"
                 /\ UNCHANGED <<at, behind, found, drifted, calm>>
            ELSE EndPass
  /\ UNCHANGED changed

Refetch ==
  /\ pc = "refetch"
  /\ IF crs[at].here
     THEN /\ cr' = crs[at]
          /\ behind' = FALSE
          /\ pc' = "find"
          /\ UNCHANGED <<at, found, drifted, calm>>
     ELSE EndPass
  /\ UNCHANGED <<kube, admin, history, user, faults>>

\* Mutant: the comparison leaves out `enabled'.
UpToDateForgetful(r, spec) == kind = "role" \/ r.body = spec.body

\* idpUpToDate, webhookUpToDate, authPolicyUpToDate; a role always is.
UpToDate(r, spec) == kind = "role" \/ (r.body = spec.body /\ r.on = spec.on)

\* buildIDPParams and buildWebhookParams read a second Secret.
Buildable == kind \in {"role", "policy"} \/ "params" \in secrets

\* The sync's listing, the parameters, and what is decided from both; `alarm'
\* says whether a difference is called drift.
FindThen(o, alarm) ==
  /\ pc = "find"
  /\ o # "lost"
  /\ Call(o)
  /\ \E i \in FirstWithKey(cr.spec.key) :
       IF o = "failed" \/ ~Buildable THEN Goto("failed")
       ELSE IF i = 0 THEN Goto("create")
       ELSE IF \E r \in live : r.id = i /\ UpToDate(r, cr.spec) THEN Goto("synced")
       ELSE /\ found' = i
            /\ drifted' = alarm
            /\ pc' = "patch"
            /\ UNCHANGED <<at, cr, behind, calm>>
  /\ UNCHANGED <<kube, admin, history, user>>

\* Mutant: every difference is called drift.
FindSuspicious(o) == FindThen(o, TRUE)

\* A difference is drift when the status has seen the current generation.
Find(o) == FindThen(o, cr.obs = cr.gen)

\* The Admin API takes a new resource.
Accepted(k) == Unique => \A r \in live : r.key # k

Add(k, body, on, by) ==
  /\ last < MaxId
  /\ last' = last + 1
  /\ live' = live \cup {[id |-> last', key |-> k, body |-> body, on |-> on, by |-> by]}

\* Create; the parameters of a policy rule have no `enabled'.
Create(o) ==
  /\ pc = "create"
  /\ Call(o)
  /\ IF Applied(o) /\ Accepted(cr.spec.key)
     THEN Add(cr.spec.key, cr.spec.body, kind = "policy" \/ cr.spec.on, at)
     ELSE UNCHANGED admin
  /\ IF o = "ok" /\ Accepted(cr.spec.key) THEN Goto("synced") ELSE Goto("failed")
  /\ UNCHANGED <<kube, history, user>>

\* Update of the resource found; `good' says whether the pass takes it for done.
UpdateThen(o, good) ==
  /\ pc = "patch"
  /\ Call(o)
  /\ live' = {IF r.id = found /\ Applied(o)
              THEN [r EXCEPT !.key = cr.spec.key, !.body = cr.spec.body, !.on = cr.spec.on, !.by = at]
              ELSE r : r \in live}
  /\ changed' = IF Applied(o) THEN changed \cup (CRs \ {at}) ELSE changed
  /\ Goto(IF good THEN "synced" ELSE "failed")
  /\ UNCHANGED <<kube, last, outside, rekeyed, user>>

\* Mutant: the error of Update is ignored.
UpdateUnchecked(o) == UpdateThen(o, TRUE)

\* A resource that is gone meanwhile is an error.
Update(o) == UpdateThen(o, o = "ok" /\ \E r \in live : r.id = found)

ReportSynced(o) ==
  /\ pc = "synced"
  /\ Write(o, [cr EXCEPT !.obs = cr.gen, !.ready = "True",
                !.synced = IF drifted THEN "DriftCorrected" ELSE "Synced"])
  /\ changed' = IF Applied(o) /\ ~behind /\ calm THEN changed \ {at} ELSE changed
  /\ EndPass

ReportError(o) ==
  /\ pc = "failed"
  /\ Write(o, [cr EXCEPT !.ready = "ReconcileError", !.synced = "ReconcileError"])
  /\ EndPass
  /\ UNCHANGED changed

Continue ==
  \/ ResolveAuth
  \/ Refetch
  \/ \E o \in Outcomes :
       \/ AuthSecretError(o)
       \/ Lookup(o)
       \/ DeleteRemote(o)
       \/ RemoveFinalizer(o)
       \/ AddFinalizer(o)
       \/ Find(o)
       \/ Create(o)
       \/ Update(o)
       \/ ReportSynced(o)
       \/ ReportError(o)

-----------------------------------------------------------------------------
(* Around the pass *)

\* The manager dies and another becomes the leader.
Crash ==
  /\ pc # "idle"
  /\ faults > 0
  /\ faults' = faults - 1
  /\ EndPass
  /\ UNCHANGED <<kube, admin, history, user>>

UserStep ==
  /\ user > 0
  /\ user' = user - 1

\* A write by the user leaves the pass's copy behind.
UserWrites(c, new) ==
  /\ UserStep
  /\ crs' = [crs EXCEPT ![c] = new]
  /\ behind' = (behind \/ at = c)
  /\ UNCHANGED <<kind, secrets, admin, outside, changed, at, pc, cr, found, drifted, calm, faults>>

Apply(c) ==
  /\ ~crs[c].here
  /\ \E spec \in Specs : UserWrites(c, Fresh(spec))
  /\ UNCHANGED rekeyed

Edit(c) ==
  /\ crs[c].here
  /\ crs[c].gen < MaxGen
  /\ \E spec \in Specs \ {crs[c].spec} :
       /\ UserWrites(c, [crs[c] EXCEPT !.spec = spec, !.gen = @ + 1])
       /\ rekeyed' = IF spec.key = crs[c].spec.key THEN rekeyed ELSE rekeyed \cup {c}

\* kubectl delete: without the finalizer the CR goes at once.
Delete(c) ==
  /\ crs[c].here
  /\ ~crs[c].del
  /\ UserWrites(c, IF crs[c].fin THEN [crs[c] EXCEPT !.del = TRUE] ELSE Gone)
  /\ UNCHANGED rekeyed

ToggleSecret(s) ==
  /\ UserStep
  /\ secrets' = IF s \in secrets THEN secrets \ {s} ELSE secrets \cup {s}
  /\ UNCHANGED <<kind, crs, admin, history, held, pc, faults>>

Disturb == changed' = CRs /\ calm' = FALSE

OutsideCreate ==
  /\ UserStep
  /\ \E spec \in Specs :
       /\ Accepted(spec.key)
       /\ Add(spec.key, spec.body, spec.on, Other)
       /\ outside' = outside \cup {spec.key}
  /\ Disturb
  /\ UNCHANGED <<kube, rekeyed, at, cr, behind, found, drifted, pc, faults>>

OutsideEdit ==
  /\ UserStep
  /\ \E r \in live, spec \in Specs :
       /\ spec.key = r.key
       /\ live' = (live \ {r}) \cup {[r EXCEPT !.body = spec.body, !.on = spec.on, !.by = Other]}
  /\ Disturb
  /\ UNCHANGED <<kube, last, outside, rekeyed, at, cr, behind, found, drifted, pc, faults>>

OutsideDelete ==
  /\ UserStep
  /\ \E r \in live : live' = live \ {r}
  /\ Disturb
  /\ UNCHANGED <<kube, last, outside, rekeyed, at, cr, behind, found, drifted, pc, faults>>

Next ==
  \/ Continue \/ Crash
  \/ \E c \in CRs : GetCR(c) \/ Apply(c) \/ Edit(c) \/ Delete(c)
  \/ \E s \in Secrets : ToggleSecret(s)
  \/ OutsideCreate \/ OutsideEdit \/ OutsideDelete

Spec == Init /\ [][Next]_vars

\* A pass goes on to its end, and every CR gets another one: its own status
\* updates and the requeue after each pass see to it, and the work queue is
\* first in, first out.  Users and faults may stop.
FairSpec == Spec /\ WF_vars(Continue) /\ \A c \in CRs : SF_vars(GetCR(c))

-----------------------------------------------------------------------------
(* Properties *)

\* The variables stay in their types; a pass that updates or deletes has found
\* a resource to update or delete.
TypeOK ==
  /\ kind \in Kinds
  /\ crs \in [CRs -> CRType]
  /\ secrets \subseteq Secrets
  /\ live \subseteq Resources /\ last \in 0..MaxId
  /\ \A r, s \in live : r.id = s.id => r = s
  /\ \A r \in live : r.id <= last
  /\ outside \subseteq Keys /\ rekeyed \subseteq CRs /\ changed \subseteq CRs /\ calm \in BOOLEAN
  /\ pc \in Steps
  /\ at \in CRs \cup {Other} /\ (at = Other) = (pc = "idle")
  /\ cr \in CRType /\ behind \in BOOLEAN /\ drifted \in BOOLEAN
  /\ found \in 0..last /\ (pc \in {"patch", "delete"} => found # 0)
  /\ user \in Nat /\ faults \in Nat

Stamped(c) == {r \in live : r.by = c}

\* An outsider may have put a second resource under the key.
Doubled(k) == ~Unique /\ k \in outside

\* What the operator wrote for a CR does not outlive it: its CR is stored and
\* holds the finalizer, through crashes, lost replies and conflicts of every
\* pass.  Not so when its key was edited, or where an outsider created another
\* resource of the key: the finalizer then takes the one listed first.
NoOrphan ==
  \A c \in CRs : \A r \in Stamped(c) :
    (crs[c].here /\ crs[c].fin) \/ c \in rekeyed \/ Doubled(r.key)

\* A reply lost, a crash or a second CR of the key never make the operator
\* create a second resource where it finds the first.
NoDouble ==
  \A r, s \in live : r.key = s.key => r = s \/ Doubled(r.key)

\* Create leaves `enabled' out for a policy rule; the next pass sets it.
Whole(spec) == kind = "policy" => spec.on

\* A resource of the CR's key is what the CR asks for; a role need only exist.
Matched(spec) ==
  \E r \in live :
    /\ r.key = spec.key
    /\ kind # "role" => r.body = spec.body /\ r.on = spec.on

\* A status that says Ready for the current generation is true, unless somebody
\* else changed a resource since the pass that wrote it began.
SyncedTruth ==
  \A c \in CRs :
    LET s == crs[c] IN
      s.here /\ ~s.del /\ s.ready = "True" /\ s.obs = s.gen /\ Whole(s.spec) /\ c \notin changed
      => Matched(s.spec)

\* A DriftDetected Event blames an outsider for what an outsider did: the
\* resource was last written by somebody else than this CR, or he created a
\* second one of its key and took it away again.
DriftHonest ==
  drifted /\ pc = "patch" /\ Whole(cr.spec)
  => \A r \in live : r.id = found => r.by # at \/ at \in rekeyed \/ Doubled(r.key)

\* Nobody else uses the CR's key, and the Secrets resolve.
Left(c) ==
  /\ secrets = Secrets
  /\ \A d \in CRs \ {c} : crs[d].here => crs[d].spec.key # crs[c].spec.key

Settled(c) ==
  IF crs[c].here
  THEN ~crs[c].del /\ crs[c].ready = "True" /\ crs[c].obs = crs[c].gen /\ Matched(crs[c].spec)
  ELSE c \in rekeyed \/ \A r \in Stamped(c) : Doubled(r.key)

\* Left alone, every CR reaches what its spec says, or is gone with what it had.
Converges == \A c \in CRs : <>[]Left(c) => <>[]Settled(c)
=============================================================================
