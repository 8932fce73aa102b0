---------------------------- MODULE ClavexClient ----------------------------
(***************************************************************************)
(* The ClavexClient controller on one custom resource (CR):                *)
(* internal/controller/clavexclient_controller.go, one Reconcile pass cut  *)
(* at every call that leaves the process, so that the user, an outsider at *)
(* the Admin API, the informer and a crash may act between any two of      *)
(* them.  controller-runtime runs at most one pass per CR at a time, hence *)
(* the single worker; a pass may start at any time (a watch event, the     *)
(* event stream, a retry or the 15-minute requeue).                        *)
(*                                                                         *)
(* The API server is the sequence `versions': its last element is the      *)
(* stored CR, its head the one the informer cache shows to r.Get, what is  *)
(* between is still to be delivered.  A held copy is `behind' when the CR  *)
(* was written after the copy's resourceVersion: an update with it is      *)
(* refused as a conflict.                                                  *)
(***************************************************************************)
EXTENDS Naturals, Sequences

CONSTANTS
  Values,      \* contents of the fields clientUpToDate compares, as a whole
  Responses,   \* contents of responseTypes, sent but not compared
  Specs,       \* the specs the user may apply
  Webhooks,    \* whether the admission webhook runs (ENABLE_WEBHOOKS)
  MaxInc,      \* bound: times the CR is created
  MaxGen,      \* bound: generation an edit of the spec may reach
  MaxLag,      \* bound: versions of the CR the cache may hold back, plus one
  MaxUser,     \* bound: steps of the user and of outsiders
  MaxFaults    \* bound: crashes, failed calls and lost replies

SpecType == [want: Values, resp: Responses, ref: BOOLEAN]

ASSUME SpecsAssumption == Specs # {} /\ Specs \subseteq SpecType
ASSUME WebhooksAssumption == Webhooks \in BOOLEAN
ASSUME BoundsAssumption == {MaxInc, MaxGen, MaxLag, MaxUser, MaxFaults} \subseteq Nat

VARIABLES
  versions,  \* versions of the CR, from the cached one to the stored one
  authOk,    \* spec.authSecretRef resolves (apiKey and orgId are there)
  kept,      \* client secret in the Secret of clientSecretRef, 0 if none
  live,      \* the client with the CR's clientId in the Admin API
  issued,    \* last client secret the Admin API generated
  touched,   \* history: an outsider wrote the client after the operator did
  pc,        \* next call of the running pass, "idle" between passes
  cr,        \* the pass's copy of the CR
  behind,    \* the CR was written after that copy was
  secret,    \* secret returned by Create, not yet written; 0 if none
  drifted,   \* the pass found out-of-band drift and emitted its Event
  user,      \* steps the user and outsiders have left
  faults     \* faults left

kube   == <<versions, authOk, kept>>
admin  == <<live, issued, touched>>
worker == <<pc, cr, behind, secret, drifted>>
vars   == <<kube, admin, worker, user, faults>>

-----------------------------------------------------------------------------
(* Types *)

Steps == {"idle", "auth", "autherr", "delete", "release", "guard", "refetch",
          "fetch", "create", "patch", "secret", "synced", "failed"}

Outcomes == {"ok", "lost", "failed"}

Readys == {"none", "True", "AuthSecretError", "ReconcileError"}
Synceds == {"none", "Synced", "DriftCorrected", "ReconcileError"}

\* A version of the CR.  One that is not `here' is the deletion.
CRs == [here: BOOLEAN, inc: Nat, gen: Nat, obs: Nat, fin: BOOLEAN, del: BOOLEAN,
        spec: Specs, ready: Readys, synced: Synceds]

AnySpec == CHOOSE s \in Specs : TRUE

Gone(i) == [here |-> FALSE, inc |-> i, gen |-> 0, obs |-> 0, fin |-> FALSE,
            del |-> FALSE, spec |-> AnySpec, ready |-> "none", synced |-> "none"]

\* A client of the Admin API.  `sec': its secret.  `by': whose it is; the
\* operator's managed_by marker is on what it creates and on what it patches.
\* `asked': the operator created it for a CR that named a Secret for `sec'.
Clients == [here: {TRUE}, want: Values, resp: Responses, sec: Nat,
            by: {"operator", "other"}, asked: BOOLEAN]
NoClient == [here |-> FALSE]

Stored == versions[Len(versions)]
Cached == Head(versions)

Init ==
  /\ versions = <<Gone(0)>>
  /\ authOk = FALSE
  /\ kept = 0
  /\ live = NoClient
  /\ issued = 0
  /\ touched = FALSE
  /\ pc = "idle"
  /\ cr = Gone(0)
  /\ behind = FALSE
  /\ secret = 0
  /\ drifted = FALSE
  /\ user = MaxUser
  /\ faults = MaxFaults

-----------------------------------------------------------------------------
(* Calls.  A call is answered ("ok"), takes effect without the caller      *)
(* learning it ("lost"), or fails without effect ("failed").               *)

Call(o) ==
  /\ o = "ok" \/ faults > 0
  /\ faults' = IF o = "ok" THEN faults ELSE faults - 1

Applied(o) == o \in {"ok", "lost"}

\* The webhook refuses a create or update of the CR whose authSecretRef does
\* not resolve.  It is not registered for the status subresource.
Admitted == Webhooks => authOk

\* The API server stores a new version, which reaches the cache later.
Store(new) ==
  /\ Len(versions) < MaxLag
  /\ versions' = Append(versions, new)

\* r.Status().Update: refused as a conflict when the copy is behind.
UpdateStatus(o, new) ==
  /\ Call(o)
  /\ IF Applied(o) /\ ~behind THEN Store(new) ELSE UNCHANGED versions
  /\ UNCHANGED <<authOk, kept, admin, user>>

\* The pass returns, with or without an error: controller-runtime starts
\* another one.  What the pass held is dropped.
EndPass ==
  /\ pc' = "idle"
  /\ cr' = Gone(0)
  /\ behind' = FALSE
  /\ secret' = 0
  /\ drifted' = FALSE

Goto(step) ==
  /\ pc' = step
  /\ UNCHANGED <<cr, behind, secret, drifted>>

ReadCached(step) ==
  /\ cr' = Cached
  /\ behind' = (Len(versions) > 1)
  /\ pc' = step
  /\ UNCHANGED <<secret, drifted>>

-----------------------------------------------------------------------------
(* One Reconcile pass *)

\* r.Get at the start; a pass for a CR the cache does not hold does nothing.
GetCR ==
  /\ pc = "idle"
  /\ Cached.here
  /\ ReadCached("auth")
  /\ UNCHANGED <<kube, admin, user, faults>>

\* Mutant: the CR is synced without a finalizer.
ResolveAuthUnguarded ==
  /\ pc = "auth"
  /\ IF ~authOk THEN Goto("autherr")
     ELSE IF cr.del THEN IF cr.fin THEN Goto("delete") ELSE EndPass
     ELSE Goto("fetch")
  /\ UNCHANGED <<kube, admin, user, faults>>

\* Mutant: the finalizer alone is taken for a deletion.
ResolveAuthUntimed ==
  /\ pc = "auth"
  /\ IF ~authOk THEN Goto("autherr") ELSE IF cr.fin THEN Goto("delete") ELSE Goto("guard")
  /\ UNCHANGED <<kube, admin, user, faults>>

\* ResolveAuthSecret, then the choice between deletion, finalizer and sync.
ResolveAuth ==
  /\ pc = "auth"
  /\ IF ~authOk THEN Goto("autherr")
     ELSE IF cr.del THEN IF cr.fin THEN Goto("delete") ELSE EndPass
     ELSE IF cr.fin THEN Goto("fetch") ELSE Goto("guard")
  /\ UNCHANGED <<kube, admin, user, faults>>

\* Ready=False, reason AuthSecretError; Synced and the generation stay as they
\* were.  A status that is already so is not written again.
AuthSecretError(o) ==
  /\ pc = "autherr"
  /\ LET new == [cr EXCEPT !.ready = "AuthSecretError"]
     IN  IF new = cr
         THEN UNCHANGED <<kube, admin, user, faults>>
         ELSE UpdateStatus(o, new)
  /\ EndPass

\* Mutant: the error of Clients.Delete is ignored.
DeleteRemoteUnchecked(o) ==
  /\ pc = "delete"
  /\ Call(o)
  /\ IF Applied(o)
     THEN live' = NoClient /\ touched' = FALSE
     ELSE UNCHANGED <<live, touched>>
  /\ Goto("release")
  /\ UNCHANGED <<kube, issued, user>>

\* Mutant: a client that is already gone is an error.
DeleteRemoteStrict(o) ==
  /\ pc = "delete"
  /\ Call(o)
  /\ IF Applied(o)
     THEN live' = NoClient /\ touched' = FALSE
     ELSE UNCHANGED <<live, touched>>
  /\ IF o = "ok" /\ live.here THEN Goto("release") ELSE EndPass
  /\ UNCHANGED <<kube, issued, user>>

\* cvx.Clients.Delete: a client that is not there is deleted already.
DeleteRemote(o) ==
  /\ pc = "delete"
  /\ Call(o)
  /\ IF Applied(o)
     THEN live' = NoClient /\ touched' = FALSE
     ELSE UNCHANGED <<live, touched>>
  /\ IF o = "ok" THEN Goto("release") ELSE EndPass
  /\ UNCHANGED <<kube, issued, user>>

\* RemoveFinalizer and r.Update: ours is the only finalizer, so the CR goes.
RemoveFinalizer(o) ==
  /\ pc = "release"
  /\ Call(o)
  /\ IF Applied(o) /\ ~behind /\ Admitted
     THEN Store(Gone(cr.inc))
     ELSE UNCHANGED versions
  /\ EndPass
  /\ UNCHANGED <<authOk, kept, admin, user>>

\* AddFinalizer and r.Update, which returns the written object in cr.
AddFinalizer(o) ==
  /\ pc = "guard"
  /\ Call(o)
  /\ LET new == [cr EXCEPT !.fin = TRUE]
         accepted == ~behind /\ Admitted
     IN  /\ IF Applied(o) /\ accepted THEN Store(new) ELSE UNCHANGED versions
         /\ IF o = "ok" /\ accepted
            THEN /\ pc' = "refetch"
                 /\ cr' = new
                 /\ UNCHANGED <<behind, secret, drifted>>
            ELSE EndPass
  /\ UNCHANGED <<authOk, kept, admin, user>>

\* The second r.Get is served by the cache like the first.
Refetch ==
  /\ pc = "refetch"
  /\ IF Cached.here THEN ReadCached("fetch") ELSE EndPass
  /\ UNCHANGED <<kube, admin, user, faults>>

\* Mutant: two equal clients are told apart (nil against empty, say).
ClientNeverUpToDate(c, spec) == FALSE

\* clientUpToDate: responseTypes is not among the fields it looks at.
ClientUpToDate(c, spec) == c.want = spec.want

\* Mutant: every difference is called drift.
FetchClientSuspicious(o) ==
  /\ pc = "fetch"
  /\ o # "lost"
  /\ Call(o)
  /\ IF o = "failed" THEN Goto("failed")
     ELSE IF ~live.here THEN Goto("create")
     ELSE IF ClientUpToDate(live, cr.spec) THEN Goto("synced")
     ELSE /\ drifted' = TRUE
          /\ pc' = "patch"
          /\ UNCHANGED <<cr, behind, secret>>
  /\ UNCHANGED <<kube, admin, user>>

\* cvx.Clients.Get and what reconcileClient decides from its answer.
FetchClient(o) ==
  /\ pc = "fetch"
  /\ o # "lost"
  /\ Call(o)
  /\ IF o = "failed" THEN Goto("failed")
     ELSE IF ~live.here THEN Goto("create")
     ELSE IF ClientUpToDate(live, cr.spec) THEN Goto("synced")
     ELSE /\ drifted' = (cr.obs = cr.gen)
          /\ pc' = "patch"
          /\ UNCHANGED <<cr, behind, secret>>
  /\ UNCHANGED <<kube, admin, user>>

\* Mutant: the secret Create returns is dropped.
CreateClientForgetful(o) ==
  /\ pc = "create"
  /\ Call(o)
  /\ IF Applied(o) /\ ~live.here
     THEN /\ issued' = issued + 1
          /\ live' = [here |-> TRUE, want |-> cr.spec.want, resp |-> cr.spec.resp,
                      sec |-> issued', by |-> "operator", asked |-> cr.spec.ref]
          /\ touched' = FALSE
     ELSE UNCHANGED admin
  /\ IF o = "ok" /\ ~live.here THEN Goto("synced") ELSE Goto("failed")
  /\ UNCHANGED <<kube, user>>

\* cvx.Clients.Create: the Admin API refuses a clientId in use, and answers
\* with the secret it generated, which it will not show again.
CreateClient(o) ==
  /\ pc = "create"
  /\ Call(o)
  /\ IF Applied(o) /\ ~live.here
     THEN /\ issued' = issued + 1
          /\ live' = [here |-> TRUE, want |-> cr.spec.want, resp |-> cr.spec.resp,
                      sec |-> issued', by |-> "operator", asked |-> cr.spec.ref]
          /\ touched' = FALSE
     ELSE UNCHANGED admin
  /\ IF o = "ok" /\ ~live.here
     THEN /\ secret' = issued'
          /\ pc' = IF cr.spec.ref THEN "secret" ELSE "synced"
          /\ UNCHANGED <<cr, behind, drifted>>
     ELSE Goto("failed")
  /\ UNCHANGED <<kube, user>>

\* Mutant: the error of Clients.Update is ignored.
UpdateClientUnchecked(o) ==
  /\ pc = "patch"
  /\ Call(o)
  /\ IF Applied(o) /\ live.here
     THEN /\ live' = [live EXCEPT !.want = cr.spec.want, !.resp = cr.spec.resp, !.by = "operator"]
          /\ touched' = FALSE
     ELSE UNCHANGED <<live, touched>>
  /\ Goto("synced")
  /\ UNCHANGED <<kube, issued, user>>

\* cvx.Clients.Update sends every field of spec it knows, responseTypes too.
UpdateClient(o) ==
  /\ pc = "patch"
  /\ Call(o)
  /\ IF Applied(o) /\ live.here
     THEN /\ live' = [live EXCEPT !.want = cr.spec.want, !.resp = cr.spec.resp, !.by = "operator"]
          /\ touched' = FALSE
     ELSE UNCHANGED <<live, touched>>
  /\ IF o = "ok" /\ live.here THEN Goto("synced") ELSE Goto("failed")
  /\ UNCHANGED <<kube, issued, user>>

\* writeClientSecret; an error returns before any status is written.
WriteClientSecret(o) ==
  /\ pc = "secret"
  /\ Call(o)
  /\ kept' = IF Applied(o) THEN secret ELSE kept
  /\ IF o = "ok" THEN Goto("synced") ELSE EndPass
  /\ UNCHANGED <<versions, authOk, admin, user>>

\* The status of a pass that succeeded; lastSyncedAt makes it a new version.
ReportSynced(o) ==
  /\ pc = "synced"
  /\ UpdateStatus(o, [cr EXCEPT !.obs = cr.gen, !.ready = "True",
                       !.synced = IF drifted THEN "DriftCorrected" ELSE "Synced"])
  /\ EndPass

\* Mutant: the reason of one condition is written into the other.
ReportErrorMixedUp(o) ==
  /\ pc = "failed"
  /\ UpdateStatus(o, [cr EXCEPT !.ready = "ReconcileError", !.synced = "AuthSecretError"])
  /\ EndPass

\* The status of a pass whose reconcileClient failed.
ReportError(o) ==
  /\ pc = "failed"
  /\ LET new == [cr EXCEPT !.ready = "ReconcileError", !.synced = "ReconcileError"]
     IN  IF new = cr
         THEN UNCHANGED <<kube, admin, user, faults>>
         ELSE UpdateStatus(o, new)
  /\ EndPass

Reconcile ==
  \/ GetCR
  \/ ResolveAuth
  \/ Refetch
  \/ \E o \in Outcomes :
       \/ AuthSecretError(o)
       \/ DeleteRemote(o)
       \/ RemoveFinalizer(o)
       \/ AddFinalizer(o)
       \/ FetchClient(o)
       \/ CreateClient(o)
       \/ UpdateClient(o)
       \/ WriteClientSecret(o)
       \/ ReportSynced(o)
       \/ ReportError(o)

-----------------------------------------------------------------------------
(* Around the pass *)

\* The informer delivers the next version to the cache.
CacheSync ==
  /\ Len(versions) > 1
  /\ versions' = Tail(versions)
  /\ UNCHANGED <<authOk, kept, admin, worker, user, faults>>

\* The manager dies and another one starts, with a fresh list of the CRs.
Crash ==
  /\ faults > 0
  /\ faults' = faults - 1
  /\ versions' = <<Stored>>
  /\ EndPass
  /\ UNCHANGED <<authOk, kept, admin, user>>

\* A write of the CR by the user leaves the pass's copy behind.
UserWrites(new) ==
  /\ Store(new)
  /\ behind' = (pc # "idle")
  /\ UNCHANGED <<authOk, kept, admin, pc, cr, secret, drifted, faults>>

Apply(s) ==
  /\ Admitted
  /\ ~Stored.here
  /\ Stored.inc < MaxInc
  /\ UserWrites([Gone(Stored.inc + 1) EXCEPT !.here = TRUE, !.gen = 1, !.spec = s])

Edit(s) ==
  /\ Admitted
  /\ Stored.here
  /\ Stored.gen < MaxGen
  /\ s # Stored.spec
  /\ UserWrites([Stored EXCEPT !.spec = s, !.gen = @ + 1])

\* With a finalizer the CR is only marked; the mark bumps the generation.
Delete ==
  /\ Stored.here
  /\ ~Stored.del
  /\ UserWrites(IF Stored.fin THEN [Stored EXCEPT !.del = TRUE, !.gen = @ + 1]
                              ELSE Gone(Stored.inc))

ToggleAuthSecret ==
  /\ authOk' = ~authOk
  /\ UNCHANGED <<versions, kept, admin, worker, faults>>

\* Outsiders: clavexctl, the Admin UI, a direct call of the Admin API.
OutsideCreate(w, r) ==
  /\ ~live.here
  /\ issued' = issued + 1
  /\ live' = [here |-> TRUE, want |-> w, resp |-> r, sec |-> issued',
              by |-> "other", asked |-> FALSE]
  /\ touched' = TRUE
  /\ UNCHANGED <<kube, worker, faults>>

OutsideEdit(w, r) ==
  /\ live.here
  /\ live' = [live EXCEPT !.want = w, !.resp = r]
  /\ live' # live
  /\ touched' = TRUE
  /\ UNCHANGED <<issued, kube, worker, faults>>

OutsideDelete ==
  /\ live.here
  /\ live' = NoClient
  /\ touched' = TRUE
  /\ UNCHANGED <<issued, kube, worker, faults>>

Others ==
  /\ user > 0
  /\ user' = user - 1
  /\ \/ \E s \in Specs : Apply(s) \/ Edit(s)
     \/ Delete
     \/ ToggleAuthSecret
     \/ \E w \in Values, r \in Responses : OutsideCreate(w, r) \/ OutsideEdit(w, r)
     \/ OutsideDelete

Next == Reconcile \/ CacheSync \/ Crash \/ Others

Spec == Init /\ [][Next]_vars

\* controller-runtime starts a pass for every CR it knows again and again (a
\* requeue follows every outcome) and carries it through; the informer
\* delivers.  Nothing makes the user, an outsider or a fault act.
FairSpec == Spec /\ WF_vars(Reconcile) /\ WF_vars(CacheSync)
-----------------------------------------------------------------------------
(* Properties *)

\* The variables stay in their types: the version queue is never empty, and
\* no budget is overdrawn.
KubeType ==
  /\ versions \in Seq(CRs)
  /\ versions # <<>>
  /\ authOk \in BOOLEAN
  /\ kept \in Nat

AdminType ==
  /\ live \in Clients \cup {NoClient}
  /\ issued \in Nat
  /\ touched \in BOOLEAN

WorkerType ==
  /\ pc \in Steps
  /\ cr \in CRs
  /\ behind \in BOOLEAN
  /\ secret \in Nat
  /\ drifted \in BOOLEAN

BudgetType ==
  /\ user \in Nat
  /\ faults \in Nat

TypeOK == KubeType /\ AdminType /\ WorkerType /\ BudgetType

Ours == live.here /\ live.by = "operator"

\* A client the operator created or adopted is never left behind: as long as
\* it exists, the stored CR exists and holds the finalizer, whatever a stale
\* cache, a conflict, a crash or a lost reply did to the passes.
NoOrphan == Ours => Stored.here /\ Stored.fin

\* observedGeneration = generation is the truth: unless an outsider wrote the
\* client since, it exists and its compared fields are those of the stored
\* spec.  In particular no pass that held an older spec, or that failed half
\* way, can have written the client after the status was reported.
SyncedTruth ==
  Stored.here /\ ~Stored.del /\ Stored.obs = Stored.gen /\ ~touched
    => live.here /\ live.want = Stored.spec.want

\* A DriftDetected Event is never a false accusation: somebody else did write
\* the client.  The operator's own patches whose reply or whose status got
\* lost are not taken for drift.
DriftHonest == [][drifted' /\ ~drifted => touched]_vars

\* The finalizer's Clients.Delete never hits the client of a CR that is not
\* being deleted: a pass with the copy of an earlier incarnation of the CR
\* does not take down the client of the next one.
OwnClientSafe ==
  [][pc = "delete" /\ Ours /\ ~live'.here
       => Stored.here /\ Stored.del]_vars

\* The abstract state of ManagedLifecycle: what the stored CR shows ...
CRState ==
  IF ~Stored.here THEN "absent"
  ELSE IF Stored.del THEN "terminating"
  ELSE IF Stored.fin THEN "guarded" ELSE "plain"

\* ... and whose client there is.
Remote == IF Ours THEN "operator" ELSE IF live.here THEN "other" ELSE "absent"

\* The CR and its client go through the life docs/operator.md, section 5,
\* promises: nothing remote before the finalizer, nothing left after it.
Lifecycle == INSTANCE ManagedLifecycle WITH cr <- CRState, remote <- Remote
ImplementsLifecycle == Lifecycle!Spec

\* The Secret of a CR that reports Ready=True holds the secret of a client the
\* operator created to fill it, except just before it is written.
SecretKept ==
  /\ Stored.here /\ ~Stored.del /\ Stored.ready = "True" /\ Stored.spec.ref
  /\ live.here /\ live.asked
  /\ pc # "secret"
  => kept = live.sec

\* It has as long as no crash, failed call or lost reply has happened, whoever
\* deletes the client or edits the CR, and however stale the pass's copy is.
SecretKeptWithoutFaults == faults = MaxFaults => SecretKept

\* Level-triggered convergence: once the auth Secret stays in place, and the
\* user, the outsiders and the faults have stopped, the client ends up as the
\* stored spec says with the status saying so, or CR and client are both gone.
Settled ==
  \/ /\ Stored.here /\ ~Stored.del
     /\ live.here /\ live.want = Stored.spec.want
     /\ Stored.ready = "True" /\ Stored.obs = Stored.gen
  \/ ~Stored.here /\ ~Ours

Converges == <>[]authOk => <>[]Settled

\* No reconcile -> PATCH loop: the operator stops writing the client.
Quiesces == <>[](pc \notin {"create", "patch", "delete"})

-----------------------------------------------------------------------------
(* Why NoOrphan and OwnClientSafe hold: the invariant that carries them     *)

\* What a version v that the cache or the pass still holds says of the stored
\* CR s: one with the finalizer and no deletion mark is not outlived by it, and
\* one with the mark is not followed by a CR guarded anew.
Agrees(v, s) ==
  /\ v.here /\ v.fin /\ ~v.del => s.here /\ s.fin
  /\ v.here /\ v.del /\ s.fin => s.del

KnownAgree ==
  /\ Agrees(cr, Stored)
  /\ \A i \in 1..Len(versions) : Agrees(versions[i], Stored)

\* A copy that is not behind is the stored CR, and until the pass writes the
\* CR itself the cache holds nothing else.
CopyCurrent ==
  ~behind =>
    /\ pc # "idle" => cr = Stored
    /\ pc \in {"auth", "delete", "release", "guard"} => Len(versions) = 1

\* What the pass knows of its copy and of the world at each of its calls.
PassKnows ==
  /\ pc = "idle" => ~cr.here
  /\ pc # "idle" => cr.here
  /\ pc \in {"delete", "release"} => cr.del
  /\ pc = "guard" => ~cr.fin /\ ~cr.del
  /\ pc = "release" => ~Ours
  /\ pc \in {"refetch", "fetch", "create", "patch", "secret", "synced", "failed"}
       => Stored.here /\ Stored.fin

\* NoOrphan made inductive: what every copy in flight, every undelivered
\* version and every step of the pass may still assume of the stored CR.
IInv == TypeOK /\ NoOrphan /\ KnownAgree /\ CopyCurrent /\ PassKnows

-----------------------------------------------------------------------------
(* What the documentation says and the code does not do; each is the one   *)
(* property of a run that finds it violated.                               *)

\* "the controller generates the client secret on first create and writes it
\* to the Secret named in clientSecretRef" (docs/operator.md:129-132): with
\* faults too, a Ready CR has the secret of the client the operator created.
SecretNeverLost == SecretKept

\* "blocking deletion here would make a CR permanently stuck if its Secret was
\* already removed" (clavexclient_webhook.go:73-76): it is not meant to be
\* stuck, so a deleted CR goes away, with its auth Secret or without.
NeverStuck == [](Stored.del => <>~Stored.del)
=============================================================================
