------------------------ MODULE ClavexClientProofs -------------------------
(***************************************************************************)
(* Theorems about ClavexClient for every set of specs and every bound:     *)
(* type correctness, NoOrphan and OwnClientSafe by the inductive invariant *)
(* IInv, and that the controller implements ManagedLifecycle.              *)
(***************************************************************************)
EXTENDS ClavexClient, TLAPS

-----------------------------------------------------------------------------
(* The version queue *)

\* The fixed spec of a deleted CR is one of the specs.
LEMMA AnySpecType == AnySpec \in Specs
BY SpecsAssumption DEF AnySpec

\* The deletion of a CR is a version of it.
LEMMA GoneType == ASSUME NEW i \in Nat PROVE Gone(i) \in CRs /\ ~Gone(i).here
BY AnySpecType DEF Gone, CRs, Readys, Synceds

\* The queue holds versions of the CR; the stored and the cached one are two.
LEMMA QueueFacts ==
  ASSUME KubeType
  PROVE  /\ Len(versions) \in Nat /\ Len(versions) >= 1
         /\ Stored \in CRs /\ Cached \in CRs
         /\ \A i \in 1..Len(versions) : versions[i] \in CRs
         /\ Cached = versions[1]
BY DEF KubeType, Stored, Cached

\* A write of the CR adds the new version at the end and changes no other.
LEMMA StoreFacts ==
  ASSUME KubeType, NEW new \in CRs, Store(new)
  PROVE  /\ versions' \in Seq(CRs) /\ versions' # <<>>
         /\ Stored' = new
         /\ Len(versions') = Len(versions) + 1
         /\ versions'[Len(versions) + 1] = new
         /\ \A i \in 1..Len(versions) : versions'[i] = versions[i]
BY DEF KubeType, Store, Stored

\* A delivery changes neither the stored CR nor the versions left.
LEMMA DeliverFacts ==
  ASSUME KubeType, Len(versions) > 1, versions' = Tail(versions)
  PROVE  /\ versions' \in Seq(CRs) /\ versions' # <<>>
         /\ Stored' = Stored
         /\ Len(versions') = Len(versions) - 1
         /\ \A i \in 1..Len(versions') : versions'[i] = versions[i + 1]
<1>1. versions \in Seq(CRs)
  BY DEF KubeType
<1>2. versions' \in Seq(CRs) /\ Len(versions') = Len(versions) - 1
  BY <1>1
<1>3. \A i \in 1..Len(versions') : versions'[i] = versions[i + 1]
  BY <1>1, <1>2
<1>4. Stored' = Stored
  BY <1>1, <1>2, <1>3 DEF Stored
<1>5. versions' # <<>>
  BY <1>1, <1>2
<1> QED
  BY <1>2, <1>3, <1>4, <1>5

-----------------------------------------------------------------------------
(* Type correctness *)

\* The initial state has the types TypeOK gives the variables.
LEMMA InitType == Init => TypeOK
<1> SUFFICES ASSUME Init PROVE TypeOK
  OBVIOUS
<1>1. KubeType
  <2>1. Gone(0) \in CRs
    BY GoneType
  <2>2. versions \in Seq(CRs) /\ versions # <<>>
    BY <2>1 DEF Init
  <2> QED
    BY <2>2 DEF Init, KubeType
<1>2. AdminType
  BY DEF Init, AdminType
<1>3. WorkerType
  <2>1. cr \in CRs
    BY GoneType DEF Init
  <2> QED
    BY <2>1 DEF Init, WorkerType, Steps
<1>4. BudgetType
  BY BoundsAssumption DEF Init, BudgetType
<1> QED
  BY <1>1, <1>2, <1>3, <1>4 DEF TypeOK

\* A call leaves a natural number of faults.
LEMMA CallType ==
  ASSUME BudgetType, NEW o, Call(o)
  PROVE  faults' \in Nat
BY DEF BudgetType, Call

\* A pass that returns leaves its variables in their types.
LEMMA EndPassType == ASSUME EndPass PROVE WorkerType'
<1>1. cr' \in CRs
  BY GoneType DEF EndPass
<1> QED
  BY <1>1 DEF EndPass, WorkerType, Steps

\* So does a pass that goes on to its next call,
LEMMA GotoType ==
  ASSUME WorkerType, NEW step \in Steps, Goto(step)
  PROVE  WorkerType'
BY DEF Goto, WorkerType

\* and one that reads the CR from the cache.
LEMMA ReadCachedType ==
  ASSUME KubeType, WorkerType, NEW step \in Steps, ReadCached(step)
  PROVE  WorkerType'
<1>1. cr' \in CRs
  BY QueueFacts DEF ReadCached
<1>2. behind' \in BOOLEAN
  BY DEF ReadCached
<1> QED
  BY <1>1, <1>2 DEF ReadCached, WorkerType

\* A version stored or not, the queue keeps its type.
LEMMA StoreType ==
  ASSUME KubeType, NEW new \in CRs, Store(new) \/ UNCHANGED versions,
         authOk' = authOk, kept' = kept
  PROVE  KubeType'
<1>1. versions' \in Seq(CRs) /\ versions' # <<>>
  <2>1. CASE Store(new)
    BY <2>1, StoreFacts
  <2>2. CASE UNCHANGED versions
    BY <2>2 DEF KubeType
  <2> QED
    BY <2>1, <2>2
<1> QED
  BY <1>1 DEF KubeType

\* A status update touches nothing but the queue and the faults.
LEMMA UpdateStatusType ==
  ASSUME TypeOK, NEW o, NEW new \in CRs, UpdateStatus(o, new)
  PROVE  KubeType' /\ AdminType' /\ BudgetType'
<1> USE DEF TypeOK
<1>1. KubeType'
  BY StoreType DEF UpdateStatus
<1>2. AdminType'
  BY DEF UpdateStatus, AdminType, admin
<1>3. BudgetType'
  BY CallType DEF UpdateStatus, BudgetType
<1> QED
  BY <1>1, <1>2, <1>3

\* Parts of the state a step leaves alone keep their type.
LEMMA UnchangedType ==
  /\ KubeType /\ UNCHANGED kube => KubeType'
  /\ AdminType /\ UNCHANGED admin => AdminType'
  /\ WorkerType /\ UNCHANGED worker => WorkerType'
  /\ BudgetType /\ UNCHANGED <<user, faults>> => BudgetType'
<1>1. KubeType /\ UNCHANGED kube => KubeType'
  BY DEF KubeType, kube
<1>2. AdminType /\ UNCHANGED admin => AdminType'
  BY DEF AdminType, admin
<1>3. WorkerType /\ UNCHANGED worker => WorkerType'
  BY DEF WorkerType, worker
<1>4. BudgetType /\ UNCHANGED <<user, faults>> => BudgetType'
  BY DEF BudgetType
<1> QED
  BY <1>1, <1>2, <1>3, <1>4

\* Every call of a pass keeps the types.
LEMMA ReconcileType == TypeOK /\ Reconcile => TypeOK'
<1> SUFFICES ASSUME TypeOK, Reconcile PROVE TypeOK'
  OBVIOUS
<1> USE DEF TypeOK
<1>1. CASE GetCR
  BY <1>1, ReadCachedType, UnchangedType DEF GetCR, Steps
<1>2. CASE ResolveAuth
  <2>1. WorkerType'
    BY <1>2, GotoType, EndPassType DEF ResolveAuth, Steps
  <2> QED
    BY <1>2, <2>1, UnchangedType DEF ResolveAuth
<1>3. CASE Refetch
  <2>1. WorkerType'
    BY <1>3, ReadCachedType, EndPassType DEF Refetch, Steps
  <2> QED
    BY <1>3, <2>1, UnchangedType DEF Refetch
<1>4. ASSUME NEW o \in Outcomes, AuthSecretError(o) PROVE TypeOK'
  <2> DEFINE new == [cr EXCEPT !.ready = "AuthSecretError"]
  <2>1. new \in CRs
    BY DEF WorkerType, CRs, Readys
  <2>2. WorkerType'
    BY <1>4, EndPassType DEF AuthSecretError
  <2>3. UNCHANGED <<kube, admin, user, faults>> \/ UpdateStatus(o, new)
    BY <1>4 DEF AuthSecretError
  <2> HIDE DEF new
  <2> QED
    BY <2>1, <2>2, <2>3, UnchangedType, UpdateStatusType
<1>5. ASSUME NEW o \in Outcomes, DeleteRemote(o) PROVE TypeOK'
  <2>1. WorkerType'
    BY <1>5, GotoType, EndPassType DEF DeleteRemote, Steps
  <2>2. AdminType'
    BY <1>5 DEF DeleteRemote, AdminType
  <2>3. BudgetType'
    BY <1>5, CallType DEF DeleteRemote, BudgetType
  <2> QED
    BY <1>5, <2>1, <2>2, <2>3, UnchangedType DEF DeleteRemote
<1>6. ASSUME NEW o \in Outcomes, RemoveFinalizer(o) PROVE TypeOK'
  <2>1. Gone(cr.inc) \in CRs
    BY GoneType DEF WorkerType, CRs
  <2>2. KubeType'
    BY <1>6, <2>1, StoreType DEF RemoveFinalizer
  <2>3. WorkerType'
    BY <1>6, EndPassType DEF RemoveFinalizer
  <2>4. BudgetType'
    BY <1>6, CallType DEF RemoveFinalizer, BudgetType
  <2> QED
    BY <1>6, <2>2, <2>3, <2>4, UnchangedType DEF RemoveFinalizer
<1>7. ASSUME NEW o \in Outcomes, AddFinalizer(o) PROVE TypeOK'
  <2> DEFINE new == [cr EXCEPT !.fin = TRUE]
  <2>1. new \in CRs
    BY DEF WorkerType, CRs
  <2>2. KubeType'
    BY <1>7, <2>1, StoreType DEF AddFinalizer
  <2>3. WorkerType'
    <3>1. CASE EndPass
      BY <3>1, EndPassType
    <3>2. CASE /\ pc' = "refetch"
               /\ cr' = new
               /\ UNCHANGED <<behind, secret, drifted>>
      BY <2>1, <3>2 DEF WorkerType, Steps
    <3> QED
      BY <1>7, <3>1, <3>2 DEF AddFinalizer
  <2>4. BudgetType'
    BY <1>7, CallType DEF AddFinalizer, BudgetType
  <2> QED
    BY <1>7, <2>2, <2>3, <2>4, UnchangedType DEF AddFinalizer
<1>8. ASSUME NEW o \in Outcomes, FetchClient(o) PROVE TypeOK'
  <2>1. WorkerType'
    <3>1. CASE \E step \in Steps : Goto(step)
      BY <3>1, GotoType
    <3>2. CASE /\ drifted' = (cr.obs = cr.gen)
               /\ pc' = "patch"
               /\ UNCHANGED <<cr, behind, secret>>
      BY <3>2 DEF WorkerType, Steps
    <3> QED
      BY <1>8, <3>1, <3>2 DEF FetchClient, Steps
  <2>2. BudgetType'
    BY <1>8, CallType DEF FetchClient, BudgetType
  <2> QED
    BY <1>8, <2>1, <2>2, UnchangedType DEF FetchClient
<1>9. ASSUME NEW o \in Outcomes, CreateClient(o) PROVE TypeOK'
  <2>1. cr.spec \in SpecType
    BY SpecsAssumption DEF WorkerType, CRs
  <2>2. AdminType'
    <3>1. CASE UNCHANGED admin
      BY <3>1, UnchangedType
    <3>2. CASE /\ issued' = issued + 1
               /\ live' = [here |-> TRUE, want |-> cr.spec.want, resp |-> cr.spec.resp,
                           sec |-> issued', by |-> "operator", asked |-> cr.spec.ref]
               /\ touched' = FALSE
      <4>1. issued' \in Nat
        BY <3>2 DEF AdminType
      <4>2. cr.spec.want \in Values /\ cr.spec.resp \in Responses /\ cr.spec.ref \in BOOLEAN
        BY <2>1 DEF SpecType
      <4>3. live' \in Clients
        BY <3>2, <4>1, <4>2 DEF Clients
      <4> QED
        BY <3>2, <4>1, <4>3 DEF AdminType
    <3> QED
      BY <1>9, <3>1, <3>2 DEF CreateClient
  <2>3. WorkerType'
    <3>1. CASE Goto("failed")
      BY <3>1, GotoType DEF Steps
    <3>2. CASE /\ secret' = issued'
               /\ pc' = IF cr.spec.ref THEN "secret" ELSE "synced"
               /\ UNCHANGED <<cr, behind, drifted>>
      BY <2>2, <3>2 DEF WorkerType, AdminType, Steps
    <3> QED
      BY <1>9, <3>1, <3>2 DEF CreateClient
  <2>4. BudgetType'
    BY <1>9, CallType DEF CreateClient, BudgetType
  <2> QED
    BY <1>9, <2>2, <2>3, <2>4, UnchangedType DEF CreateClient
<1>10. ASSUME NEW o \in Outcomes, UpdateClient(o) PROVE TypeOK'
  <2>1. cr.spec \in SpecType
    BY SpecsAssumption DEF WorkerType, CRs
  <2>2. AdminType'
    BY <1>10, <2>1 DEF UpdateClient, AdminType, Clients, NoClient, SpecType
  <2>3. WorkerType'
    BY <1>10, GotoType DEF UpdateClient, Steps
  <2>4. BudgetType'
    BY <1>10, CallType DEF UpdateClient, BudgetType
  <2> QED
    BY <1>10, <2>2, <2>3, <2>4, UnchangedType DEF UpdateClient
<1>11. ASSUME NEW o \in Outcomes, WriteClientSecret(o) PROVE TypeOK'
  <2>1. KubeType'
    BY <1>11 DEF WriteClientSecret, KubeType, WorkerType
  <2>2. WorkerType'
    BY <1>11, GotoType, EndPassType DEF WriteClientSecret, Steps
  <2>3. BudgetType'
    BY <1>11, CallType DEF WriteClientSecret, BudgetType
  <2> QED
    BY <1>11, <2>1, <2>2, <2>3, UnchangedType DEF WriteClientSecret
<1>12. ASSUME NEW o \in Outcomes, ReportSynced(o) PROVE TypeOK'
  <2> DEFINE new == [cr EXCEPT !.obs = cr.gen, !.ready = "True",
                       !.synced = IF drifted THEN "DriftCorrected" ELSE "Synced"]
  <2>1. new \in CRs
    BY DEF WorkerType, CRs, Readys, Synceds
  <2>2. WorkerType' /\ UpdateStatus(o, new)
    BY <1>12, EndPassType DEF ReportSynced
  <2> HIDE DEF new
  <2> QED
    BY <2>1, <2>2, UpdateStatusType
<1>13. ASSUME NEW o \in Outcomes, ReportError(o) PROVE TypeOK'
  <2> DEFINE new == [cr EXCEPT !.ready = "ReconcileError", !.synced = "ReconcileError"]
  <2>1. new \in CRs
    BY DEF WorkerType, CRs, Readys, Synceds
  <2>2. WorkerType'
    BY <1>13, EndPassType DEF ReportError
  <2>3. UNCHANGED <<kube, admin, user, faults>> \/ UpdateStatus(o, new)
    BY <1>13 DEF ReportError
  <2> HIDE DEF new
  <2> QED
    BY <2>1, <2>2, <2>3, UnchangedType, UpdateStatusType
<1> QED
  BY <1>1, <1>2, <1>3, <1>4, <1>5, <1>6, <1>7, <1>8, <1>9, <1>10, <1>11, <1>12, <1>13
     DEF Reconcile

\* What the user stores is a version of the CR.
LEMMA UserVersionType ==
  ASSUME NEW v \in CRs, NEW s \in Specs
  PROVE  /\ [v EXCEPT !.here = TRUE, !.gen = 1, !.spec = s] \in CRs
         /\ [v EXCEPT !.spec = s, !.gen = @ + 1] \in CRs
         /\ [v EXCEPT !.del = TRUE, !.gen = @ + 1] \in CRs
<1>1. v.gen + 1 \in Nat
  BY DEF CRs
<1>2. [v EXCEPT !.here = TRUE, !.gen = 1, !.spec = s] \in CRs
  BY DEF CRs
<1>3. [v EXCEPT !.spec = s, !.gen = @ + 1] \in CRs
  BY <1>1 DEF CRs
<1>4. [v EXCEPT !.del = TRUE, !.gen = @ + 1] \in CRs
  BY <1>1 DEF CRs
<1> QED
  BY <1>2, <1>3, <1>4

\* A write of the CR by the user keeps the types.
LEMMA UserWritesType ==
  ASSUME TypeOK, NEW new \in CRs, UserWrites(new), user' \in Nat
  PROVE  TypeOK'
<1> USE DEF TypeOK
<1>1. KubeType'
  BY StoreType DEF UserWrites
<1>2. WorkerType'
  BY DEF UserWrites, WorkerType
<1>3. BudgetType'
  BY DEF UserWrites, BudgetType
<1> QED
  BY <1>1, <1>2, <1>3, UnchangedType DEF UserWrites

\* The user and the outsiders keep the types,
LEMMA OthersType == TypeOK /\ Others => TypeOK'
<1> SUFFICES ASSUME TypeOK, Others PROVE TypeOK'
  OBVIOUS
<1> USE DEF TypeOK
<1>1. user' \in Nat
  BY DEF Others, BudgetType
<1>2. Stored \in CRs
  BY QueueFacts
<1>3. ASSUME NEW s \in Specs, Apply(s) PROVE TypeOK'
  <2>1. Stored.inc + 1 \in Nat
    BY <1>2 DEF CRs
  <2>2. [Gone(Stored.inc + 1) EXCEPT !.here = TRUE, !.gen = 1, !.spec = s] \in CRs
    BY <2>1, GoneType, UserVersionType
  <2> QED
    BY <1>1, <1>3, <2>2, UserWritesType DEF Apply
<1>4. ASSUME NEW s \in Specs, Edit(s) PROVE TypeOK'
  <2>1. [Stored EXCEPT !.spec = s, !.gen = @ + 1] \in CRs
    BY <1>2, UserVersionType
  <2> QED
    BY <1>1, <1>4, <2>1, UserWritesType DEF Edit
<1>5. CASE Delete
  <2>1. [Stored EXCEPT !.del = TRUE, !.gen = @ + 1] \in CRs
    BY <1>2, UserVersionType, SpecsAssumption
  <2>2. Gone(Stored.inc) \in CRs
    BY <1>2, GoneType DEF CRs
  <2> QED
    BY <1>1, <1>5, <2>1, <2>2, UserWritesType DEF Delete
<1>6. CASE ToggleAuthSecret
  <2>1. KubeType'
    BY <1>6 DEF ToggleAuthSecret, KubeType
  <2>2. BudgetType'
    BY <1>1, <1>6 DEF ToggleAuthSecret, BudgetType
  <2> QED
    BY <1>6, <2>1, <2>2, UnchangedType DEF ToggleAuthSecret
<1>7. ASSUME NEW w \in Values, NEW r \in Responses, OutsideCreate(w, r) PROVE TypeOK'
  <2>1. issued' \in Nat
    BY <1>7 DEF OutsideCreate, AdminType
  <2>2. live' \in Clients
    BY <1>7, <2>1 DEF OutsideCreate, Clients
  <2>3. AdminType'
    BY <1>7, <2>1, <2>2 DEF OutsideCreate, AdminType
  <2>4. BudgetType'
    BY <1>1, <1>7 DEF OutsideCreate, BudgetType
  <2> QED
    BY <1>7, <2>3, <2>4, UnchangedType DEF OutsideCreate
<1>8. ASSUME NEW w \in Values, NEW r \in Responses, OutsideEdit(w, r) PROVE TypeOK'
  <2>1. live' \in Clients
    BY <1>8 DEF OutsideEdit, AdminType, Clients, NoClient
  <2>2. AdminType'
    BY <1>8, <2>1 DEF OutsideEdit, AdminType
  <2>3. BudgetType'
    BY <1>1, <1>8 DEF OutsideEdit, BudgetType
  <2> QED
    BY <1>8, <2>2, <2>3, UnchangedType DEF OutsideEdit
<1>9. CASE OutsideDelete
  <2>1. AdminType'
    BY <1>9 DEF OutsideDelete, AdminType
  <2>2. BudgetType'
    BY <1>1, <1>9 DEF OutsideDelete, BudgetType
  <2> QED
    BY <1>9, <2>1, <2>2, UnchangedType DEF OutsideDelete
<1> QED
  BY <1>3, <1>4, <1>5, <1>6, <1>7, <1>8, <1>9 DEF Others

\* as the informer does,
LEMMA CacheSyncType == TypeOK /\ CacheSync => TypeOK'
<1> SUFFICES ASSUME TypeOK, CacheSync PROVE TypeOK'
  OBVIOUS
<1> USE DEF TypeOK
<1>1. KubeType'
  BY DeliverFacts DEF CacheSync, KubeType
<1> QED
  BY <1>1, UnchangedType DEF CacheSync

\* and a crash.
LEMMA CrashType == TypeOK /\ Crash => TypeOK'
<1> SUFFICES ASSUME TypeOK, Crash PROVE TypeOK'
  OBVIOUS
<1> USE DEF TypeOK
<1>1. versions' \in Seq(CRs) /\ versions' # <<>>
  <2>1. Stored \in CRs
    BY QueueFacts
  <2> QED
    BY <2>1 DEF Crash
<1>2. KubeType'
  BY <1>1 DEF Crash, KubeType
<1>3. WorkerType'
  BY EndPassType DEF Crash
<1>4. BudgetType'
  BY DEF Crash, BudgetType
<1> QED
  BY <1>2, <1>3, <1>4, UnchangedType DEF Crash

\* Type correctness: every state of every behaviour has the types TypeOK gives
\* the variables, whatever the specs and the bounds.
THEOREM TypeCorrect == Spec => []TypeOK
<1>1. TypeOK /\ [Next]_vars => TypeOK'
  <2> SUFFICES ASSUME TypeOK, [Next]_vars PROVE TypeOK'
    OBVIOUS
  <2>1. CASE Next
    BY <2>1, ReconcileType, CacheSyncType, CrashType, OthersType DEF Next
  <2>2. CASE UNCHANGED vars
    BY <2>2, UnchangedType DEF vars, TypeOK
  <2> QED
    BY <2>1, <2>2
<1> QED
  BY <1>1, InitType, PTL DEF Spec

-----------------------------------------------------------------------------
(* NoOrphan *)

\* The part of IInv that is not typing.
Inv == NoOrphan /\ KnownAgree /\ CopyCurrent /\ PassKnows

\* It holds at first: nothing is there.
LEMMA InitInv == Init => Inv
<1> SUFFICES ASSUME Init PROVE Inv
  OBVIOUS
<1>1. Gone(0) \in CRs /\ ~Gone(0).here
  BY GoneType
<1>2. Stored = Gone(0) /\ Len(versions) = 1 /\ versions[1] = Gone(0)
  BY DEF Init, Stored
<1>3. NoOrphan
  BY DEF Init, NoOrphan, Ours, NoClient
<1>4. KnownAgree
  BY <1>1, <1>2 DEF Init, KnownAgree, Agrees
<1>5. CopyCurrent
  BY <1>2 DEF Init, CopyCurrent
<1>6. PassKnows
  BY <1>1 DEF Init, PassKnows
<1> QED
  BY <1>3, <1>4, <1>5, <1>6 DEF Inv

\* A new stored CR that every pending version agrees with, and that agrees
\* with itself, is agreed with by every version then pending.
LEMMA AgreeAfterStore ==
  ASSUME KubeType, NEW new \in CRs, Store(new), Agrees(new, new),
         \A i \in 1..Len(versions) : Agrees(versions[i], new)
  PROVE  Stored' = new /\ \A i \in 1..Len(versions') : Agrees(versions'[i], Stored')
BY StoreFacts, QueueFacts

\* A returning pass drops its copy, so that only the queue has to agree.
LEMMA EndPassInv ==
  ASSUME EndPass, \A i \in 1..Len(versions') : Agrees(versions'[i], Stored')
  PROVE  KnownAgree' /\ CopyCurrent' /\ PassKnows'
<1>1. ~Gone(0).here
  BY GoneType
<1>2. Agrees(cr', Stored')
  BY <1>1 DEF EndPass, Agrees
<1> QED
  BY <1>1, <1>2 DEF EndPass, KnownAgree, CopyCurrent, PassKnows

\* A status update stores the held copy with another status, or nothing.
LEMMA StatusInv ==
  ASSUME TypeOK, Inv, pc # "idle", EndPass, UNCHANGED live, NEW new \in CRs,
         \/ ~behind /\ Store(new)
         \/ UNCHANGED versions,
         new.here = cr.here, new.fin = cr.fin, new.del = cr.del
  PROVE  Inv'
<1> USE DEF TypeOK
<1>1. CASE UNCHANGED versions
  <2>1. Stored' = Stored
    BY <1>1 DEF Stored
  <2>2. KnownAgree' /\ CopyCurrent' /\ PassKnows'
    BY <1>1, <2>1, EndPassInv DEF Inv, KnownAgree
  <2> QED
    BY <2>1, <2>2 DEF Inv, NoOrphan, Ours
<1>2. CASE ~behind /\ Store(new)
  <2>1. cr = Stored
    BY <1>2 DEF Inv, CopyCurrent
  <2>2. \A i \in 1..Len(versions) : Agrees(versions[i], new)
    BY <2>1 DEF Inv, KnownAgree, Agrees
  <2>3. Agrees(new, new)
    BY DEF Agrees
  <2>4. Stored' = new /\ KnownAgree' /\ CopyCurrent' /\ PassKnows'
    BY <1>2, <2>2, <2>3, AgreeAfterStore, EndPassInv
  <2> QED
    BY <2>1, <2>4 DEF Inv, NoOrphan, Ours
<1> QED
  BY <1>1, <1>2

\* A step that leaves the queue and the pass alone, and makes no client ours.
LEMMA FrameInv ==
  ASSUME Inv, UNCHANGED <<versions, worker>>, Ours' => Ours
  PROVE  Inv'
<1>1. Stored' = Stored
  BY DEF Stored
<1> QED
  BY <1>1 DEF Inv, NoOrphan, KnownAgree, CopyCurrent, PassKnows, Ours, worker

\* A step that leaves the queue and the client alone and moves the pass on:
\* what is left to show is what the pass knows at its new place.
LEMMA MoveInv ==
  ASSUME Inv, UNCHANGED <<versions, live>>, UNCHANGED <<cr, behind>>,
         pc # "idle",
         pc' \in {"auth", "delete", "release", "guard"}
           => pc \in {"auth", "delete", "release", "guard"},
         PassKnows'
  PROVE  Inv'
<1>1. Stored' = Stored
  BY DEF Stored
<1>2. NoOrphan' /\ KnownAgree'
  BY <1>1 DEF Inv, NoOrphan, KnownAgree, Ours
<1>3. CopyCurrent'
  BY <1>1 DEF Inv, CopyCurrent
<1> QED
  BY <1>2, <1>3 DEF Inv

\* Reading the CR from the cache; the pass may hold a version that is not
\* stored any more, but one the stored CR agrees with.
LEMMA ReadCachedInv ==
  ASSUME TypeOK, Inv, NEW step \in {"auth", "fetch"}, ReadCached(step),
         Cached.here, UNCHANGED <<versions, live>>,
         step = "fetch" => Stored.here /\ Stored.fin
  PROVE  Inv'
<1>1. Stored' = Stored
  BY DEF Stored
<1>2. /\ Len(versions) \in Nat /\ Len(versions) >= 1
      /\ Cached = versions[1]
  BY QueueFacts DEF TypeOK
<1>3. Agrees(Cached, Stored)
  BY <1>2 DEF Inv, KnownAgree
<1>4. NoOrphan' /\ KnownAgree'
  BY <1>1, <1>3 DEF Inv, NoOrphan, KnownAgree, Ours, ReadCached
<1>5. CopyCurrent'
  <2>1. ASSUME ~behind' PROVE Len(versions) = 1 /\ Cached = Stored
    <3> DEFINE len == Len(versions)
    <3>1. len \in Nat /\ len >= 1 /\ ~(len > 1)
      BY <1>2, <2>1 DEF ReadCached
    <3> HIDE DEF len
    <3>2. len = 1
      BY <3>1
    <3> USE DEF len
    <3> QED
      BY <1>2, <3>2 DEF Stored
  <2> QED
    BY <1>1, <2>1 DEF CopyCurrent, ReadCached
<1>6. PassKnows'
  BY <1>1 DEF PassKnows, ReadCached
<1> QED
  BY <1>4, <1>5, <1>6 DEF Inv

\* A pass that returns without having written the CR, or the client.
LEMMA ReturnInv ==
  ASSUME Inv, EndPass, UNCHANGED versions, Ours' => Ours
  PROVE  Inv'
<1>1. Stored' = Stored
  BY DEF Stored
<1>2. KnownAgree' /\ CopyCurrent' /\ PassKnows'
  BY <1>1, EndPassInv DEF Inv, KnownAgree
<1> QED
  BY <1>1, <1>2 DEF Inv, NoOrphan

\* Every call of a pass preserves it.
LEMMA ReconcileInv == TypeOK /\ Inv /\ Reconcile => Inv'
<1> SUFFICES ASSUME TypeOK, Inv, Reconcile PROVE Inv'
  OBVIOUS
<1>1. CASE GetCR
  BY <1>1, ReadCachedInv DEF GetCR, kube, admin
<1>2. CASE ResolveAuth
  <2>1. CASE EndPass
    BY <1>2, <2>1, ReturnInv DEF ResolveAuth, kube, admin, Ours
  <2>2. CASE \E step \in {"autherr", "delete", "fetch", "guard"} :
               /\ Goto(step)
               /\ step = "delete" => cr.del
               /\ step = "fetch" => ~cr.del /\ cr.fin
               /\ step = "guard" => ~cr.del /\ ~cr.fin
    <3>1. Stored' = Stored /\ UNCHANGED <<versions, live, cr, behind>>
      BY <1>2, <2>2 DEF ResolveAuth, kube, admin, Stored, Goto
    <3>2. cr.here
      BY <1>2 DEF ResolveAuth, Inv, PassKnows
    <3>3. cr.fin /\ ~cr.del => Stored.here /\ Stored.fin
      BY <3>2 DEF Inv, KnownAgree, Agrees
    <3>4. PassKnows'
      BY <2>2, <3>1, <3>2, <3>3 DEF Goto, PassKnows
    <3> QED
      BY <1>2, <3>1, <3>4, MoveInv DEF ResolveAuth
  <2> QED
    BY <1>2, <2>1, <2>2 DEF ResolveAuth
<1>3. CASE Refetch
  <2>1. UNCHANGED <<versions, live>> /\ Stored.here /\ Stored.fin
    BY <1>3 DEF Refetch, kube, admin, Inv, PassKnows
  <2> QED
    BY <1>3, <2>1, ReadCachedInv, ReturnInv DEF Refetch, Ours
<1>4. ASSUME NEW o \in Outcomes, AuthSecretError(o) PROVE Inv'
  <2> DEFINE new == [cr EXCEPT !.ready = "AuthSecretError"]
  <2>1. new \in CRs /\ new.here = cr.here /\ new.fin = cr.fin /\ new.del = cr.del
    BY DEF TypeOK, WorkerType, CRs, Readys
  <2>2. EndPass /\ UNCHANGED live /\ pc # "idle"
    BY <1>4 DEF AuthSecretError, UpdateStatus, admin
  <2>3. (~behind /\ Store(new)) \/ UNCHANGED versions
    BY <1>4 DEF AuthSecretError, UpdateStatus, kube
  <2> HIDE DEF new
  <2> QED
    BY <2>1, <2>2, <2>3, StatusInv
<1>5. ASSUME NEW o \in Outcomes, DeleteRemote(o) PROVE Inv'
  <2>1. UNCHANGED versions /\ Stored' = Stored /\ (Ours' => Ours)
    BY <1>5 DEF DeleteRemote, kube, Stored, Ours, NoClient
  <2>2. CASE o = "ok"
    <3>1. ~Ours' /\ UNCHANGED <<cr, behind>> /\ pc' = "release"
      BY <1>5, <2>2 DEF DeleteRemote, Applied, Goto, Ours, NoClient
    <3>2. PassKnows'
      BY <1>5, <3>1 DEF DeleteRemote, Inv, PassKnows
    <3>3. NoOrphan' /\ KnownAgree' /\ CopyCurrent'
      BY <1>5, <2>1, <3>1 DEF DeleteRemote, Inv, NoOrphan, KnownAgree, CopyCurrent
    <3> QED
      BY <3>2, <3>3 DEF Inv
  <2>3. CASE o # "ok"
    BY <1>5, <2>1, <2>3, ReturnInv DEF DeleteRemote
  <2> QED
    BY <2>2, <2>3
<1>6. ASSUME NEW o \in Outcomes, RemoveFinalizer(o) PROVE Inv'
  <2> DEFINE new == Gone(cr.inc)
  <2>1. new \in CRs /\ ~new.here /\ ~new.fin
    BY GoneType DEF TypeOK, WorkerType, CRs, Gone
  <2>2. EndPass /\ UNCHANGED live /\ ~Ours /\ cr.del /\ cr.here
    BY <1>6 DEF RemoveFinalizer, admin, Inv, PassKnows
  <2>3. CASE ~behind /\ Store(new)
    <3>1. \A i \in 1..Len(versions) : versions[i] = cr
      <4>1. Len(versions) = 1 /\ cr = Stored
        BY <1>6, <2>3 DEF RemoveFinalizer, Inv, CopyCurrent
      <4> QED
        BY <4>1 DEF Stored
    <3>2. \A i \in 1..Len(versions) : Agrees(versions[i], new)
      BY <2>1, <2>2, <3>1 DEF Agrees
    <3>3. Agrees(new, new)
      BY <2>1 DEF Agrees
    <3>4. KnownAgree' /\ CopyCurrent' /\ PassKnows'
      BY <2>1, <2>2, <2>3, <3>2, <3>3, AgreeAfterStore, EndPassInv DEF TypeOK
    <3> QED
      BY <2>2, <3>4 DEF Inv, NoOrphan, Ours
  <2>4. CASE UNCHANGED versions
    BY <2>2, <2>4, ReturnInv DEF Ours
  <2> QED
    BY <1>6, <2>3, <2>4 DEF RemoveFinalizer
<1>7. ASSUME NEW o \in Outcomes, AddFinalizer(o) PROVE Inv'
  <2> DEFINE new == [cr EXCEPT !.fin = TRUE]
  <2>1. new \in CRs /\ new.here /\ new.fin /\ ~new.del
    BY <1>7 DEF AddFinalizer, TypeOK, WorkerType, CRs, Inv, PassKnows
  <2>2. UNCHANGED live
    BY <1>7 DEF AddFinalizer, admin
  <2>3. CASE ~behind /\ Store(new)
    <3>1. \A i \in 1..Len(versions) : versions[i] = cr
      <4>1. Len(versions) = 1 /\ cr = Stored
        BY <1>7, <2>3 DEF AddFinalizer, Inv, CopyCurrent
      <4> QED
        BY <4>1 DEF Stored
    <3>2. \A i \in 1..Len(versions) : Agrees(versions[i], new)
      BY <1>7, <2>1, <3>1 DEF AddFinalizer, Inv, PassKnows, Agrees
    <3>3. Agrees(new, new)
      BY <2>1 DEF Agrees
    <3>4. /\ Stored' = new
          /\ \A i \in 1..Len(versions') : Agrees(versions'[i], Stored')
      BY <2>1, <2>3, <3>2, <3>3, AgreeAfterStore DEF TypeOK
    <3>5. CASE EndPass
      BY <2>1, <2>2, <3>4, <3>5, EndPassInv DEF Inv, NoOrphan, Ours
    <3>6. CASE /\ pc' = "refetch"
               /\ cr' = new
               /\ UNCHANGED <<behind, secret, drifted>>
      BY <2>1, <2>2, <3>3, <3>4, <3>6
         DEF Inv, NoOrphan, Ours, KnownAgree, CopyCurrent, PassKnows
    <3> QED
      BY <1>7, <3>5, <3>6 DEF AddFinalizer
  <2>4. CASE UNCHANGED versions /\ EndPass
    BY <2>2, <2>4, ReturnInv DEF Ours
  <2> QED
    BY <1>7, <2>3, <2>4 DEF AddFinalizer, Applied
<1>8. ASSUME NEW o \in Outcomes, FetchClient(o) PROVE Inv'
  <2>1. /\ UNCHANGED <<versions, live, cr, behind>>
        /\ pc = "fetch" /\ pc' \in {"failed", "create", "synced", "patch"}
    BY <1>8 DEF FetchClient, Goto, kube, admin
  <2>2. PassKnows'
    BY <2>1 DEF Inv, PassKnows, Stored
  <2> QED
    BY <2>1, <2>2, MoveInv
<1>9. ASSUME NEW o \in Outcomes, CreateClient(o) PROVE Inv'
  <2>1. /\ UNCHANGED <<versions, cr, behind>>
        /\ pc = "create" /\ pc' \in {"failed", "secret", "synced"}
    BY <1>9 DEF CreateClient, Goto, kube
  <2>2. Stored' = Stored /\ Stored.here /\ Stored.fin /\ cr.here
    BY <2>1 DEF Inv, PassKnows, Stored
  <2> QED
    BY <2>1, <2>2 DEF Inv, NoOrphan, KnownAgree, CopyCurrent, PassKnows
<1>10. ASSUME NEW o \in Outcomes, UpdateClient(o) PROVE Inv'
  <2>1. /\ UNCHANGED <<versions, cr, behind>>
        /\ pc = "patch" /\ pc' \in {"failed", "synced"}
    BY <1>10 DEF UpdateClient, Goto, kube
  <2>2. Stored' = Stored /\ Stored.here /\ Stored.fin /\ cr.here
    BY <2>1 DEF Inv, PassKnows, Stored
  <2> QED
    BY <2>1, <2>2 DEF Inv, NoOrphan, KnownAgree, CopyCurrent, PassKnows
<1>11. ASSUME NEW o \in Outcomes, WriteClientSecret(o) PROVE Inv'
  <2>1. UNCHANGED <<versions, live>> /\ pc = "secret"
    BY <1>11 DEF WriteClientSecret, admin
  <2>2. CASE Goto("synced")
    <3>1. PassKnows'
      BY <2>1, <2>2 DEF Inv, PassKnows, Goto, Stored
    <3> QED
      BY <2>1, <2>2, <3>1, MoveInv DEF Goto
  <2>3. CASE EndPass
    BY <2>1, <2>3, ReturnInv DEF Ours
  <2> QED
    BY <1>11, <2>2, <2>3 DEF WriteClientSecret
<1>12. ASSUME NEW o \in Outcomes, ReportSynced(o) PROVE Inv'
  <2> DEFINE new == [cr EXCEPT !.obs = cr.gen, !.ready = "True",
                       !.synced = IF drifted THEN "DriftCorrected" ELSE "Synced"]
  <2>1. new \in CRs /\ new.here = cr.here /\ new.fin = cr.fin /\ new.del = cr.del
    BY DEF TypeOK, WorkerType, CRs, Readys, Synceds
  <2>2. EndPass /\ UNCHANGED live /\ pc # "idle"
    BY <1>12 DEF ReportSynced, UpdateStatus, admin
  <2>3. (~behind /\ Store(new)) \/ UNCHANGED versions
    BY <1>12 DEF ReportSynced, UpdateStatus
  <2> HIDE DEF new
  <2> QED
    BY <2>1, <2>2, <2>3, StatusInv
<1>13. ASSUME NEW o \in Outcomes, ReportError(o) PROVE Inv'
  <2> DEFINE new == [cr EXCEPT !.ready = "ReconcileError", !.synced = "ReconcileError"]
  <2>1. new \in CRs /\ new.here = cr.here /\ new.fin = cr.fin /\ new.del = cr.del
    BY DEF TypeOK, WorkerType, CRs, Readys, Synceds
  <2>2. EndPass /\ UNCHANGED live /\ pc # "idle"
    BY <1>13 DEF ReportError, UpdateStatus, admin
  <2>3. (~behind /\ Store(new)) \/ UNCHANGED versions
    BY <1>13 DEF ReportError, UpdateStatus, kube
  <2> HIDE DEF new
  <2> QED
    BY <2>1, <2>2, <2>3, StatusInv
<1> QED
  BY <1>1, <1>2, <1>3, <1>4, <1>5, <1>6, <1>7, <1>8, <1>9, <1>10, <1>11, <1>12, <1>13
     DEF Reconcile

\* A write of the CR by the user: the copy in flight is behind from then on,
\* and the passes that rely on the finalizer still find it.
LEMMA UserWritesInv ==
  ASSUME TypeOK, Inv, NEW new \in CRs, UserWrites(new),
         \A v \in CRs : Agrees(v, Stored) => Agrees(v, new),
         Agrees(new, new),
         Stored.here /\ Stored.fin => new.here /\ new.fin
  PROVE  Inv'
<1> USE DEF TypeOK
<1>1. UNCHANGED <<live, pc, cr>> /\ Store(new)
  BY DEF UserWrites, admin
<1>2. cr \in CRs /\ \A i \in 1..Len(versions) : versions[i] \in CRs
  BY QueueFacts DEF WorkerType
<1>3. \A i \in 1..Len(versions) : Agrees(versions[i], new)
  BY <1>2 DEF Inv, KnownAgree
<1>4. /\ Stored' = new
      /\ \A i \in 1..Len(versions') : Agrees(versions'[i], Stored')
  BY <1>1, <1>3, AgreeAfterStore
<1>5. KnownAgree'
  BY <1>1, <1>2, <1>4 DEF Inv, KnownAgree
<1>6. NoOrphan' /\ PassKnows'
  BY <1>1, <1>4 DEF Inv, NoOrphan, PassKnows, Ours
<1>7. CopyCurrent'
  BY DEF UserWrites, CopyCurrent
<1> QED
  BY <1>5, <1>6, <1>7 DEF Inv

\* The user and the outsiders preserve it,
LEMMA OthersInv == TypeOK /\ Inv /\ Others => Inv'
<1> SUFFICES ASSUME TypeOK, Inv, Others PROVE Inv'
  OBVIOUS
<1>1. Stored \in CRs
  BY QueueFacts DEF TypeOK
<1>2. ASSUME NEW s \in Specs, Apply(s) PROVE Inv'
  <2> DEFINE new == [Gone(Stored.inc + 1) EXCEPT !.here = TRUE, !.gen = 1, !.spec = s]
  <2>1. Stored.inc + 1 \in Nat
    BY <1>1 DEF CRs
  <2>2. Gone(Stored.inc + 1) \in CRs
    BY <2>1, GoneType
  <2>3. new \in CRs
    BY <2>2, UserVersionType
  <2>4. new.here /\ ~new.fin /\ ~new.del
    BY <2>2 DEF Gone, CRs
  <2>5. ~Stored.here /\ UserWrites(new)
    BY <1>2 DEF Apply
  <2> HIDE DEF new
  <2> QED
    BY <2>3, <2>4, <2>5, UserWritesInv DEF Agrees
<1>3. ASSUME NEW s \in Specs, Edit(s) PROVE Inv'
  <2> DEFINE new == [Stored EXCEPT !.spec = s, !.gen = @ + 1]
  <2>1. new \in CRs
    BY <1>1, UserVersionType
  <2>2. new.here = Stored.here /\ new.fin = Stored.fin /\ new.del = Stored.del
    BY <1>1 DEF CRs
  <2>3. UserWrites(new)
    BY <1>3 DEF Edit
  <2> HIDE DEF new
  <2> QED
    BY <2>1, <2>2, <2>3, UserWritesInv DEF Agrees
<1>4. CASE Delete
  <2>1. CASE Stored.fin
    <3> DEFINE new == [Stored EXCEPT !.del = TRUE, !.gen = @ + 1]
    <3>1. new \in CRs
      BY <1>1, UserVersionType, SpecsAssumption
    <3>2. new.here = Stored.here /\ new.fin = Stored.fin /\ new.del
      BY <1>1 DEF CRs
    <3>3. UserWrites(new)
      BY <1>4, <2>1 DEF Delete
    <3> HIDE DEF new
    <3> QED
      BY <3>1, <3>2, <3>3, UserWritesInv DEF Agrees
  <2>2. CASE ~Stored.fin
    <3> DEFINE new == Gone(Stored.inc)
    <3>1. new \in CRs /\ ~new.here /\ ~new.fin
      BY <1>1, GoneType DEF CRs, Gone
    <3>2. UserWrites(new)
      BY <1>4, <2>2 DEF Delete
    <3> HIDE DEF new
    <3> QED
      BY <2>2, <3>1, <3>2, UserWritesInv DEF Agrees
  <2> QED
    BY <2>1, <2>2
<1>5. CASE ToggleAuthSecret
  BY <1>5, FrameInv DEF ToggleAuthSecret, admin, Ours
<1>6. ASSUME NEW w \in Values, NEW r \in Responses, OutsideCreate(w, r) PROVE Inv'
  <2>1. ~Ours'
    BY <1>6 DEF OutsideCreate, Ours
  <2> QED
    BY <1>6, <2>1, FrameInv DEF OutsideCreate, kube
<1>7. ASSUME NEW w \in Values, NEW r \in Responses, OutsideEdit(w, r) PROVE Inv'
  <2>1. Ours' => Ours
    BY <1>7 DEF OutsideEdit, Ours, TypeOK, AdminType, Clients, NoClient
  <2> QED
    BY <1>7, <2>1, FrameInv DEF OutsideEdit, kube
<1>8. CASE OutsideDelete
  <2>1. ~Ours'
    BY <1>8 DEF OutsideDelete, Ours, NoClient
  <2> QED
    BY <1>8, <2>1, FrameInv DEF OutsideDelete, kube
<1> QED
  BY <1>2, <1>3, <1>4, <1>5, <1>6, <1>7, <1>8 DEF Others

\* as the informer does, which only forgets the oldest version,
LEMMA CacheSyncInv == TypeOK /\ Inv /\ CacheSync => Inv'
<1> SUFFICES ASSUME TypeOK, Inv, CacheSync PROVE Inv'
  OBVIOUS
<1>1. /\ Len(versions) \in Nat /\ Len(versions) > 1
      /\ Stored' = Stored
      /\ Len(versions') = Len(versions) - 1
      /\ \A i \in 1..Len(versions') : versions'[i] = versions[i + 1]
  BY DeliverFacts, QueueFacts DEF CacheSync, TypeOK
<1>2. UNCHANGED <<live, pc, cr, behind>>
  BY DEF CacheSync, admin, worker
<1>3. \A i \in 1..Len(versions') : Agrees(versions'[i], Stored')
  <2> TAKE i \in 1..Len(versions')
  <2>1. i + 1 \in 1..Len(versions)
    BY <1>1
  <2> QED
    BY <1>1, <2>1 DEF Inv, KnownAgree
<1>4. NoOrphan' /\ KnownAgree' /\ PassKnows'
  BY <1>1, <1>2, <1>3 DEF Inv, NoOrphan, KnownAgree, PassKnows, Ours
<1>5. CopyCurrent'
  BY <1>1, <1>2 DEF Inv, CopyCurrent
<1> QED
  BY <1>4, <1>5 DEF Inv

\* and a crash, which leaves the stored version and no pass.
LEMMA CrashInv == TypeOK /\ Inv /\ Crash => Inv'
<1> SUFFICES ASSUME TypeOK, Inv, Crash PROVE Inv'
  OBVIOUS
<1>1. Stored' = Stored /\ Len(versions') = 1 /\ versions'[1] = Stored
  BY DEF Crash, Stored
<1>2. Agrees(Stored, Stored)
  BY QueueFacts DEF TypeOK, Inv, KnownAgree, Stored
<1>3. KnownAgree' /\ CopyCurrent' /\ PassKnows'
  BY <1>1, <1>2, EndPassInv DEF Crash
<1> QED
  BY <1>1, <1>3 DEF Inv, Crash, NoOrphan, Ours, admin

\* IInv is inductive.
THEOREM Inductive == IInv /\ [Next]_vars => IInv'
<1> SUFFICES ASSUME IInv, [Next]_vars PROVE IInv'
  OBVIOUS
<1>1. TypeOK /\ Inv
  BY DEF IInv, Inv
<1>2. CASE Next
  BY <1>1, <1>2, ReconcileType, CacheSyncType, CrashType, OthersType,
     ReconcileInv, CacheSyncInv, CrashInv, OthersInv DEF Next, IInv, Inv
<1>3. CASE UNCHANGED vars
  <2>1. TypeOK'
    BY <1>1, <1>3, UnchangedType DEF vars, TypeOK
  <2>2. Inv'
    BY <1>1, <1>3, FrameInv DEF vars, kube, admin, Ours
  <2> QED
    BY <2>1, <2>2 DEF IInv, Inv
<1> QED
  BY <1>2, <1>3

\* Every reachable state satisfies the inductive invariant, and with it
\* NoOrphan: as long as a client the operator created or adopted exists, the
\* stored CR exists and holds the finalizer.
THEOREM OrphanFree == Spec => []IInv /\ []NoOrphan
<1>1. Init => IInv
  BY InitType, InitInv DEF IInv, Inv
<1>2. IInv => NoOrphan
  BY DEF IInv
<1> QED
  BY <1>1, <1>2, Inductive, PTL DEF Spec

\* Clients.Delete of a pass for an earlier incarnation of the CR, however late,
\* never takes down the client of a CR that is not being deleted.
THEOREM DeletesItsOwn == Spec => OwnClientSafe
<1> DEFINE Step == pc = "delete" /\ Ours /\ ~live'.here => Stored.here /\ Stored.del
<1>1. IInv /\ [Next]_vars => [Step]_vars
  <2> SUFFICES ASSUME IInv, pc = "delete", Ours PROVE Stored.here /\ Stored.del
    OBVIOUS
  <2>1. Stored.here /\ Stored.fin
    BY DEF IInv, NoOrphan
  <2>2. cr.here /\ cr.del
    BY DEF IInv, PassKnows
  <2> QED
    BY <2>1, <2>2 DEF IInv, KnownAgree, Agrees
<1>2. Spec => []IInv
  BY OrphanFree, PTL
<1> QED
  BY <1>1, <1>2, PTL DEF Spec, OwnClientSafe

-----------------------------------------------------------------------------
(* Refinement of ManagedLifecycle *)

\* What a step does to the abstract state when it leaves the stored CR, or the
\* client, where they were.
LEMMA AbstractFrame ==
  /\ Stored' = Stored => CRState' = CRState
  /\ live' = live => Remote' = Remote
BY DEF CRState, Remote, Ours

\* A version with the same presence, finalizer and mark is the same abstract CR.
LEMMA AbstractStatus ==
  ASSUME Stored'.here = Stored.here, Stored'.fin = Stored.fin, Stored'.del = Stored.del
  PROVE  CRState' = CRState
BY DEF CRState

\* A status update is a stutter of the abstract specification.
LEMMA StatusStutters ==
  ASSUME IInv, pc # "idle", UNCHANGED live, NEW new \in CRs,
         \/ ~behind /\ Store(new)
         \/ UNCHANGED versions,
         new.here = cr.here, new.fin = cr.fin, new.del = cr.del
  PROVE  UNCHANGED <<CRState, Remote>>
<1>1. CASE UNCHANGED versions
  BY <1>1, AbstractFrame DEF Stored
<1>2. CASE ~behind /\ Store(new)
  <2>1. cr = Stored
    BY <1>2 DEF IInv, CopyCurrent
  <2>2. Stored' = new
    BY <1>2, StoreFacts DEF IInv, TypeOK
  <2> QED
    BY <2>1, <2>2, AbstractFrame, AbstractStatus
<1> QED
  BY <1>1, <1>2

\* Every call of a pass is a step of the abstract specification or a stutter.
LEMMA ReconcileRefines == IInv /\ Reconcile => [Lifecycle!Next]_(Lifecycle!vars)
<1> SUFFICES ASSUME IInv, Reconcile,
                    ~UNCHANGED <<CRState, Remote>>
             PROVE  Lifecycle!Next
  BY DEF Lifecycle!vars
<1>1. CASE GetCR \/ ResolveAuth \/ Refetch
  BY <1>1, AbstractFrame DEF GetCR, ResolveAuth, Refetch, kube, admin, Stored
<1>2. ASSUME NEW o \in Outcomes, AuthSecretError(o) PROVE FALSE
  <2> DEFINE new == [cr EXCEPT !.ready = "AuthSecretError"]
  <2>1. new \in CRs /\ new.here = cr.here /\ new.fin = cr.fin /\ new.del = cr.del
    BY DEF IInv, TypeOK, WorkerType, CRs, Readys
  <2>2. UNCHANGED live /\ pc # "idle" /\ ((~behind /\ Store(new)) \/ UNCHANGED versions)
    BY <1>2 DEF AuthSecretError, UpdateStatus, admin, kube
  <2> HIDE DEF new
  <2> QED
    BY <2>1, <2>2, StatusStutters
<1>3. ASSUME NEW o \in Outcomes, DeleteRemote(o) PROVE Lifecycle!Vanish
  <2>1. CRState' = CRState
    BY <1>3, AbstractFrame DEF DeleteRemote, kube, Stored
  <2>2. live' = NoClient
    BY <1>3, <2>1, AbstractFrame DEF DeleteRemote
  <2>3. Remote' = "absent"
    BY <2>2 DEF Remote, Ours, NoClient
  <2> QED
    BY <2>1, <2>3 DEF Lifecycle!Vanish
<1>4. ASSUME NEW o \in Outcomes, RemoveFinalizer(o) PROVE Lifecycle!Release
  <2>1. Remote' = Remote /\ ~Ours /\ cr.here /\ cr.del
    BY <1>4, AbstractFrame DEF RemoveFinalizer, admin, IInv, PassKnows
  <2>2. ~behind /\ Store(Gone(cr.inc))
    BY <1>4, <2>1, AbstractFrame DEF RemoveFinalizer, Stored
  <2>3. Gone(cr.inc) \in CRs /\ ~Gone(cr.inc).here
    BY GoneType DEF IInv, TypeOK, WorkerType, CRs
  <2>4. cr = Stored /\ ~Stored'.here
    BY <1>4, <2>2, <2>3, StoreFacts DEF RemoveFinalizer, IInv, TypeOK, CopyCurrent
  <2> QED
    BY <2>1, <2>4 DEF Lifecycle!Release, CRState, Remote
<1>5. ASSUME NEW o \in Outcomes, AddFinalizer(o) PROVE Lifecycle!Guard
  <2> DEFINE new == [cr EXCEPT !.fin = TRUE]
  <2>1. Remote' = Remote /\ cr.here /\ ~cr.del /\ ~cr.fin
    BY <1>5, AbstractFrame DEF AddFinalizer, admin, IInv, PassKnows
  <2>2. ~behind /\ Store(new)
    BY <1>5, <2>1, AbstractFrame DEF AddFinalizer, Stored
  <2>3. new \in CRs /\ new.here /\ new.fin /\ ~new.del
    BY <2>1 DEF IInv, TypeOK, WorkerType, CRs
  <2>4. cr = Stored /\ Stored' = new
    BY <1>5, <2>2, <2>3, StoreFacts DEF AddFinalizer, IInv, TypeOK, CopyCurrent
  <2> HIDE DEF new
  <2> QED
    BY <2>1, <2>3, <2>4 DEF Lifecycle!Guard, CRState
<1>6. ASSUME NEW o \in Outcomes, FetchClient(o) PROVE FALSE
  BY <1>6, AbstractFrame DEF FetchClient, kube, admin, Stored
<1>7. ASSUME NEW o \in Outcomes, CreateClient(o) PROVE Lifecycle!Manage
  <2>1. CRState' = CRState /\ Stored.here /\ Stored.fin
    BY <1>7, AbstractFrame DEF CreateClient, kube, Stored, IInv, PassKnows
  <2>2. Ours'
    BY <1>7, <2>1, AbstractFrame DEF CreateClient, Ours, admin
  <2> QED
    BY <2>1, <2>2 DEF Lifecycle!Manage, CRState, Remote
<1>8. ASSUME NEW o \in Outcomes, UpdateClient(o) PROVE Lifecycle!Manage
  <2>1. CRState' = CRState /\ Stored.here /\ Stored.fin
    BY <1>8, AbstractFrame DEF UpdateClient, kube, Stored, IInv, PassKnows
  <2>2. live.here /\ live' = [live EXCEPT !.want = cr.spec.want, !.resp = cr.spec.resp,
                                          !.by = "operator"]
    BY <1>8, <2>1, AbstractFrame DEF UpdateClient
  <2>3. Ours'
    BY <2>2 DEF Ours, IInv, TypeOK, AdminType, Clients, NoClient
  <2> QED
    BY <2>1, <2>3 DEF Lifecycle!Manage, CRState, Remote
<1>9. ASSUME NEW o \in Outcomes, WriteClientSecret(o) PROVE FALSE
  BY <1>9, AbstractFrame DEF WriteClientSecret, admin, Stored
<1>10. ASSUME NEW o \in Outcomes, ReportSynced(o) PROVE FALSE
  <2> DEFINE new == [cr EXCEPT !.obs = cr.gen, !.ready = "True",
                       !.synced = IF drifted THEN "DriftCorrected" ELSE "Synced"]
  <2>1. new \in CRs /\ new.here = cr.here /\ new.fin = cr.fin /\ new.del = cr.del
    BY DEF IInv, TypeOK, WorkerType, CRs, Readys, Synceds
  <2>2. UNCHANGED live /\ pc # "idle" /\ ((~behind /\ Store(new)) \/ UNCHANGED versions)
    BY <1>10 DEF ReportSynced, UpdateStatus, admin
  <2> HIDE DEF new
  <2> QED
    BY <2>1, <2>2, StatusStutters
<1>11. ASSUME NEW o \in Outcomes, ReportError(o) PROVE FALSE
  <2> DEFINE new == [cr EXCEPT !.ready = "ReconcileError", !.synced = "ReconcileError"]
  <2>1. new \in CRs /\ new.here = cr.here /\ new.fin = cr.fin /\ new.del = cr.del
    BY DEF IInv, TypeOK, WorkerType, CRs, Readys, Synceds
  <2>2. UNCHANGED live /\ pc # "idle" /\ ((~behind /\ Store(new)) \/ UNCHANGED versions)
    BY <1>11 DEF ReportError, UpdateStatus, admin, kube
  <2> HIDE DEF new
  <2> QED
    BY <2>1, <2>2, StatusStutters
<1> QED
  BY <1>1, <1>2, <1>3, <1>4, <1>5, <1>6, <1>7, <1>8, <1>9, <1>10, <1>11
     DEF Reconcile, Lifecycle!Next

\* The user and the outsiders take steps of it, too.
LEMMA OthersRefine == IInv /\ Others => [Lifecycle!Next]_(Lifecycle!vars)
<1> SUFFICES ASSUME IInv, Others, ~UNCHANGED <<CRState, Remote>>
             PROVE  Lifecycle!Next
  BY DEF Lifecycle!vars
<1>1. Stored \in CRs /\ KubeType
  BY QueueFacts DEF IInv, TypeOK
<1>2. ASSUME NEW s \in Specs, Apply(s) PROVE Lifecycle!Apply
  <2> DEFINE new == [Gone(Stored.inc + 1) EXCEPT !.here = TRUE, !.gen = 1, !.spec = s]
  <2>1. Stored.inc + 1 \in Nat
    BY <1>1 DEF CRs
  <2>2. Gone(Stored.inc + 1) \in CRs
    BY <2>1, GoneType
  <2>3. new \in CRs
    BY <2>2, UserVersionType
  <2>4. new.here /\ ~new.fin /\ ~new.del
    BY <2>2 DEF Gone, CRs
  <2>5. ~Stored.here /\ Store(new) /\ Remote' = Remote
    BY <1>2, AbstractFrame DEF Apply, UserWrites, admin
  <2> HIDE DEF new
  <2>6. Stored' = new
    BY <1>1, <2>3, <2>5, StoreFacts
  <2> QED
    BY <2>4, <2>5, <2>6 DEF Lifecycle!Apply, CRState
<1>3. ASSUME NEW s \in Specs, Edit(s) PROVE FALSE
  <2> DEFINE new == [Stored EXCEPT !.spec = s, !.gen = @ + 1]
  <2>1. new \in CRs /\ new.here = Stored.here /\ new.fin = Stored.fin /\ new.del = Stored.del
    BY <1>1, UserVersionType DEF CRs
  <2>2. Store(new) /\ Remote' = Remote
    BY <1>3, AbstractFrame DEF Edit, UserWrites, admin
  <2> HIDE DEF new
  <2>3. Stored' = new
    BY <1>1, <2>1, <2>2, StoreFacts
  <2> QED
    BY <2>1, <2>2, <2>3, AbstractStatus
<1>4. CASE Delete
  <2>1. Stored.here /\ ~Stored.del /\ Remote' = Remote
    BY <1>4, AbstractFrame DEF Delete, UserWrites, admin
  <2>2. CASE Stored.fin
    <3> DEFINE new == [Stored EXCEPT !.del = TRUE, !.gen = @ + 1]
    <3>1. new \in CRs /\ new.here /\ new.del
      BY <1>1, <2>1, UserVersionType, SpecsAssumption DEF CRs
    <3>2. Store(new)
      BY <1>4, <2>2 DEF Delete, UserWrites
    <3> HIDE DEF new
    <3>3. Stored' = new
      BY <1>1, <3>1, <3>2, StoreFacts
    <3> QED
      BY <2>1, <2>2, <3>1, <3>3 DEF Lifecycle!Next, Lifecycle!Delete, CRState
  <2>3. CASE ~Stored.fin
    <3>1. Gone(Stored.inc) \in CRs /\ ~Gone(Stored.inc).here
      BY <1>1, GoneType DEF CRs
    <3>2. Store(Gone(Stored.inc))
      BY <1>4, <2>3 DEF Delete, UserWrites
    <3>3. Stored' = Gone(Stored.inc)
      BY <1>1, <3>1, <3>2, StoreFacts
    <3> QED
      BY <2>1, <2>3, <3>1, <3>3 DEF Lifecycle!Next, Lifecycle!Delete, CRState
  <2> QED
    BY <2>2, <2>3
<1>5. CASE ToggleAuthSecret
  BY <1>5, AbstractFrame DEF ToggleAuthSecret, admin, Stored
<1>6. ASSUME NEW w \in Values, NEW r \in Responses, OutsideCreate(w, r)
      PROVE Lifecycle!Appear
  <2>1. CRState' = CRState
    BY <1>6, AbstractFrame DEF OutsideCreate, kube, Stored
  <2> QED
    BY <1>6, <2>1 DEF OutsideCreate, Lifecycle!Appear, Remote, Ours
<1>7. ASSUME NEW w \in Values, NEW r \in Responses, OutsideEdit(w, r) PROVE FALSE
  <2>1. CRState' = CRState
    BY <1>7, AbstractFrame DEF OutsideEdit, kube, Stored
  <2>2. live'.here /\ live.here /\ live'.by = live.by
    BY <1>7 DEF OutsideEdit, IInv, TypeOK, AdminType, Clients, NoClient
  <2> QED
    BY <2>1, <2>2 DEF Remote, Ours
<1>8. CASE OutsideDelete
  <2>1. CRState' = CRState
    BY <1>8, AbstractFrame DEF OutsideDelete, kube, Stored
  <2>2. Remote # "absent" /\ Remote' = "absent"
    BY <1>8, <2>1 DEF OutsideDelete, Remote, Ours, NoClient
  <2> QED
    BY <2>1, <2>2 DEF Lifecycle!Next, Lifecycle!Vanish
<1> QED
  BY <1>2, <1>3, <1>4, <1>5, <1>6, <1>7, <1>8 DEF Others, Lifecycle!Next

\* The controller implements the finalizer protocol of ManagedLifecycle: every
\* initial state and every step of it, faults and stale copies included, is one
\* of the protocol's, or changes nothing the protocol can see.
THEOREM Refinement == Spec => ImplementsLifecycle
<1>1. Init => Lifecycle!Init
  <2> SUFFICES ASSUME Init PROVE Lifecycle!Init
    OBVIOUS
  <2>1. Stored = Gone(0) /\ live = NoClient
    BY DEF Init, Stored
  <2> QED
    BY <2>1, GoneType DEF Lifecycle!Init, CRState, Remote, Ours, NoClient
<1>2. IInv /\ [Next]_vars => [Lifecycle!Next]_(Lifecycle!vars)
  <2> SUFFICES ASSUME IInv, [Next]_vars PROVE [Lifecycle!Next]_(Lifecycle!vars)
    OBVIOUS
  <2>1. CASE CacheSync
    <3>1. Stored' = Stored /\ live' = live
      BY <2>1, DeliverFacts DEF CacheSync, admin, IInv, TypeOK
    <3> QED
      BY <3>1, AbstractFrame DEF Lifecycle!vars
  <2>2. CASE Crash
    <3>1. Stored' = Stored /\ live' = live
      BY <2>2 DEF Crash, Stored, admin
    <3> QED
      BY <3>1, AbstractFrame DEF Lifecycle!vars
  <2>3. CASE UNCHANGED vars
    <3>1. Stored' = Stored /\ live' = live
      BY <2>3 DEF vars, kube, admin, Stored
    <3> QED
      BY <3>1, AbstractFrame DEF Lifecycle!vars
  <2> QED
    BY <2>1, <2>2, <2>3, ReconcileRefines, OthersRefine DEF Next
<1>3. Spec => []IInv
  BY OrphanFree, PTL
<1> QED
  BY <1>1, <1>2, <1>3, PTL DEF Spec, ImplementsLifecycle, Lifecycle!Spec
=============================================================================
