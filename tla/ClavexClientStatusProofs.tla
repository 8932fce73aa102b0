--------------------- MODULE ClavexClientStatusProofs ----------------------
(***************************************************************************)
(* Theorems about what ClavexClient reports, for every set of specs and    *)
(* every bound: observedGeneration = generation is the truth, a            *)
(* DriftDetected Event is no false accusation, and without faults the      *)
(* secret of a client the operator created is never lost.                  *)
(*                                                                         *)
(* The first two need to know what a pass with a stale copy may still do:  *)
(* a generation somebody reported as synced is the newest one the cache,   *)
(* the pass or the API server hold, so nothing older can be written over   *)
(* the client after the report.                                            *)
(***************************************************************************)
EXTENDS ClavexClientProofs

-----------------------------------------------------------------------------
(* The invariant *)

Indices == 1..Len(versions)

\* A version that says that its own generation was synced.
Fresh(v) == v.here /\ v.obs = v.gen

\* Version w is a CR with the spec, the generation and the mark of v.
SameSpec(v, w) == w.here /\ w.gen = v.gen /\ w.spec = v.spec /\ w.del = v.del

\* No generation is synced before it exists, and none without the finalizer.
Sane(v) == v.obs <= v.gen /\ (v.here => v.gen >= 1 /\ (v.obs = v.gen => v.fin))

\* The client has what v asks for.
Matches(v) == live.here /\ live.want = v.spec.want

VersionsSane == Sane(cr) /\ \A i \in Indices : Sane(versions[i])

\* Before a version that is fresh, the queue holds its generation only,
SyncedLast ==
  \A i, j \in Indices : j <= i /\ Fresh(versions[i]) => SameSpec(versions[i], versions[j])

\* and so does the pass.
CopyFollows ==
  pc # "idle" => \A i \in Indices : Fresh(versions[i]) => SameSpec(versions[i], cr)

\* A copy that is not behind is the only version there is, except between the
\* two r.Get of a pass that adds the finalizer.
CopyAlone == ~behind /\ pc \notin {"idle", "refetch"} => Len(versions) = 1

\* Where the finalizer is added nothing was synced yet; where the client is
\* compared, what was synced is not being deleted.
Unsynced ==
  /\ pc = "guard" => ~Fresh(cr)
  /\ pc = "refetch" => \A i \in Indices : ~Fresh(versions[i])
  /\ pc = "fetch" /\ Fresh(cr) => ~cr.del

QueueInv == VersionsSane /\ SyncedLast /\ CopyFollows /\ CopyAlone /\ Unsynced

\* Unless an outsider wrote the client since: it is what every fresh version,
\* and a fresh copy, ask for, and what the pass that is about to say so wrote.
FreshTrue ==
  ~touched => \A i \in Indices : Fresh(versions[i]) /\ ~versions[i].del => Matches(versions[i])

CopyTrue == ~touched /\ pc # "idle" /\ Fresh(cr) /\ ~cr.del => Matches(cr)

SyncTrue == ~touched /\ pc \in {"secret", "synced"} => Matches(cr)

TruthInv == FreshTrue /\ CopyTrue /\ SyncTrue

\* As long as nothing failed, the secret of a client created for a Secret is
\* in the Secret, or in the hands of the pass that is about to write it there.
SecretInv ==
  /\ faults <= MaxFaults
  /\ faults = MaxFaults /\ live.here /\ live.asked =>
       IF pc = "secret" THEN secret = live.sec ELSE kept = live.sec

\* What carries the theorems of this module.
SInv == IInv /\ QueueInv /\ TruthInv /\ SecretInv

-----------------------------------------------------------------------------
(* The queue: QueueInv is inductive *)

\* It holds at first: there is no CR.
LEMMA InitQueue == Init => QueueInv
<1> SUFFICES ASSUME Init PROVE QueueInv
  OBVIOUS
<1>1. versions = <<Gone(0)>> /\ cr = Gone(0) /\ pc = "idle"
  BY DEF Init
<1>2. Sane(Gone(0)) /\ ~Fresh(Gone(0))
  BY DEF Gone, Sane, Fresh
<1>3. Indices = {1} /\ versions[1] = Gone(0)
  BY <1>1 DEF Indices
<1> QED
  BY <1>1, <1>2, <1>3
     DEF QueueInv, VersionsSane, SyncedLast, CopyFollows, CopyAlone, Unsynced

\* A version stored behind the others keeps the queue in order, provided that
\* it is fresh only where the others have its generation.
LEMMA StoreQueue ==
  ASSUME KubeType, VersionsSane, SyncedLast, NEW new \in CRs, Store(new), Sane(new),
         Fresh(new) => \A i \in Indices : SameSpec(new, versions[i])
  PROVE  SyncedLast' /\ \A i \in Indices' : Sane(versions'[i])
<1> DEFINE len == Len(versions)
<1>1. len \in Nat /\ len >= 1
  BY QueueFacts
<1>2. /\ Indices' = 1..(len + 1)
      /\ versions'[len + 1] = new
      /\ \A i \in 1..len : versions'[i] = versions[i]
  BY StoreFacts DEF Indices
<1>3. Indices = 1..len
  BY DEF Indices
<1> HIDE DEF len
<1>4. ASSUME NEW i \in Indices' PROVE i \in 1..len \/ i = len + 1
  BY <1>1, <1>2, <1>4
<1>5. \A i \in Indices' : Sane(versions'[i])
  BY <1>2, <1>3, <1>4 DEF VersionsSane
<1>6. SyncedLast'
  <2> SUFFICES ASSUME NEW i \in Indices', NEW j \in Indices',
                      j <= i, Fresh(versions'[i])
               PROVE  SameSpec(versions'[i], versions'[j])
    BY DEF SyncedLast, Fresh, SameSpec
  <2>1. CASE i \in 1..len
    <3>1. j \in 1..len
      BY <1>1, <1>4, <2>1
    <3> QED
      BY <1>2, <1>3, <2>1, <3>1 DEF SyncedLast
  <2>2. CASE i = len + 1
    BY <1>2, <1>3, <1>4, <2>2 DEF SameSpec, Fresh
  <2> QED
    BY <1>4, <2>1, <2>2
<1> QED
  BY <1>5, <1>6

\* A pass that returns leaves nothing but the queue to speak of.
LEMMA EndPassQueue ==
  ASSUME EndPass, SyncedLast', \A i \in Indices' : Sane(versions'[i])
  PROVE  QueueInv'
<1>1. Sane(Gone(0))
  BY DEF Gone, Sane
<1> QED
  BY <1>1 DEF EndPass, QueueInv, VersionsSane, CopyFollows, CopyAlone, Unsynced

\* So does a pass that returns without having written the CR,
LEMMA ReturnQueue == ASSUME QueueInv, EndPass, UNCHANGED versions PROVE QueueInv'
<1>1. SyncedLast' /\ \A i \in Indices' : Sane(versions'[i])
  BY DEF QueueInv, VersionsSane, SyncedLast, Indices
<1> QED
  BY <1>1, EndPassQueue

\* and one that goes on without writing it keeps its copy and the queue.
LEMMA MoveQueue ==
  ASSUME QueueInv, UNCHANGED <<versions, cr, behind>>,
         pc \notin {"idle", "refetch"}, pc' # "refetch",
         pc' = "guard" => ~Fresh(cr),
         pc' = "fetch" /\ Fresh(cr) => ~cr.del
  PROVE  QueueInv'
<1>1. VersionsSane' /\ SyncedLast'
  BY DEF QueueInv, VersionsSane, SyncedLast, Indices
<1>2. CopyFollows' /\ CopyAlone'
  BY DEF QueueInv, CopyFollows, CopyAlone, Indices
<1>3. Unsynced'
  BY DEF Unsynced
<1> QED
  BY <1>1, <1>2, <1>3 DEF QueueInv

\* The cache hands out the first version, which what follows is no news to if
\* it is fresh; after AddFinalizer nothing in it is.
LEMMA ReadCachedQueue ==
  ASSUME KubeType, QueueInv, NEW step \in {"auth", "fetch"}, ReadCached(step),
         UNCHANGED versions, Cached.here, step = "fetch" => pc = "refetch"
  PROVE  QueueInv'
<1>1. Len(versions) \in Nat /\ Len(versions) >= 1 /\ Cached = versions[1]
  BY QueueFacts
<1>2. 1 \in Indices /\ \A i \in Indices : 1 <= i
  BY <1>1 DEF Indices
<1>3. cr' = versions[1] /\ behind' = (Len(versions) > 1) /\ pc' = step
  BY <1>1 DEF ReadCached
<1>4. VersionsSane' /\ SyncedLast'
  BY <1>2, <1>3 DEF QueueInv, VersionsSane, SyncedLast, Indices
<1>5. CopyFollows'
  <2>1. \A i \in Indices : Fresh(versions[i]) => SameSpec(versions[i], versions[1])
    BY <1>2 DEF QueueInv, SyncedLast
  <2> QED
    BY <1>3, <2>1 DEF CopyFollows, Indices
<1>6. CopyAlone'
  <2> DEFINE len == Len(versions)
  <2>1. len \in Nat /\ len >= 1
    BY <1>1
  <2> HIDE DEF len
  <2>2. ~(len > 1) => len = 1
    BY <2>1
  <2> USE DEF len
  <2> QED
    BY <1>3, <2>2 DEF CopyAlone
<1>7. Unsynced'
  BY <1>2, <1>3 DEF QueueInv, Unsynced
<1> QED
  BY <1>4, <1>5, <1>6, <1>7 DEF QueueInv

\* A status update stores the copy, which is then all there is, with another
\* status, or nothing.
LEMMA StatusQueue ==
  ASSUME TypeOK, Inv, QueueInv, pc \notin {"idle", "refetch"}, EndPass,
         NEW new \in CRs,
         \/ ~behind /\ Store(new)
         \/ UNCHANGED versions,
         Sane(cr) /\ cr = Stored => Sane(new), SameSpec(new, cr)
  PROVE  QueueInv'
<1>1. CASE UNCHANGED versions
  BY <1>1, ReturnQueue
<1>2. CASE ~behind /\ Store(new)
  <2>1. Len(versions) = 1 /\ cr = Stored
    BY <1>2 DEF QueueInv, CopyAlone, Inv, CopyCurrent
  <2>2. Indices = {1} /\ versions[1] = cr
    BY <2>1 DEF Indices, Stored
  <2>3. Sane(new) /\ \A i \in Indices : SameSpec(new, versions[i])
    BY <2>1, <2>2 DEF QueueInv, VersionsSane
  <2>4. SyncedLast' /\ \A i \in Indices' : Sane(versions'[i])
    BY <1>2, <2>3, StoreQueue DEF TypeOK, QueueInv
  <2> QED
    BY <2>4, EndPassQueue
<1> QED
  BY <1>1, <1>2

\* Every call of a pass keeps the queue in order.
LEMMA ReconcileQueue == IInv /\ QueueInv /\ Reconcile => QueueInv'
<1> SUFFICES ASSUME IInv, QueueInv, Reconcile PROVE QueueInv'
  OBVIOUS
<1>0. TypeOK /\ Inv /\ KubeType /\ WorkerType /\ cr \in CRs
  BY DEF IInv, Inv, TypeOK, WorkerType
<1>1. CASE GetCR
  BY <1>0, <1>1, ReadCachedQueue DEF GetCR, kube
<1>2. CASE ResolveAuth
  <2>1. UNCHANGED versions /\ pc = "auth" /\ cr.here /\ Sane(cr)
    BY <1>0, <1>2 DEF ResolveAuth, kube, Inv, PassKnows, QueueInv, VersionsSane
  <2>2. CASE EndPass
    BY <2>1, <2>2, ReturnQueue
  <2>3. CASE \E step \in {"autherr", "delete", "fetch", "guard"} :
               /\ Goto(step)
               /\ step = "fetch" => ~cr.del
               /\ step = "guard" => ~cr.fin
    BY <2>1, <2>3, MoveQueue DEF Goto, Sane, Fresh
  <2> QED
    BY <1>2, <2>2, <2>3 DEF ResolveAuth
<1>3. CASE Refetch
  BY <1>0, <1>3, ReadCachedQueue, ReturnQueue DEF Refetch, kube
<1>4. ASSUME NEW o \in Outcomes, AuthSecretError(o) PROVE QueueInv'
  <2> DEFINE new == [cr EXCEPT !.ready = "AuthSecretError"]
  <2>1. new \in CRs /\ (Sane(cr) => Sane(new))
    BY <1>0 DEF CRs, Readys, Sane
  <2>2. EndPass /\ pc = "autherr" /\ SameSpec(new, cr)
    BY <1>0, <1>4 DEF AuthSecretError, CRs, SameSpec, Inv, PassKnows
  <2>3. (~behind /\ Store(new)) \/ UNCHANGED versions
    BY <1>4 DEF AuthSecretError, UpdateStatus, kube
  <2> HIDE DEF new
  <2> QED
    BY <1>0, <2>1, <2>2, <2>3, StatusQueue
<1>5. ASSUME NEW o \in Outcomes, DeleteRemote(o) PROVE QueueInv'
  BY <1>5, MoveQueue, ReturnQueue DEF DeleteRemote, Goto, kube
<1>6. ASSUME NEW o \in Outcomes, RemoveFinalizer(o) PROVE QueueInv'
  <2> DEFINE new == Gone(cr.inc)
  <2>1. new \in CRs /\ Sane(new) /\ ~Fresh(new)
    BY <1>0, GoneType DEF CRs, Gone, Sane, Fresh
  <2>2. EndPass /\ (Store(new) \/ UNCHANGED versions)
    BY <1>6 DEF RemoveFinalizer
  <2> HIDE DEF new
  <2>3. CASE Store(new)
    BY <1>0, <2>1, <2>2, <2>3, StoreQueue, EndPassQueue DEF QueueInv
  <2> QED
    BY <2>2, <2>3, ReturnQueue
<1>7. ASSUME NEW o \in Outcomes, AddFinalizer(o) PROVE QueueInv'
  <2> DEFINE new == [cr EXCEPT !.fin = TRUE]
  <2>1. pc = "guard" /\ cr.here /\ ~Fresh(cr) /\ Sane(cr)
    BY <1>0, <1>7 DEF AddFinalizer, Inv, PassKnows, QueueInv, Unsynced, VersionsSane
  <2>2. new \in CRs /\ Sane(new) /\ ~Fresh(new)
    BY <1>0, <2>1 DEF CRs, Sane, Fresh
  <2>3. \/ UNCHANGED versions /\ EndPass
        \/ ~behind /\ Store(new) /\ EndPass
        \/ /\ ~behind /\ Store(new)
           /\ pc' = "refetch" /\ cr' = new /\ UNCHANGED behind
    BY <1>7 DEF AddFinalizer, Applied
  <2> HIDE DEF new
  <2>4. CASE ~behind /\ Store(new)
    <3>1. SyncedLast' /\ \A i \in Indices' : Sane(versions'[i])
      BY <1>0, <2>2, <2>4, StoreQueue DEF QueueInv
    <3>2. CASE EndPass
      BY <3>1, <3>2, EndPassQueue
    <3>3. CASE pc' = "refetch" /\ cr' = new
      <4>1. Len(versions) = 1 /\ cr = Stored
        BY <1>0, <2>1, <2>4 DEF QueueInv, CopyAlone, Inv, CopyCurrent
      <4>2. versions[1] = cr
        BY <4>1 DEF Stored
      <4>3. Indices' = 1..2 /\ versions'[1] = cr /\ versions'[2] = new
        <5>1. Len(versions') = Len(versions) + 1 /\ 1 \in 1..Len(versions)
          BY <1>0, <2>2, <2>4, <4>1, StoreFacts
        <5>2. Len(versions') = 2
          BY <4>1, <5>1
        <5>3. versions'[1] = cr
          BY <1>0, <2>2, <2>4, <4>2, <5>1, StoreFacts
        <5>4. versions'[1 + 1] = new
          BY <1>0, <2>2, <2>4, <4>1, StoreFacts
        <5> QED
          BY <5>2, <5>3, <5>4 DEF Indices
      <4>4. \A i \in Indices' : ~Fresh(versions'[i])
        BY <2>1, <2>2, <4>3
      <4> QED
        BY <2>2, <3>1, <3>3, <4>4
           DEF QueueInv, VersionsSane, CopyFollows, CopyAlone, Unsynced, Fresh
    <3> QED
      BY <2>3, <2>4, <3>2, <3>3, StoreFacts, <1>0, <2>2
  <2> QED
    BY <2>3, <2>4, ReturnQueue
<1>8. ASSUME NEW o \in Outcomes, FetchClient(o) PROVE QueueInv'
  <2>1. /\ UNCHANGED <<versions, cr, behind>>
        /\ pc = "fetch" /\ pc' \in {"failed", "create", "synced", "patch"}
    BY <1>8 DEF FetchClient, Goto, kube
  <2> QED
    BY <2>1, MoveQueue
<1>9. ASSUME NEW o \in Outcomes, CreateClient(o) PROVE QueueInv'
  <2>1. /\ UNCHANGED <<versions, cr, behind>>
        /\ pc = "create" /\ pc' \in {"failed", "secret", "synced"}
    BY <1>9 DEF CreateClient, Goto, kube
  <2> QED
    BY <2>1, MoveQueue
<1>10. ASSUME NEW o \in Outcomes, UpdateClient(o) PROVE QueueInv'
  <2>1. /\ UNCHANGED <<versions, cr, behind>>
        /\ pc = "patch" /\ pc' \in {"failed", "synced"}
    BY <1>10 DEF UpdateClient, Goto, kube
  <2> QED
    BY <2>1, MoveQueue
<1>11. ASSUME NEW o \in Outcomes, WriteClientSecret(o) PROVE QueueInv'
  BY <1>11, MoveQueue, ReturnQueue DEF WriteClientSecret, Goto
<1>12. ASSUME NEW o \in Outcomes, ReportSynced(o) PROVE QueueInv'
  <2> DEFINE new == [cr EXCEPT !.obs = cr.gen, !.ready = "True",
                       !.synced = IF drifted THEN "DriftCorrected" ELSE "Synced"]
  <2>1. new \in CRs
    BY <1>0 DEF CRs, Readys, Synceds
  <2>2. EndPass /\ pc = "synced" /\ SameSpec(new, cr)
    BY <1>0, <1>12 DEF ReportSynced, CRs, SameSpec, Inv, PassKnows
  <2>3. (~behind /\ Store(new)) \/ UNCHANGED versions
    BY <1>12 DEF ReportSynced, UpdateStatus
  <2>4. Sane(cr) /\ cr = Stored => Sane(new)
    BY <1>0, <2>2 DEF CRs, Sane, Inv, PassKnows
  <2> HIDE DEF new
  <2> QED
    BY <1>0, <2>1, <2>2, <2>3, <2>4, StatusQueue
<1>13. ASSUME NEW o \in Outcomes, ReportError(o) PROVE QueueInv'
  <2> DEFINE new == [cr EXCEPT !.ready = "ReconcileError", !.synced = "ReconcileError"]
  <2>1. new \in CRs /\ (Sane(cr) => Sane(new))
    BY <1>0 DEF CRs, Readys, Synceds, Sane
  <2>2. EndPass /\ pc = "failed" /\ SameSpec(new, cr)
    BY <1>0, <1>13 DEF ReportError, CRs, SameSpec, Inv, PassKnows
  <2>3. (~behind /\ Store(new)) \/ UNCHANGED versions
    BY <1>13 DEF ReportError, UpdateStatus, kube
  <2> HIDE DEF new
  <2> QED
    BY <1>0, <2>1, <2>2, <2>3, StatusQueue
<1> QED
  BY <1>1, <1>2, <1>3, <1>4, <1>5, <1>6, <1>7, <1>8, <1>9, <1>10, <1>11, <1>12, <1>13
     DEF Reconcile
\* A write of the CR by the user: a generation that nobody has synced.
LEMMA UserWritesQueue ==
  ASSUME TypeOK, QueueInv, NEW new \in CRs, UserWrites(new), Sane(new), ~Fresh(new)
  PROVE  QueueInv'
<1>1. Store(new) /\ UNCHANGED <<pc, cr>> /\ KubeType
  BY DEF UserWrites, TypeOK
<1>2. SyncedLast' /\ \A i \in Indices' : Sane(versions'[i])
  BY <1>1, StoreQueue DEF QueueInv
<1>3. \A i \in Indices' : Fresh(versions'[i]) => i \in Indices /\ versions'[i] = versions[i]
  <2>1. Len(versions) \in Nat /\ Len(versions') = Len(versions) + 1
    BY <1>1, QueueFacts, StoreFacts
  <2>2. \A i \in Indices' : i \in Indices \/ i = Len(versions) + 1
    BY <2>1 DEF Indices
  <2> QED
    BY <1>1, <2>2, StoreFacts DEF Indices
<1>4. CopyFollows'
  BY <1>1, <1>3 DEF QueueInv, CopyFollows
<1>5. CopyAlone'
  BY DEF UserWrites, CopyAlone
<1>6. Unsynced'
  BY <1>1, <1>3 DEF QueueInv, Unsynced
<1> QED
  BY <1>1, <1>2, <1>4, <1>5, <1>6 DEF QueueInv, VersionsSane

\* A step that leaves the queue and the pass alone.
LEMMA FrameQueue == QueueInv /\ UNCHANGED <<versions, worker>> => QueueInv'
BY DEF QueueInv, VersionsSane, SyncedLast, CopyFollows, CopyAlone, Unsynced, Indices, worker

\* What the user and the outsiders do keeps the queue in order,
LEMMA OthersQueue == IInv /\ QueueInv /\ Others => QueueInv'
<1> SUFFICES ASSUME IInv, QueueInv, Others PROVE QueueInv'
  OBVIOUS
<1>1. TypeOK /\ Stored \in CRs /\ Sane(Stored)
  <2>1. Stored \in CRs /\ Len(versions) \in Indices
    BY QueueFacts DEF IInv, TypeOK, Indices
  <2> QED
    BY <2>1 DEF IInv, QueueInv, VersionsSane, Stored
<1>2. ASSUME NEW s \in Specs, Apply(s) PROVE QueueInv'
  <2> DEFINE new == [Gone(Stored.inc + 1) EXCEPT !.here = TRUE, !.gen = 1, !.spec = s]
  <2>1. Stored.inc + 1 \in Nat
    BY <1>1 DEF CRs
  <2>2. new \in CRs
    BY <2>1, GoneType, UserVersionType
  <2>3. Sane(new) /\ ~Fresh(new)
    BY DEF Gone, Sane, Fresh
  <2>4. UserWrites(new)
    BY <1>2 DEF Apply
  <2> HIDE DEF new
  <2> QED
    BY <1>1, <2>2, <2>3, <2>4, UserWritesQueue
<1>3. ASSUME NEW s \in Specs, Edit(s) PROVE QueueInv'
  <2> DEFINE new == [Stored EXCEPT !.spec = s, !.gen = @ + 1]
  <2>1. new \in CRs
    BY <1>1, UserVersionType
  <2>2. Sane(new) /\ ~Fresh(new)
    BY <1>1 DEF CRs, Sane, Fresh
  <2>3. UserWrites(new)
    BY <1>3 DEF Edit
  <2> HIDE DEF new
  <2> QED
    BY <1>1, <2>1, <2>2, <2>3, UserWritesQueue
<1>4. CASE Delete
  <2>1. CASE Stored.fin
    <3> DEFINE new == [Stored EXCEPT !.del = TRUE, !.gen = @ + 1]
    <3>1. new \in CRs
      BY <1>1, UserVersionType, SpecsAssumption
    <3>2. Sane(new) /\ ~Fresh(new)
      BY <1>1 DEF CRs, Sane, Fresh
    <3>3. UserWrites(new)
      BY <1>4, <2>1 DEF Delete
    <3> HIDE DEF new
    <3> QED
      BY <1>1, <3>1, <3>2, <3>3, UserWritesQueue
  <2>2. CASE ~Stored.fin
    <3> DEFINE new == Gone(Stored.inc)
    <3>1. new \in CRs /\ Sane(new) /\ ~Fresh(new)
      BY <1>1, GoneType DEF CRs, Gone, Sane, Fresh
    <3>2. UserWrites(new)
      BY <1>4, <2>2 DEF Delete
    <3> HIDE DEF new
    <3> QED
      BY <1>1, <3>1, <3>2, UserWritesQueue
  <2> QED
    BY <2>1, <2>2
<1>5. CASE UNCHANGED <<versions, worker>>
  BY <1>5, FrameQueue
<1> QED
  BY <1>2, <1>3, <1>4, <1>5
     DEF Others, ToggleAuthSecret, OutsideCreate, OutsideEdit, OutsideDelete, kube

\* as does the informer, which only forgets the oldest version,
LEMMA CacheSyncQueue == IInv /\ QueueInv /\ CacheSync => QueueInv'
<1> SUFFICES ASSUME IInv, QueueInv, CacheSync PROVE QueueInv'
  OBVIOUS
<1>1. /\ Len(versions) \in Nat /\ Len(versions) > 1
      /\ Len(versions') = Len(versions) - 1
      /\ \A i \in 1..Len(versions') : versions'[i] = versions[i + 1]
  BY DeliverFacts, QueueFacts DEF CacheSync, IInv, TypeOK
<1>2. UNCHANGED <<pc, cr, behind>>
  BY DEF CacheSync, worker
<1>3. \A i \in Indices' : i + 1 \in Indices /\ versions'[i] = versions[i + 1]
  BY <1>1 DEF Indices
<1>4. SyncedLast'
  <2> SUFFICES ASSUME NEW i \in Indices', NEW j \in Indices',
                      j <= i, Fresh(versions'[i])
               PROVE  SameSpec(versions'[i], versions'[j])
    BY DEF SyncedLast, Fresh, SameSpec
  <2>1. j + 1 <= i + 1
    BY DEF Indices
  <2> QED
    BY <1>3, <2>1 DEF QueueInv, SyncedLast
<1>5. VersionsSane' /\ CopyFollows'
  BY <1>2, <1>3 DEF QueueInv, VersionsSane, CopyFollows
<1>6. CopyAlone'
  BY <1>1, <1>2 DEF QueueInv, CopyAlone
<1>7. Unsynced'
  BY <1>2, <1>3 DEF QueueInv, Unsynced
<1> QED
  BY <1>4, <1>5, <1>6, <1>7 DEF QueueInv

\* and a crash, which leaves the stored version and no pass.
LEMMA CrashQueue == IInv /\ QueueInv /\ Crash => QueueInv'
<1> SUFFICES ASSUME IInv, QueueInv, Crash PROVE QueueInv'
  OBVIOUS
<1>1. Stored \in CRs /\ Len(versions) \in Indices
  BY QueueFacts DEF IInv, TypeOK, Indices
<1>2. Indices' = {1} /\ versions'[1] = Stored
  BY DEF Crash, Indices
<1>3. Sane(Stored)
  BY <1>1 DEF QueueInv, VersionsSane, Stored
<1>4. SyncedLast'
  BY <1>2 DEF SyncedLast, Fresh, SameSpec
<1> QED
  BY <1>2, <1>3, <1>4, EndPassQueue DEF Crash

\* QueueInv is inductive, given IInv.
LEMMA QueueStep == IInv /\ QueueInv /\ [Next]_vars => QueueInv'
<1>1. QueueInv /\ UNCHANGED vars => QueueInv'
  BY FrameQueue DEF vars, kube
<1> QED
  BY <1>1, ReconcileQueue, CacheSyncQueue, CrashQueue, OthersQueue DEF Next
-----------------------------------------------------------------------------
(* The client: TruthInv is inductive *)

\* With no CR there is nothing to be true to.
LEMMA InitTruth == Init => TruthInv
<1> SUFFICES ASSUME Init PROVE TruthInv
  OBVIOUS
<1>1. \A i \in Indices : versions[i] = Gone(0)
  BY DEF Init, Indices
<1>2. ~Fresh(Gone(0))
  BY DEF Gone, Fresh
<1> QED
  BY <1>1, <1>2 DEF Init, TruthInv, FreshTrue, CopyTrue, SyncTrue

\* A version is stored, and the client is left alone: only the new version is
\* left to be compared with it.
LEMMA StoreTruth ==
  ASSUME KubeType, TruthInv, NEW new \in CRs, Store(new), UNCHANGED <<live, touched>>,
         ~touched /\ Fresh(new) /\ ~new.del => Matches(new)
  PROVE  FreshTrue'
<1>1. Len(versions) \in Nat /\ Len(versions') = Len(versions) + 1
  BY QueueFacts, StoreFacts
<1>2. \A i \in Indices' : i \in Indices \/ i = Len(versions) + 1
  BY <1>1 DEF Indices
<1>3. SUFFICES ASSUME ~touched, NEW i \in Indices', Fresh(versions'[i]), ~versions'[i].del
               PROVE  live.here /\ live.want = versions'[i].spec.want
  BY DEF FreshTrue, Fresh, Matches
<1>4. CASE i \in Indices
  BY <1>3, <1>4, StoreFacts DEF TruthInv, FreshTrue, Matches, Indices
<1>5. CASE i = Len(versions) + 1
  BY <1>3, <1>5, StoreFacts DEF Matches
<1> QED
  BY <1>2, <1>3, <1>4, <1>5

\* A step that leaves queue and client alone disturbs nothing said of the two.
LEMMA StillTrue == TruthInv /\ UNCHANGED <<versions, live, touched>> => FreshTrue'
BY DEF TruthInv, FreshTrue, Matches, Indices

\* A returning pass says nothing any more.
LEMMA EndPassTruth == ASSUME EndPass, FreshTrue' PROVE TruthInv'
BY DEF EndPass, TruthInv, CopyTrue, SyncTrue

\* A status update: the new version is fresh only where the copy was, or where
\* the pass has just brought the client to it.
LEMMA StatusTruth ==
  ASSUME KubeType, TruthInv, EndPass, UNCHANGED <<live, touched>>, NEW new \in CRs,
         Store(new) \/ UNCHANGED versions, new.spec = cr.spec,
         ~touched /\ Fresh(new) /\ ~new.del => Matches(cr)
  PROVE  TruthInv'
<1>1. FreshTrue'
  BY StoreTruth, StillTrue DEF Matches
<1> QED
  BY <1>1, EndPassTruth

\* The pass moves on, and if it is about to report success, the client is as
\* its copy asks.
LEMMA MoveTruth ==
  ASSUME TruthInv, pc # "idle", UNCHANGED <<versions, live, touched, cr>>,
         ~touched /\ pc' \in {"secret", "synced"} => Matches(cr)
  PROVE  TruthInv'
<1>1. FreshTrue'
  BY StillTrue
<1>2. CopyTrue' /\ SyncTrue'
  BY DEF TruthInv, CopyTrue, SyncTrue, Matches, Fresh
<1> QED
  BY <1>1, <1>2 DEF TruthInv

\* The operator writes the client: every fresh version has the spec written.
LEMMA WrittenTruth ==
  ASSUME QueueInv, pc # "idle", UNCHANGED <<versions, cr>>,
         live'.here, live'.want = cr.spec.want
  PROVE  TruthInv'
<1>1. FreshTrue'
  BY DEF QueueInv, CopyFollows, SameSpec, FreshTrue, Fresh, Matches, Indices
<1>2. CopyTrue' /\ SyncTrue'
  BY DEF CopyTrue, SyncTrue, Matches
<1> QED
  BY <1>1, <1>2 DEF TruthInv

\* Every call of a pass keeps what the statuses say true.
LEMMA ReconcileTruth == IInv /\ QueueInv /\ TruthInv /\ Reconcile => TruthInv'
<1> SUFFICES ASSUME IInv, QueueInv, TruthInv, Reconcile PROVE TruthInv'
  OBVIOUS
<1>0. KubeType /\ AdminType /\ cr \in CRs /\ (pc # "idle" => cr.here)
  BY DEF IInv, TypeOK, WorkerType, PassKnows
<1>1. ASSUME NEW step \in {"auth", "fetch"}, ReadCached(step),
             UNCHANGED <<versions, live, touched>>
      PROVE  TruthInv'
  <2>1. FreshTrue'
    BY <1>1, StillTrue
  <2>2. cr' = versions[1] /\ 1 \in Indices /\ pc' = step
    BY <1>0, <1>1, QueueFacts DEF ReadCached, Indices
  <2>3. CopyTrue' /\ SyncTrue'
    BY <1>1, <2>2 DEF TruthInv, FreshTrue, CopyTrue, SyncTrue, Matches, Fresh
  <2> QED
    BY <2>1, <2>3 DEF TruthInv
<1>2. CASE GetCR
  BY <1>1, <1>2 DEF GetCR, kube, admin
<1>3. CASE ResolveAuth
  <2>1. UNCHANGED <<versions, live, touched>> /\ pc = "auth"
    BY <1>3 DEF ResolveAuth, kube, admin
  <2>2. EndPass \/ \E step \in {"autherr", "delete", "fetch", "guard"} : Goto(step)
    BY <1>3 DEF ResolveAuth
  <2> QED
    BY <2>1, <2>2, StillTrue, EndPassTruth, MoveTruth DEF Goto
<1>4. CASE Refetch
  <2>1. UNCHANGED <<versions, live, touched>>
    BY <1>4 DEF Refetch, kube, admin
  <2> QED
    BY <1>1, <1>4, <2>1, StillTrue, EndPassTruth DEF Refetch
<1>5. ASSUME NEW o \in Outcomes, AuthSecretError(o) PROVE TruthInv'
  <2> DEFINE new == [cr EXCEPT !.ready = "AuthSecretError"]
  <2>1. /\ new \in CRs /\ new.spec = cr.spec /\ new.del = cr.del
        /\ Fresh(new) = Fresh(cr)
    BY <1>0 DEF CRs, Readys, Fresh
  <2>2. EndPass /\ pc # "idle" /\ UNCHANGED <<live, touched>>
    BY <1>5 DEF AuthSecretError, UpdateStatus, admin
  <2>3. Store(new) \/ UNCHANGED versions
    BY <1>5 DEF AuthSecretError, UpdateStatus, kube
  <2> HIDE DEF new
  <2> QED
    BY <1>0, <2>1, <2>2, <2>3, StatusTruth DEF TruthInv, CopyTrue
<1>6. ASSUME NEW o \in Outcomes, DeleteRemote(o) PROVE TruthInv'
  <2>1. UNCHANGED versions /\ pc = "delete" /\ cr.del
    BY <1>6 DEF DeleteRemote, kube, IInv, PassKnows
  <2>2. FreshTrue'
    <3>1. \A i \in Indices : Fresh(versions[i]) => versions[i].del
      BY <2>1 DEF QueueInv, CopyFollows, SameSpec
    <3> QED
      BY <2>1, <3>1 DEF FreshTrue, Indices, Fresh
  <2>3. EndPass \/ (pc' = "release" /\ cr' = cr)
    BY <1>6 DEF DeleteRemote, Goto
  <2>4. CASE pc' = "release" /\ cr' = cr
    BY <2>1, <2>2, <2>4 DEF TruthInv, CopyTrue, SyncTrue
  <2> QED
    BY <2>2, <2>3, <2>4, EndPassTruth
<1>7. ASSUME NEW o \in Outcomes, RemoveFinalizer(o) PROVE TruthInv'
  <2>1. Gone(cr.inc) \in CRs /\ ~Fresh(Gone(cr.inc))
    BY <1>0, GoneType DEF CRs, Fresh
  <2>2. EndPass /\ UNCHANGED <<live, touched>>
    BY <1>7 DEF RemoveFinalizer, admin
  <2>3. Store(Gone(cr.inc)) \/ UNCHANGED versions
    BY <1>7 DEF RemoveFinalizer
  <2>4. FreshTrue'
    BY <1>0, <2>1, <2>2, <2>3, StoreTruth, StillTrue
  <2> QED
    BY <2>2, <2>4, EndPassTruth
<1>8. ASSUME NEW o \in Outcomes, AddFinalizer(o) PROVE TruthInv'
  <2> DEFINE new == [cr EXCEPT !.fin = TRUE]
  <2>1. pc = "guard" /\ ~Fresh(cr) /\ UNCHANGED <<live, touched>>
    BY <1>8 DEF AddFinalizer, admin, QueueInv, Unsynced
  <2>2. new \in CRs /\ ~Fresh(new)
    BY <1>0, <2>1 DEF CRs, Fresh
  <2>3. /\ Store(new) \/ UNCHANGED versions
        /\ EndPass \/ (pc' = "refetch" /\ cr' = new)
    BY <1>8 DEF AddFinalizer
  <2> HIDE DEF new
  <2>4. FreshTrue'
    BY <1>0, <2>1, <2>2, <2>3, StoreTruth, StillTrue
  <2>5. CASE pc' = "refetch" /\ cr' = new
    BY <2>2, <2>4, <2>5 DEF TruthInv, CopyTrue, SyncTrue, Fresh
  <2> QED
    BY <2>3, <2>4, <2>5, EndPassTruth
<1>9. ASSUME NEW o \in Outcomes, FetchClient(o) PROVE TruthInv'
  <2>1. pc = "fetch" /\ UNCHANGED <<versions, live, touched, cr>>
    BY <1>9 DEF FetchClient, Goto, kube, admin
  <2>2. \/ pc' \in {"failed", "create", "patch"}
        \/ live.here /\ ClientUpToDate(live, cr.spec)
    BY <1>9 DEF FetchClient, Goto
  <2> QED
    BY <2>1, <2>2, MoveTruth DEF ClientUpToDate, Matches
<1>10. ASSUME NEW o \in Outcomes, CreateClient(o) PROVE TruthInv'
  <2>1. pc = "create" /\ UNCHANGED <<versions, cr>>
    BY <1>10 DEF CreateClient, Goto, kube
  <2>2. CASE Applied(o) /\ ~live.here
    BY <1>10, <2>1, <2>2, WrittenTruth DEF CreateClient
  <2>3. CASE ~(Applied(o) /\ ~live.here)
    BY <1>10, <2>1, <2>3, MoveTruth DEF CreateClient, Goto, admin, Applied
  <2> QED
    BY <2>2, <2>3
<1>11. ASSUME NEW o \in Outcomes, UpdateClient(o) PROVE TruthInv'
  <2>1. pc = "patch" /\ UNCHANGED <<versions, cr>>
    BY <1>11 DEF UpdateClient, Goto, kube
  <2>2. CASE Applied(o) /\ live.here
    <3>1. live \in Clients
      BY <1>0, <2>2 DEF AdminType, NoClient
    <3>2. live' = [live EXCEPT !.want = cr.spec.want, !.resp = cr.spec.resp,
                               !.by = "operator"]
      BY <1>11, <2>2 DEF UpdateClient
    <3>3. live'.here /\ live'.want = cr.spec.want
      BY <3>1, <3>2 DEF Clients
    <3> QED
      BY <2>1, <3>3, WrittenTruth
  <2>3. CASE ~(Applied(o) /\ live.here)
    BY <1>11, <2>1, <2>3, MoveTruth DEF UpdateClient, Goto, Applied
  <2> QED
    BY <2>2, <2>3
<1>12. ASSUME NEW o \in Outcomes, WriteClientSecret(o) PROVE TruthInv'
  <2>1. pc = "secret" /\ UNCHANGED <<versions, live, touched>>
    BY <1>12 DEF WriteClientSecret, admin
  <2>2. EndPass \/ (pc' = "synced" /\ cr' = cr)
    BY <1>12 DEF WriteClientSecret, Goto
  <2> QED
    BY <2>1, <2>2, StillTrue, EndPassTruth, MoveTruth DEF TruthInv, SyncTrue
<1>13. ASSUME NEW o \in Outcomes, ReportSynced(o) PROVE TruthInv'
  <2> DEFINE new == [cr EXCEPT !.obs = cr.gen, !.ready = "True",
                       !.synced = IF drifted THEN "DriftCorrected" ELSE "Synced"]
  <2>1. new \in CRs /\ new.spec = cr.spec
    BY <1>0 DEF CRs, Readys, Synceds
  <2>2. EndPass /\ pc = "synced" /\ UNCHANGED <<live, touched>>
    BY <1>13 DEF ReportSynced, UpdateStatus, admin
  <2>3. Store(new) \/ UNCHANGED versions
    BY <1>13 DEF ReportSynced, UpdateStatus
  <2> HIDE DEF new
  <2> QED
    BY <1>0, <2>1, <2>2, <2>3, StatusTruth DEF TruthInv, SyncTrue
<1>14. ASSUME NEW o \in Outcomes, ReportError(o) PROVE TruthInv'
  <2> DEFINE new == [cr EXCEPT !.ready = "ReconcileError", !.synced = "ReconcileError"]
  <2>1. /\ new \in CRs /\ new.spec = cr.spec /\ new.del = cr.del
        /\ Fresh(new) = Fresh(cr)
    BY <1>0 DEF CRs, Readys, Synceds, Fresh
  <2>2. EndPass /\ pc # "idle" /\ UNCHANGED <<live, touched>>
    BY <1>14 DEF ReportError, UpdateStatus, admin
  <2>3. Store(new) \/ UNCHANGED versions
    BY <1>14 DEF ReportError, UpdateStatus, kube
  <2> HIDE DEF new
  <2> QED
    BY <1>0, <2>1, <2>2, <2>3, StatusTruth DEF TruthInv, CopyTrue
<1> QED
  BY <1>2, <1>3, <1>4, <1>5, <1>6, <1>7, <1>8, <1>9, <1>10, <1>11, <1>12, <1>13, <1>14
     DEF Reconcile

\* The user stores a generation nobody synced.
LEMMA UserWritesTruth ==
  ASSUME KubeType, TruthInv, NEW new \in CRs, UserWrites(new), ~Fresh(new)
  PROVE  TruthInv'
<1>1. Store(new) /\ UNCHANGED <<pc, cr, live, touched>>
  BY DEF UserWrites, admin
<1>2. FreshTrue'
  BY <1>1, StoreTruth
<1> QED
  BY <1>1, <1>2 DEF TruthInv, CopyTrue, SyncTrue, Matches

\* An outsider who writes the client is known to have done so.
LEMMA OthersTruth == IInv /\ QueueInv /\ TruthInv /\ Others => TruthInv'
<1> SUFFICES ASSUME IInv, QueueInv, TruthInv, Others PROVE TruthInv'
  OBVIOUS
<1>1. KubeType /\ Stored \in CRs /\ Sane(Stored)
  <2>1. KubeType /\ Stored \in CRs /\ Len(versions) \in Indices
    BY QueueFacts DEF IInv, TypeOK, Indices
  <2> QED
    BY <2>1 DEF QueueInv, VersionsSane, Stored
<1>2. ASSUME NEW s \in Specs, Apply(s) PROVE TruthInv'
  <2> DEFINE new == [Gone(Stored.inc + 1) EXCEPT !.here = TRUE, !.gen = 1, !.spec = s]
  <2>1. Stored.inc + 1 \in Nat
    BY <1>1 DEF CRs
  <2>2. new \in CRs
    BY <2>1, GoneType, UserVersionType
  <2>3. ~Fresh(new)
    BY DEF Gone, Fresh
  <2>4. UserWrites(new)
    BY <1>2 DEF Apply
  <2> HIDE DEF new
  <2> QED
    BY <1>1, <2>2, <2>3, <2>4, UserWritesTruth
<1>3. ASSUME NEW s \in Specs, Edit(s) PROVE TruthInv'
  <2> DEFINE new == [Stored EXCEPT !.spec = s, !.gen = @ + 1]
  <2>1. new \in CRs /\ UserWrites(new)
    BY <1>1, <1>3, UserVersionType DEF Edit
  <2>2. ~Fresh(new)
    BY <1>1 DEF CRs, Sane, Fresh
  <2> HIDE DEF new
  <2> QED
    BY <1>1, <2>1, <2>2, UserWritesTruth
<1>4. CASE Delete
  <2>1. CASE Stored.fin
    <3> DEFINE new == [Stored EXCEPT !.del = TRUE, !.gen = @ + 1]
    <3>1. new \in CRs /\ UserWrites(new)
      BY <1>1, <1>4, <2>1, UserVersionType, SpecsAssumption DEF Delete
    <3>2. ~Fresh(new)
      BY <1>1 DEF CRs, Sane, Fresh
    <3> HIDE DEF new
    <3> QED
      BY <1>1, <3>1, <3>2, UserWritesTruth
  <2>2. CASE ~Stored.fin
    <3>1. Gone(Stored.inc) \in CRs /\ ~Fresh(Gone(Stored.inc))
      BY <1>1, GoneType DEF CRs, Fresh
    <3>2. UserWrites(Gone(Stored.inc))
      BY <1>4, <2>2 DEF Delete
    <3> QED
      BY <1>1, <3>1, <3>2, UserWritesTruth
  <2> QED
    BY <2>1, <2>2
<1>5. CASE ToggleAuthSecret
  BY <1>5 DEF ToggleAuthSecret, admin, worker,
              TruthInv, FreshTrue, CopyTrue, SyncTrue, Matches, Indices
<1>6. CASE touched'
  BY <1>6 DEF TruthInv, FreshTrue, CopyTrue, SyncTrue
<1> QED
  BY <1>2, <1>3, <1>4, <1>5, <1>6 DEF Others, OutsideCreate, OutsideEdit, OutsideDelete

\* TruthInv is inductive, given IInv and QueueInv.
LEMMA TruthStep == IInv /\ QueueInv /\ TruthInv /\ [Next]_vars => TruthInv'
<1> SUFFICES ASSUME IInv, QueueInv, TruthInv, [Next]_vars PROVE TruthInv'
  OBVIOUS
<1>1. CASE CacheSync
  <2>1. /\ Len(versions) \in Nat /\ Len(versions') = Len(versions) - 1
        /\ \A i \in 1..Len(versions') : versions'[i] = versions[i + 1]
    BY <1>1, DeliverFacts, QueueFacts DEF CacheSync, IInv, TypeOK
  <2>2. \A i \in Indices' : i + 1 \in Indices /\ versions'[i] = versions[i + 1]
    BY <2>1 DEF Indices
  <2>3. UNCHANGED <<pc, cr, live, touched>>
    BY <1>1 DEF CacheSync, admin, worker
  <2> QED
    BY <2>2, <2>3 DEF TruthInv, FreshTrue, CopyTrue, SyncTrue, Matches
<1>2. CASE Crash
  <2>1. Len(versions) \in Indices
    BY QueueFacts DEF IInv, TypeOK, Indices
  <2>2. /\ Indices' = {1} /\ versions'[1] = versions[Len(versions)]
        /\ UNCHANGED <<live, touched>> /\ EndPass
    BY <1>2 DEF Crash, Indices, Stored, admin
  <2>3. FreshTrue'
    BY <2>1, <2>2 DEF TruthInv, FreshTrue, Matches
  <2> QED
    BY <2>2, <2>3, EndPassTruth
<1>3. CASE UNCHANGED vars
  BY <1>3 DEF vars, kube, admin, worker, TruthInv, FreshTrue, CopyTrue, SyncTrue,
              Matches, Indices
<1> QED
  BY <1>1, <1>2, <1>3, ReconcileTruth, OthersTruth DEF Next
-----------------------------------------------------------------------------
(* The secret: SecretInv is inductive *)

\* A call leaves no more faults than there were, and as many only if it was
\* answered.
LEMMA CallFaults ==
  ASSUME BudgetType, NEW o, Call(o), faults <= MaxFaults
  PROVE  /\ faults' <= MaxFaults
         /\ faults' = MaxFaults => faults = MaxFaults /\ o = "ok"
BY BoundsAssumption DEF BudgetType, Call

\* A step that leaves the client and the Secret alone, and does not turn to or
\* from the call that writes the Secret.
LEMMA SecretFrame ==
  ASSUME SecretInv, UNCHANGED <<live, kept>>, faults' <= MaxFaults,
         faults' = MaxFaults =>
           /\ faults = MaxFaults
           /\ (pc' = "secret") = (pc = "secret")
           /\ pc = "secret" => secret' = secret
  PROVE  SecretInv'
BY DEF SecretInv

\* Every step keeps it: only Create makes a client for a Secret, and the pass
\* that got its answer can be stopped on the way to the Secret by a fault only.
LEMMA SecretStep == TypeOK /\ SecretInv /\ [Next]_vars => SecretInv'
<1> SUFFICES ASSUME TypeOK, SecretInv, [Next]_vars PROVE SecretInv'
  OBVIOUS
<1>0. AdminType /\ BudgetType /\ faults <= MaxFaults
  BY DEF TypeOK, SecretInv
<1>1. ASSUME UNCHANGED <<kube, admin, faults>>, pc # "secret", pc' # "secret"
      PROVE  SecretInv'
  BY <1>0, <1>1, SecretFrame DEF kube, admin
<1>2. CASE GetCR \/ ResolveAuth \/ Refetch
  BY <1>1, <1>2 DEF GetCR, ResolveAuth, Refetch, ReadCached, Goto, EndPass
<1>3. ASSUME NEW o \in Outcomes,
             AuthSecretError(o) \/ RemoveFinalizer(o) \/ AddFinalizer(o) \/ FetchClient(o)
               \/ ReportSynced(o) \/ ReportError(o)
      PROVE  SecretInv'
  <2>1. UNCHANGED <<live, kept>> /\ pc # "secret" /\ pc' # "secret"
    BY <1>3 DEF AuthSecretError, RemoveFinalizer, AddFinalizer, FetchClient, ReportSynced,
                ReportError, UpdateStatus, Goto, EndPass, kube, admin
  <2>2. Call(o) \/ UNCHANGED faults
    BY <1>3 DEF AuthSecretError, RemoveFinalizer, AddFinalizer, FetchClient, ReportSynced,
                ReportError, UpdateStatus
  <2> QED
    BY <1>0, <2>1, <2>2, CallFaults, SecretFrame
<1>4. ASSUME NEW o \in Outcomes, DeleteRemote(o) PROVE SecretInv'
  <2>1. /\ UNCHANGED kept /\ Call(o) /\ pc = "delete" /\ pc' # "secret"
        /\ live' = NoClient \/ live' = live
    BY <1>4 DEF DeleteRemote, Goto, EndPass, kube
  <2> QED
    BY <1>0, <2>1, CallFaults DEF SecretInv, NoClient
<1>5. ASSUME NEW o \in Outcomes, CreateClient(o) PROVE SecretInv'
  <2>1. UNCHANGED kept /\ Call(o) /\ pc = "create"
    BY <1>5 DEF CreateClient, kube
  <2>2. CASE Applied(o) /\ ~live.here
    <3>1. live'.sec = issued' /\ live'.asked = cr.spec.ref
      BY <1>5, <2>2 DEF CreateClient
    <3>2. o = "ok" => secret' = issued' /\ (cr.spec.ref => pc' = "secret")
      BY <1>5, <2>2 DEF CreateClient
    <3> QED
      BY <1>0, <2>1, <3>1, <3>2, CallFaults DEF SecretInv
  <2>3. CASE ~(Applied(o) /\ ~live.here)
    <3>1. UNCHANGED live /\ pc' = "failed"
      BY <1>5, <2>3 DEF CreateClient, Applied, Goto, admin
    <3> QED
      BY <1>0, <2>1, <3>1, CallFaults, SecretFrame
  <2> QED
    BY <2>2, <2>3
<1>6. ASSUME NEW o \in Outcomes, UpdateClient(o) PROVE SecretInv'
  <2>1. UNCHANGED kept /\ Call(o) /\ pc = "patch" /\ pc' # "secret"
    BY <1>6 DEF UpdateClient, Goto, kube
  <2>2. /\ live'.here => live.here
        /\ live'.here => live'.sec = live.sec /\ live'.asked = live.asked
    <3>1. CASE live' = live
      BY <3>1
    <3>2. CASE live' # live
      <4>1. live \in Clients
        BY <1>0, <1>6, <3>2 DEF UpdateClient, AdminType, NoClient
      <4>2. live.here /\ live' = [live EXCEPT !.want = cr.spec.want, !.resp = cr.spec.resp,
                                              !.by = "operator"]
        BY <1>6, <3>2 DEF UpdateClient
      <4> QED
        BY <4>1, <4>2 DEF Clients
    <3> QED
      BY <3>1, <3>2
  <2> QED
    BY <1>0, <2>1, <2>2, CallFaults DEF SecretInv
<1>7. ASSUME NEW o \in Outcomes, WriteClientSecret(o) PROVE SecretInv'
  <2>1. UNCHANGED live /\ Call(o) /\ pc = "secret"
    BY <1>7 DEF WriteClientSecret, admin
  <2>2. o = "ok" => kept' = secret /\ pc' = "synced"
    BY <1>7 DEF WriteClientSecret, Applied, Goto
  <2> QED
    BY <1>0, <2>1, <2>2, CallFaults DEF SecretInv
<1>8. CASE Crash
  <2>1. faults' = faults - 1 /\ faults \in Nat /\ MaxFaults \in Nat
    BY <1>0, <1>8, BoundsAssumption DEF Crash, BudgetType
  <2>2. faults' <= MaxFaults /\ faults' # MaxFaults
    BY <1>0, <2>1
  <2> QED
    BY <1>8, <2>2, SecretFrame DEF Crash, admin
<1>9. ASSUME UNCHANGED <<live, kept, faults, pc, secret>> PROVE SecretInv'
  BY <1>0, <1>9, SecretFrame
<1>10. CASE CacheSync \/ UNCHANGED vars
  BY <1>9, <1>10 DEF CacheSync, vars, kube, admin, worker
<1>11. CASE Others
  <2>1. UNCHANGED <<kept, faults, pc, secret>>
    BY <1>11 DEF Others, Apply, Edit, Delete, UserWrites, ToggleAuthSecret,
                 OutsideCreate, OutsideEdit, OutsideDelete, kube, worker
  <2>2. live'.here /\ live'.asked => live.here /\ live.asked /\ live'.sec = live.sec
    <3>1. CASE UNCHANGED live
      BY <3>1
    <3>2. ASSUME NEW w \in Values, NEW r \in Responses, OutsideCreate(w, r)
          PROVE  ~live'.asked
      BY <3>2 DEF OutsideCreate
    <3>3. ASSUME NEW w \in Values, NEW r \in Responses, OutsideEdit(w, r)
          PROVE  live.here /\ live'.asked = live.asked /\ live'.sec = live.sec
      <4>1. live.here /\ live' = [live EXCEPT !.want = w, !.resp = r]
        BY <3>3 DEF OutsideEdit
      <4>2. live \in Clients
        BY <1>0, <4>1 DEF AdminType, NoClient
      <4> QED
        BY <4>1, <4>2 DEF Clients
    <3>4. CASE OutsideDelete
      BY <3>4 DEF OutsideDelete, NoClient
    <3> QED
      BY <1>11, <3>1, <3>2, <3>3, <3>4
         DEF Others, Apply, Edit, Delete, UserWrites, ToggleAuthSecret, admin
  <2> QED
    BY <2>1, <2>2 DEF SecretInv
<1> QED
  BY <1>2, <1>3, <1>4, <1>5, <1>6, <1>7, <1>8, <1>10, <1>11 DEF Next, Reconcile

-----------------------------------------------------------------------------
(* The theorems *)

\* SInv is inductive.
THEOREM StatusInductive == SInv /\ [Next]_vars => SInv'
BY Inductive, QueueStep, TruthStep, SecretStep DEF SInv, IInv

\* It holds of every state a behaviour reaches.
LEMMA StatusInvariant == Spec => []SInv
<1>1. Init => SInv
  <2> SUFFICES ASSUME Init PROVE SInv
    OBVIOUS
  <2>1. SecretInv
    BY BoundsAssumption DEF Init, SecretInv, NoClient
  <2> QED
    BY <2>1, InitType, InitInv, InitQueue, InitTruth DEF SInv, IInv, Inv
<1> QED
  BY <1>1, StatusInductive, PTL DEF Spec

\* observedGeneration = generation is the truth: unless an outsider wrote the
\* client since, it exists with the fields of the stored spec.  No pass with an
\* older spec, none that failed half way, can write it after the report.
THEOREM SyncedTrue == Spec => []SyncedTruth
<1>1. SInv => SyncedTruth
  <2> SUFFICES ASSUME SInv, Stored.here, ~Stored.del, Stored.obs = Stored.gen, ~touched
               PROVE  live.here /\ live.want = Stored.spec.want
    BY DEF SyncedTruth
  <2>1. Len(versions) \in Indices
    BY QueueFacts DEF SInv, IInv, TypeOK, Indices
  <2> QED
    BY <2>1 DEF SInv, TruthInv, FreshTrue, Fresh, Matches, Stored
<1> QED
  BY <1>1, StatusInvariant, PTL

\* A DriftDetected Event is raised only when somebody other than the operator
\* wrote the client after the operator did: a patch whose reply was lost, a
\* status that was refused or a crash are never reported as drift.
THEOREM HonestDrift == Spec => DriftHonest
<1> DEFINE Honest == drifted' /\ ~drifted => touched
<1>1. SInv /\ [Next]_vars => [Honest]_vars
  <2> SUFFICES ASSUME SInv, Next, drifted', ~drifted PROVE touched
    OBVIOUS
  <2>1. PICK o \in Outcomes : FetchClient(o)
    BY DEF Next, Reconcile, GetCR, ResolveAuth, Refetch, ReadCached, AuthSecretError,
           DeleteRemote, RemoveFinalizer, AddFinalizer, CreateClient, UpdateClient,
           WriteClientSecret, ReportSynced, ReportError, Goto, EndPass, CacheSync, Crash,
           Others, Apply, Edit, Delete, UserWrites, ToggleAuthSecret, OutsideCreate,
           OutsideEdit, OutsideDelete, worker
  <2>2. pc = "fetch" /\ live.here /\ ~ClientUpToDate(live, cr.spec) /\ cr.obs = cr.gen
    BY <2>1 DEF FetchClient, Goto
  <2>3. cr.here
    BY <2>2 DEF SInv, IInv, PassKnows
  <2>4. Fresh(cr) /\ ~cr.del
    BY <2>2, <2>3 DEF SInv, QueueInv, Unsynced, Fresh
  <2> QED
    BY <2>2, <2>4 DEF SInv, TruthInv, CopyTrue, Matches, ClientUpToDate
<1> QED
  BY <1>1, StatusInvariant, PTL DEF Spec, DriftHonest

\* As long as nothing failed, the Secret of a Ready CR holds the secret of the
\* client the operator created to fill it, whoever deletes the client or edits
\* the CR, and however stale the pass's copy is.
THEOREM SecretSafe == Spec => []SecretKeptWithoutFaults
<1>1. SInv => SecretKeptWithoutFaults
  BY DEF SInv, SecretInv, SecretKeptWithoutFaults, SecretKept
<1> QED
  BY <1>1, StatusInvariant, PTL
=============================================================================
