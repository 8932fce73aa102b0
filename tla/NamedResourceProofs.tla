------------------------ MODULE NamedResourceProofs ------------------------
(***************************************************************************)
(* Safety of the controllers that find their resource by a key, for any    *)
(* CRs, keys and specs, any of the four kinds, and any number of faults    *)
(* and of steps of the users and of outsiders: the types, no orphan, no    *)
(* second resource, the true status and the honest drift Event.            *)
(***************************************************************************)
EXTENDS NamedResource, TLAPS

Running == pc # "idle"
Finalizing == pc \in {"lookup", "delete", "release"}
Working == pc \in {"refetch", "find", "create", "patch", "synced"}

\* A generation is observed after it was made; only a guarded CR can be marked
\* for deletion.
StoredSane ==
  \A c \in CRs : crs[c].obs <= crs[c].gen /\ (crs[c].del => crs[c].fin)

\* A resource a CR wrote bears the CR's key, and the CR is stored and guarded.
StampKey ==
  \A c \in CRs : \A r \in Stamped(c) :
    \/ crs[c].here /\ crs[c].fin /\ r.key = crs[c].spec.key
    \/ c \in rekeyed \/ Doubled(r.key)

\* What a CR wrote is what the spec says.
Agrees(c, spec) ==
  \A r \in Stamped(c) : UpToDate(r, spec) \/ c \in rekeyed \/ Doubled(r.key)

\* A CR whose generation was in sync has written nothing else since.
StampTrue ==
  \A c \in CRs :
    crs[c].here /\ crs[c].obs = crs[c].gen /\ Whole(crs[c].spec) => Agrees(c, crs[c].spec)

\* One of those FirstWithKey may find.
Candidate(r, k) == r \in live /\ r.key = k

\* Matched, in the terms of the comparison.
InPlace(spec) == \E r \in live : Candidate(r, spec.key) /\ UpToDate(r, spec)

\* SyncedTruth, in the same terms.
StatusTrue ==
  \A c \in CRs :
    LET s == crs[c] IN
      s.here /\ ~s.del /\ s.ready = "True" /\ s.obs = s.gen /\ Whole(s.spec) /\ c \notin changed
      => InPlace(s.spec)

Server == StoredSane /\ NoDouble /\ StampKey /\ StampTrue /\ StatusTrue

\* What a pass may rely on of its copy: the stored CR is the same unless the
\* copy is behind, and keeps the finalizer, the key and the deletion mark.
Copied ==
  Running =>
    /\ cr.here /\ cr.obs <= cr.gen
    /\ cr.del => cr.fin /\ crs[at].del
    /\ ~behind => cr = crs[at]
    /\ cr.fin => /\ crs[at].here /\ crs[at].fin
                 /\ at \in rekeyed \/ crs[at].spec.key = cr.spec.key

\* What the steps of a pass know.
Knows ==
  /\ Finalizing => cr.del
  /\ Finalizing \/ Working => cr.fin

\* A generation in sync is the one the pass works for, written under it or not.
SpecKept ==
  Running /\ crs[at].here => crs[at].obs < crs[at].gen \/ crs[at].spec = cr.spec

\* A change under the pass is one no status knows of.
CalmKnown == Running /\ ~calm => changed = CRs

\* What a CR wrote agrees with a copy whose generation was in sync.
CopyAgrees ==
  Running /\ cr.obs = cr.gen /\ Whole(cr.spec) => Agrees(at, cr.spec)

OfKey == {r \in live : r.key = cr.spec.key}
Written == {r \in OfKey : r.by # Other}

\* What the pass found stays so, but for what outsiders do.
Sought ==
  /\ pc = "create" =>
       /\ Unique \/ \A r \in OfKey : Doubled(r.key)
       /\ calm => OfKey = {}
  /\ pc \in {"patch", "delete"} => \A r \in live : r.id = found => r.key = cr.spec.key
  /\ pc = "patch" /\ calm => \E r \in live : Candidate(r, cr.spec.key) /\ r.id = found
  /\ pc = "delete" => \A r \in Written : r.id = found \/ Doubled(r.key)
  /\ pc = "release" => \A r \in Written : Doubled(r.key)
  /\ pc = "synced" /\ Whole(cr.spec) =>
       /\ Agrees(at, cr.spec)
       /\ calm => InPlace(cr.spec)

PassInv ==
  Copied /\ Knows /\ SpecKept /\ CalmKnown /\ CopyAgrees /\ Sought /\ DriftHonest

\* What the theorems rest on: the server's part holds whatever a pass does, the
\* pass's part is what it may assume of the server at each of its calls.
IInv == TypeOK /\ Server /\ PassInv

-----------------------------------------------------------------------------
(* The listing                                                             *)

\* The resources' IDs, whatever else holds.
Numbered ==
  /\ last \in Nat
  /\ \A r \in live : r.id \in 1..last
  /\ \A r, s \in live : r.id = s.id => r = s

\* What the listing comes to: no resource of the key, or one of them.
FirstFact ==
  \A k : \A i \in FirstWithKey(k) :
    \/ i = 0 /\ \A r \in live : r.key # k
    \/ i \in 1..last /\ \E r \in live : Candidate(r, k) /\ r.id = i

\* FirstWithKey finds a resource of a key if there is one.
LEMMA FirstIs == Numbered => FirstFact
<1> SUFFICES ASSUME Numbered, NEW k, NEW i \in FirstWithKey(k)
             PROVE  \/ i = 0 /\ \A r \in live : r.key # k
                    \/ i \in 1..last /\ \E r \in live : Candidate(r, k) /\ r.id = i
  BY DEF FirstFact
<1> DEFINE T == {r.id : r \in {x \in live : x.key = k}}
<1>1. i \in IF T = {} THEN {0} ELSE T
  BY DEF FirstWithKey, OrNone
<1>2. CASE T = {}
  BY <1>1, <1>2
<1>3. CASE T # {}
  <2>1. PICK r \in live : r.key = k /\ r.id = i
    BY <1>1, <1>3
  <2> QED
    BY <2>1 DEF Numbered, Candidate
<1> QED
  BY <1>2, <1>3

\* InPlace is Matched.
LEMMA MatchedIs ==
  ASSUME NEW spec, InPlace(spec)
  PROVE  Matched(spec)
  BY DEF InPlace, Matched, UpToDate, Candidate

\* The ids of the resources are positive.
LEMMA TypesNumbered == TypeOK => Numbered
  BY DEF TypeOK, Numbered, Resources

-----------------------------------------------------------------------------
(* Types                                                                   *)

\* A CR that is not there is a CR, without mark, finalizer or generation.
LEMMA GoneType == Gone \in CRType /\ ~Gone.here /\ ~Gone.del /\ ~Gone.fin /\ Gone.gen = 0 /\ Gone.obs = 0
<1>1. (CHOOSE s \in Specs : TRUE) \in Specs
  BY SpecsAssumption
<1> QED
  BY <1>1 DEF Gone, Fresh, CRType, Readys, Synceds

\* A CR just applied has its first generation, not yet observed.
LEMMA FreshType ==
  ASSUME NEW spec \in Specs
  PROVE  /\ Fresh(spec) \in CRType /\ Fresh(spec).here /\ Fresh(spec).spec = spec
         /\ Fresh(spec).gen = 1 /\ Fresh(spec).obs = 0
         /\ ~Fresh(spec).fin /\ ~Fresh(spec).del
  BY DEF Fresh, CRType, Readys, Synceds

\* The versions of the CR the pass may write, from its copy.
LEMMA WrittenTypes ==
  ASSUME cr \in CRType
  PROVE  /\ [cr EXCEPT !.ready = "AuthSecretError"] \in CRType
         /\ [cr EXCEPT !.ready = "ReconcileError", !.synced = "ReconcileError"] \in CRType
         /\ \A s \in Synceds : [cr EXCEPT !.obs = cr.gen, !.ready = "True", !.synced = s] \in CRType
         /\ [cr EXCEPT !.fin = TRUE] \in CRType
  BY DEF CRType, Readys, Synceds

\* The type invariant by what it is about.
AdminOK ==
  /\ live \subseteq Resources /\ last \in 0..MaxId
  /\ \A r, s \in live : r.id = s.id => r = s
  /\ \A r \in live : r.id <= last

PassOK ==
  /\ pc \in Steps
  /\ at \in CRs \cup {Other} /\ (at = Other) = (pc = "idle")
  /\ cr \in CRType
  /\ found \in 0..last /\ (pc \in {"patch", "delete"} => found # 0)

StoreOK ==
  /\ kind \in Kinds
  /\ crs \in [CRs -> CRType]
  /\ secrets \subseteq Secrets

RestOK ==
  /\ outside \subseteq Keys /\ rekeyed \subseteq CRs /\ changed \subseteq CRs /\ calm \in BOOLEAN
  /\ behind \in BOOLEAN /\ drifted \in BOOLEAN
  /\ user \in Nat /\ faults \in Nat

\* TypeOK in the parts that different steps touch,
LEMMA TypesAre == TypeOK <=> AdminOK /\ PassOK /\ StoreOK /\ RestOK
  BY DEF TypeOK, AdminOK, PassOK, StoreOK, RestOK

\* in the next state too.
LEMMA TypesAreNext == TypeOK' <=> AdminOK' /\ PassOK' /\ StoreOK' /\ RestOK'
  BY TypesAre, PTL

\* A call leaves a natural number of faults.
LEMMA CallTypes ==
  ASSUME faults \in Nat, NEW o, Call(o)
  PROVE  faults' \in Nat
  BY DEF Call

\* The resources stay typed when nobody touches them,
LEMMA AdminIdle ==
  ASSUME AdminOK, UNCHANGED admin
  PROVE  AdminOK'
  BY DEF AdminOK, admin

\* when some go,
LEMMA AdminShrinks ==
  ASSUME AdminOK, live' \subseteq live, UNCHANGED last
  PROVE  AdminOK'
  BY DEF AdminOK

\* and when one is created.
LEMMA AdminGrows ==
  ASSUME AdminOK, NEW k \in Keys, NEW body \in Bodies, NEW on \in BOOLEAN,
         NEW by \in CRs \cup {Other}, Add(k, body, on, by)
  PROVE  AdminOK' /\ last' = last + 1
<1> DEFINE r == [id |-> last + 1, key |-> k, body |-> body, on |-> on, by |-> by]
<1>1. /\ last \in Nat /\ MaxId \in Nat /\ last < MaxId /\ last' = last + 1
      /\ live' = live \cup {r}
  BY BoundsAssumption DEF AdminOK, Add
<1>2. r \in Resources /\ r.id = last + 1
  BY <1>1 DEF Resources
<1>3. \A s \in live : s.id \in Nat /\ s.id <= last
  BY DEF AdminOK, Resources
<1> HIDE DEF r
<1> QED
  BY <1>1, <1>2, <1>3 DEF AdminOK

\* A pass that returns leaves its variables typed.
LEMMA EndPassTypes ==
  ASSUME EndPass, last' \in Nat
  PROVE  PassOK' /\ calm' \in BOOLEAN /\ behind' \in BOOLEAN /\ drifted' \in BOOLEAN
<1>1. /\ pc' = "idle" /\ at' = Other /\ cr' \in CRType /\ found' = 0
      /\ calm' = FALSE /\ behind' = FALSE /\ drifted' = FALSE
  BY GoneType DEF EndPass
<1>2. pc' \in Steps /\ 0 \in 0..last'
  BY <1>1 DEF Steps
<1> QED
  BY <1>1, <1>2 DEF PassOK

\* So does one that goes on to another call,
LEMMA GotoTypes ==
  ASSUME PassOK, NEW step \in Steps \ {"idle", "patch", "delete"}, Goto(step), pc # "idle",
         UNCHANGED last
  PROVE  PassOK' /\ UNCHANGED held
  BY DEF PassOK, Goto, held

\* and one that writes the CR.
LEMMA WriteTypes ==
  ASSUME AdminOK, StoreOK, RestOK, at \in CRs, NEW o \in Outcomes, NEW new \in CRType, Write(o, new)
  PROVE  /\ AdminOK' /\ StoreOK' /\ UNCHANGED <<outside, rekeyed, user>> /\ faults' \in Nat
         /\ last' \in Nat /\ UNCHANGED last
<1>1. crs' \in [CRs -> CRType] /\ UNCHANGED <<kind, secrets, live, last, outside, rekeyed, user>>
  BY DEF Write, StoreOK, admin
<1>2. faults' \in Nat
  BY CallTypes DEF Write, RestOK
<1> QED
  BY <1>1, <1>2, AdminIdle DEF StoreOK, admin, AdminOK

\* The initial state is typed.
LEMMA InitTypes == Init => TypeOK
<1> SUFFICES ASSUME Init PROVE TypeOK
  OBVIOUS
<1>1. MaxId \in Nat /\ MaxUser \in Nat /\ MaxFaults \in Nat
  BY BoundsAssumption
<1>2. AdminOK
  BY <1>1 DEF Init, AdminOK
<1>3. PassOK
  BY GoneType DEF Init, PassOK, Steps
<1>4. StoreOK
  BY GoneType DEF Init, StoreOK
<1>5. RestOK
  BY <1>1 DEF Init, RestOK
<1> QED
  BY <1>2, <1>3, <1>4, <1>5, TypesAre

\* Every call of a running pass keeps the types,
LEMMA PassTypes ==
  ASSUME TypeOK, Continue
  PROVE  TypeOK'
<1>1. AdminOK /\ PassOK /\ StoreOK /\ RestOK
  BY TypesAre
<1>2. last \in Nat /\ at \in CRs \cup {Other} /\ (pc # "idle" => at \in CRs)
  BY <1>1, BoundsAssumption DEF AdminOK, PassOK
<1> SUFFICES AdminOK' /\ PassOK' /\ StoreOK' /\ RestOK'
  BY TypesAreNext
<1>3. CASE ResolveAuth
  <2>1. AdminOK' /\ StoreOK' /\ UNCHANGED last
    BY <1>1, <1>3, AdminIdle DEF ResolveAuth, kube, admin, StoreOK
  <2>2. EndPass \/ \E step \in {"autherr", "lookup", "find", "guard"} : Goto(step)
    BY <1>3 DEF ResolveAuth
  <2>3. PassOK' /\ calm' \in BOOLEAN /\ behind' \in BOOLEAN /\ drifted' \in BOOLEAN
    BY <1>1, <1>2, <1>3, <2>1, <2>2, EndPassTypes, GotoTypes DEF ResolveAuth, RestOK, held, Steps
  <2> QED
    BY <1>1, <1>3, <2>1, <2>3 DEF ResolveAuth, history, RestOK
<1>4. CASE Refetch
  <2>1. AdminOK' /\ StoreOK' /\ UNCHANGED last
    BY <1>1, <1>4, AdminIdle DEF Refetch, kube, admin, StoreOK
  <2>2. CASE EndPass
    BY <1>1, <1>2, <1>4, <2>1, <2>2, EndPassTypes DEF Refetch, history, RestOK
  <2>3. CASE /\ cr' = crs[at] /\ behind' = FALSE /\ pc' = "find"
             /\ UNCHANGED <<at, found, drifted, calm>>
    <3>1. crs[at] \in CRType /\ pc # "idle"
      BY <1>1, <1>2, <1>4 DEF Refetch, StoreOK
    <3> QED
      BY <1>1, <1>2, <1>4, <2>1, <2>3, <3>1 DEF Refetch, history, RestOK, PassOK, Steps
  <2> QED
    BY <1>4, <2>2, <2>3 DEF Refetch
<1>5. ASSUME NEW o \in Outcomes, NEW new \in CRType, Write(o, new), EndPass, pc # "idle",
             changed' \subseteq changed
      PROVE  AdminOK' /\ PassOK' /\ StoreOK' /\ RestOK'
  <2>1. /\ AdminOK' /\ StoreOK' /\ UNCHANGED <<outside, rekeyed, user>> /\ faults' \in Nat
        /\ last' \in Nat
    BY <1>1, <1>2, <1>5, WriteTypes
  <2> QED
    BY <1>1, <1>5, <2>1, EndPassTypes DEF RestOK
<1>6. cr \in CRType
  BY <1>1 DEF PassOK
<1>7. ASSUME NEW o \in Outcomes, AuthSecretError(o) PROVE AdminOK' /\ PassOK' /\ StoreOK' /\ RestOK'
  BY <1>5, <1>6, <1>7, WrittenTypes DEF AuthSecretError
<1>8. ASSUME NEW o \in Outcomes, ReportError(o) PROVE AdminOK' /\ PassOK' /\ StoreOK' /\ RestOK'
  BY <1>5, <1>6, <1>8, WrittenTypes DEF ReportError
<1>9. ASSUME NEW o \in Outcomes, RemoveFinalizer(o) PROVE AdminOK' /\ PassOK' /\ StoreOK' /\ RestOK'
  BY <1>5, <1>9, GoneType DEF RemoveFinalizer
<1>10. ASSUME NEW o \in Outcomes, ReportSynced(o) PROVE AdminOK' /\ PassOK' /\ StoreOK' /\ RestOK'
  <2> DEFINE sync == IF drifted THEN "DriftCorrected" ELSE "Synced"
  <2>1. sync \in Synceds
    BY DEF Synceds
  <2>2. Write(o, [cr EXCEPT !.obs = cr.gen, !.ready = "True", !.synced = sync])
    BY <1>10 DEF ReportSynced
  <2> HIDE DEF sync
  <2> QED
    BY <1>5, <1>6, <1>10, <2>1, <2>2, WrittenTypes DEF ReportSynced
<1>11. ASSUME NEW o \in Outcomes, AddFinalizer(o) PROVE AdminOK' /\ PassOK' /\ StoreOK' /\ RestOK'
  <2> DEFINE new == [cr EXCEPT !.fin = TRUE]
  <2>1. Write(o, new) /\ new \in CRType /\ pc = "guard" /\ changed' = changed
    BY <1>6, <1>11, WrittenTypes DEF AddFinalizer
  <2>2. EndPass \/ (cr' = new /\ pc' = "refetch" /\ UNCHANGED <<at, behind, found, drifted, calm>>)
    BY <1>11 DEF AddFinalizer
  <2>3. /\ AdminOK' /\ StoreOK' /\ UNCHANGED <<outside, rekeyed, user>> /\ faults' \in Nat
        /\ last' = last
    BY <1>1, <1>2, <2>1, WriteTypes
  <2> HIDE DEF new
  <2>4. CASE EndPass
    BY <1>1, <1>2, <2>1, <2>3, <2>4, EndPassTypes DEF RestOK
  <2>5. CASE cr' = new /\ pc' = "refetch" /\ UNCHANGED <<at, behind, found, drifted, calm>>
    BY <1>1, <2>1, <2>3, <2>5 DEF RestOK, PassOK, Steps
  <2> QED
    BY <2>2, <2>4, <2>5
<1>12. ASSUME NEW o \in Outcomes, Lookup(o) PROVE AdminOK' /\ PassOK' /\ StoreOK' /\ RestOK'
  <2>1. AdminOK' /\ StoreOK' /\ faults' \in Nat /\ pc = "lookup"
        /\ UNCHANGED <<last, history, user>>
    BY <1>1, <1>12, AdminIdle, CallTypes DEF Lookup, LookupThen, kube, admin, StoreOK, RestOK
  <2>2. CASE EndPass
    BY <1>1, <1>2, <2>1, <2>2, EndPassTypes DEF history, RestOK
  <2>3. CASE /\ found' \in {0} \cup FirstWithKey(cr.spec.key)
             /\ pc' = IF found' = 0 THEN "release" ELSE "delete"
             /\ UNCHANGED <<at, cr, behind, drifted, calm>>
    <3>1. found' \in 0..last
      BY <1>2, <2>3, TypesNumbered, FirstIs DEF FirstFact
    <3> QED
      BY <1>1, <2>1, <2>3, <3>1 DEF history, RestOK, PassOK, Steps
  <2> QED
    BY <1>12, <2>2, <2>3 DEF Lookup, LookupThen
<1>13. ASSUME NEW o \in Outcomes, Find(o) PROVE AdminOK' /\ PassOK' /\ StoreOK' /\ RestOK'
  <2>1. AdminOK' /\ StoreOK' /\ faults' \in Nat /\ pc = "find"
        /\ UNCHANGED <<last, history, user>>
    BY <1>1, <1>13, AdminIdle, CallTypes DEF Find, FindThen, kube, admin, StoreOK, RestOK
  <2>2. \/ \E step \in {"failed", "create", "synced"} : Goto(step)
        \/ /\ found' \in FirstWithKey(cr.spec.key) \ {0}
           /\ drifted' = (cr.obs = cr.gen) /\ pc' = "patch" /\ UNCHANGED <<at, cr, behind, calm>>
    BY <1>13 DEF Find, FindThen
  <2>3. CASE \E step \in {"failed", "create", "synced"} : Goto(step)
    <3>1. PassOK' /\ UNCHANGED held
      BY <1>1, <2>1, <2>3, GotoTypes DEF Steps
    <3> QED
      BY <1>1, <2>1, <3>1 DEF held, history, RestOK
  <2>4. CASE /\ found' \in FirstWithKey(cr.spec.key) \ {0}
             /\ drifted' = (cr.obs = cr.gen) /\ pc' = "patch" /\ UNCHANGED <<at, cr, behind, calm>>
    <3>1. found' \in 0..last
      BY <2>4, TypesNumbered, FirstIs DEF FirstFact
    <3> QED
      BY <1>1, <2>1, <2>4, <3>1 DEF history, RestOK, PassOK, Steps
  <2> QED
    BY <2>2, <2>3, <2>4
<1>14. ASSUME NEW o \in Outcomes, Create(o) PROVE AdminOK' /\ PassOK' /\ StoreOK' /\ RestOK'
  <2>1. StoreOK' /\ faults' \in Nat /\ UNCHANGED <<history, user>> /\ pc = "create"
        /\ \E step \in {"failed", "synced"} : Goto(step)
    BY <1>1, <1>14, CallTypes DEF Create, kube, StoreOK, RestOK
  <2>2. cr.spec \in SpecType
    BY <1>6, SpecsAssumption DEF CRType
  <2>3. AdminOK' /\ last' \in Nat /\ last <= last'
    <3>1. CASE UNCHANGED admin
      BY <1>1, <1>2, <3>1, AdminIdle DEF admin
    <3>2. CASE Add(cr.spec.key, cr.spec.body, kind = "policy" \/ cr.spec.on, at)
      <4> DEFINE on == kind = "policy" \/ cr.spec.on
      <4>1. on \in BOOLEAN
        OBVIOUS
      <4>2. cr.spec.key \in Keys /\ cr.spec.body \in Bodies
        BY <2>2 DEF SpecType
      <4>3. Add(cr.spec.key, cr.spec.body, on, at)
        BY <3>2
      <4> HIDE DEF on
      <4>4. AdminOK' /\ last' = last + 1
        BY <1>1, <1>2, <4>1, <4>2, <4>3, AdminGrows
      <4> QED
        BY <1>2, <4>4
    <3> QED
      BY <1>14, <3>1, <3>2 DEF Create
  <2>4. PassOK' /\ UNCHANGED held
    BY <1>1, <1>2, <2>1, <2>3 DEF PassOK, Goto, held, Steps
  <2> QED
    BY <1>1, <2>1, <2>3, <2>4 DEF held, history, RestOK
<1>15. ASSUME NEW o \in Outcomes, DeleteRemote(o) PROVE AdminOK' /\ PassOK' /\ StoreOK' /\ RestOK'
  <2>1. /\ StoreOK' /\ faults' \in Nat /\ UNCHANGED <<last, outside, rekeyed, user>>
        /\ changed' \subseteq CRs /\ live' \subseteq live /\ pc = "delete"
    BY <1>1, <1>15, CallTypes DEF DeleteRemote, kube, StoreOK, RestOK
  <2>2. PassOK' /\ calm' \in BOOLEAN /\ behind' \in BOOLEAN /\ drifted' \in BOOLEAN
    <3>1. CASE EndPass
      BY <1>2, <2>1, <3>1, EndPassTypes
    <3>2. CASE Goto("release")
      BY <1>1, <2>1, <3>2, GotoTypes DEF Steps, held, RestOK
    <3> QED
      BY <1>15, <3>1, <3>2 DEF DeleteRemote
  <2> QED
    BY <1>1, <2>1, <2>2, AdminShrinks DEF RestOK
<1>16. ASSUME NEW o \in Outcomes, Update(o) PROVE AdminOK' /\ PassOK' /\ StoreOK' /\ RestOK'
  <2>1. /\ StoreOK' /\ faults' \in Nat /\ UNCHANGED <<last, outside, rekeyed, user>>
        /\ changed' \subseteq CRs /\ pc = "patch"
        /\ \E step \in {"failed", "synced"} : Goto(step)
    BY <1>1, <1>16, CallTypes DEF Update, UpdateThen, kube, StoreOK, RestOK
  <2>2. PassOK' /\ UNCHANGED held
    BY <1>1, <2>1, GotoTypes DEF Steps
  <2> DEFINE new(r) == [r EXCEPT !.key = cr.spec.key, !.body = cr.spec.body, !.on = cr.spec.on, !.by = at]
  <2>3. \A r \in live : new(r) \in Resources /\ new(r).id = r.id
    <3>1. cr.spec \in SpecType /\ at \in CRs
      BY <1>2, <1>6, <2>1, SpecsAssumption DEF CRType
    <3> QED
      BY <1>1, <3>1 DEF AdminOK, Resources, SpecType
  <2>4. live' = {IF r.id = found /\ Applied(o) THEN new(r) ELSE r : r \in live}
    BY <1>16 DEF Update, UpdateThen
  <2> HIDE DEF new
  <2>5. AdminOK'
    BY <1>1, <2>1, <2>3, <2>4 DEF AdminOK
  <2> QED
    BY <1>1, <2>1, <2>2, <2>5 DEF held, RestOK
<1> QED
  BY <1>3, <1>4, <1>7, <1>8, <1>9, <1>10, <1>11, <1>12, <1>13, <1>14, <1>15, <1>16 DEF Continue

\* as do the start of one,
LEMMA GetTypes ==
  ASSUME TypeOK, NEW c \in CRs, GetCR(c)
  PROVE  TypeOK'
<1>1. AdminOK /\ PassOK /\ StoreOK /\ RestOK
  BY TypesAre
<1>2. AdminOK' /\ StoreOK' /\ UNCHANGED last
  BY <1>1, AdminIdle DEF GetCR, kube, admin, StoreOK
<1>3. RestOK'
  BY <1>1 DEF GetCR, history, RestOK
<1>4. c # Other /\ crs[c] \in CRType
  BY <1>1, NamesAssumption DEF StoreOK
<1>5. PassOK'
  BY <1>1, <1>2, <1>4 DEF GetCR, PassOK, Steps
<1> QED
  BY <1>2, <1>3, <1>5, TypesAreNext

\* a crash,
LEMMA CrashTypes ==
  ASSUME TypeOK, Crash
  PROVE  TypeOK'
<1>1. AdminOK /\ PassOK /\ StoreOK /\ RestOK
  BY TypesAre
<1>2. AdminOK' /\ StoreOK' /\ last' \in Nat
  BY <1>1, AdminIdle, BoundsAssumption DEF Crash, kube, admin, StoreOK, AdminOK
<1>3. PassOK' /\ RestOK'
  BY <1>1, <1>2, EndPassTypes DEF Crash, history, RestOK
<1> QED
  BY <1>2, <1>3, TypesAreNext

\* The stored CR after a write of the user: as it was, but for its spec, its
\* generation and its deletion mark.
LEMMA UserWritten ==
  ASSUME TypeOK, NEW c \in CRs, Apply(c) \/ Edit(c) \/ Delete(c)
  PROVE  \E new \in CRType :
           /\ UserWrites(c, new)
           /\ \/ ~crs[c].here /\ new.here /\ new.gen = 1 /\ new.obs = 0 /\ ~new.fin /\ ~new.del
                 /\ rekeyed' = rekeyed
              \/ /\ crs[c].here /\ new.here /\ new.fin = crs[c].fin /\ new.del = crs[c].del
                 /\ new.gen = crs[c].gen + 1 /\ new.obs = crs[c].obs
                 /\ rekeyed' = rekeyed \cup (IF new.spec.key = crs[c].spec.key THEN {} ELSE {c})
              \/ /\ crs[c].here /\ new.here /\ crs[c].fin /\ new.fin /\ new.del
                 /\ new.gen = crs[c].gen /\ new.obs = crs[c].obs /\ new.spec = crs[c].spec
                 /\ rekeyed' = rekeyed
              \/ crs[c].here /\ ~crs[c].fin /\ new = Gone /\ rekeyed' = rekeyed
<1>1. crs[c] \in CRType /\ crs[c].gen \in Nat
  BY DEF TypeOK, CRType
<1>2. CASE Apply(c)
  BY <1>2, FreshType DEF Apply
<1>3. CASE Edit(c)
  <2>1. PICK spec \in Specs :
          /\ UserWrites(c, [crs[c] EXCEPT !.spec = spec, !.gen = @ + 1])
          /\ rekeyed' = IF spec.key = crs[c].spec.key THEN rekeyed ELSE rekeyed \cup {c}
    BY <1>3 DEF Edit
  <2> DEFINE new == [crs[c] EXCEPT !.spec = spec, !.gen = @ + 1]
  <2>2. /\ new.here = crs[c].here /\ new.fin = crs[c].fin /\ new.del = crs[c].del
        /\ new.gen = crs[c].gen + 1 /\ new.obs = crs[c].obs /\ new.spec = spec
    BY <1>1 DEF CRType
  <2>3. new \in CRType
    <3>1. crs[c].gen + 1 \in Nat
      BY <1>1
    <3> QED
      BY <1>1, <3>1 DEF CRType
  <2>4. UserWrites(c, new) /\ crs[c].here
    BY <1>3, <2>1 DEF Edit
  <2>5. rekeyed' = rekeyed \cup (IF new.spec.key = crs[c].spec.key THEN {} ELSE {c})
    BY <2>1, <2>2
  <2> HIDE DEF new
  <2> QED
    BY <2>2, <2>3, <2>4, <2>5
<1>4. CASE Delete(c)
  <2>1. CASE crs[c].fin
    <3> DEFINE new == [crs[c] EXCEPT !.del = TRUE]
    <3>1. /\ new \in CRType /\ new.here = crs[c].here /\ new.fin = crs[c].fin /\ new.del
          /\ new.gen = crs[c].gen /\ new.obs = crs[c].obs /\ new.spec = crs[c].spec
      BY <1>1 DEF CRType
    <3>2. UserWrites(c, new) /\ crs[c].here /\ rekeyed' = rekeyed
      BY <1>4, <2>1 DEF Delete
    <3> HIDE DEF new
    <3> QED
      BY <2>1, <3>1, <3>2
  <2>2. CASE ~crs[c].fin
    <3>1. UserWrites(c, Gone) /\ crs[c].here /\ rekeyed' = rekeyed
      BY <1>4, <2>2 DEF Delete
    <3> QED
      BY <2>2, <3>1, GoneType
  <2> QED
    BY <2>1, <2>2
<1> QED
  BY <1>2, <1>3, <1>4

\* the user's writes,
LEMMA UserTypes ==
  ASSUME TypeOK, NEW c \in CRs, Apply(c) \/ Edit(c) \/ Delete(c)
  PROVE  TypeOK'
<1>1. AdminOK /\ PassOK /\ StoreOK /\ RestOK
  BY TypesAre
<1>2. PICK new \in CRType : UserWrites(c, new) /\ rekeyed' \subseteq rekeyed \cup {c}
  BY UserWritten
<1>3. AdminOK' /\ StoreOK'
  BY <1>1, <1>2, AdminIdle DEF UserWrites, admin, StoreOK
<1>4. PassOK' /\ RestOK'
  BY <1>1, <1>2 DEF UserWrites, UserStep, admin, PassOK, RestOK
<1> QED
  BY <1>3, <1>4, TypesAreNext

\* a change of a Secret,
LEMMA SecretTypes ==
  ASSUME TypeOK, NEW s \in Secrets, ToggleSecret(s)
  PROVE  TypeOK'
<1>1. AdminOK /\ PassOK /\ StoreOK /\ RestOK
  BY TypesAre
<1>2. AdminOK' /\ StoreOK'
  BY <1>1, AdminIdle DEF ToggleSecret, StoreOK, admin
<1>3. PassOK' /\ RestOK'
  BY <1>1 DEF ToggleSecret, UserStep, admin, history, held, PassOK, RestOK
<1> QED
  BY <1>2, <1>3, TypesAreNext

OutsideStep == OutsideCreate \/ OutsideEdit \/ OutsideDelete

\* What an outsider does: every resource is an old one, an old one he wrote, or
\* a new one under a key he is known to use.
LEMMA OutsideDoes ==
  ASSUME TypeOK, OutsideStep
  PROVE  /\ UNCHANGED <<kube, rekeyed, at, cr, behind, found, drifted, pc, faults>>
         /\ changed' = CRs /\ calm' = FALSE /\ user' \in Nat
         /\ AdminOK' /\ last' \in Nat /\ last <= last'
         /\ outside \subseteq outside' /\ outside' \subseteq Keys
         /\ \A r \in live' : r \in live \/ r.by = Other
         /\ \A r \in live' : \/ \E s \in live : s.id = r.id /\ s.key = r.key
                           \/ /\ r.id = last + 1 /\ r.key \in outside'
                              /\ Unique => \A s \in live : s.key # r.key
<1>1. AdminOK /\ PassOK /\ StoreOK /\ RestOK
  BY TypesAre
<1>2. last \in Nat /\ user \in Nat /\ outside \subseteq Keys
  BY <1>1, BoundsAssumption DEF AdminOK, RestOK
<1>3. /\ UNCHANGED <<kube, rekeyed, at, cr, behind, found, drifted, pc, faults>>
      /\ changed' = CRs /\ calm' = FALSE /\ user' \in Nat
  <2>1. UserStep /\ Disturb /\ UNCHANGED <<kube, rekeyed, at, cr, behind, found, drifted, pc, faults>>
    BY DEF OutsideStep, OutsideCreate, OutsideEdit, OutsideDelete
  <2> QED
    BY <1>2, <2>1 DEF UserStep, Disturb
<1>4. CASE OutsideCreate
  <2>1. PICK spec \in Specs :
          /\ Accepted(spec.key)
          /\ Add(spec.key, spec.body, spec.on, Other)
          /\ outside' = outside \cup {spec.key}
    BY <1>4 DEF OutsideCreate
  <2>2. spec.key \in Keys /\ spec.body \in Bodies /\ spec.on \in BOOLEAN
    BY SpecsAssumption DEF SpecType
  <2>3. AdminOK' /\ last' = last + 1
    BY <1>1, <2>1, <2>2, AdminGrows
  <2>4. \A r \in live' : r \in live \/ (r.id = last + 1 /\ r.key = spec.key /\ r.by = Other)
    BY <2>1, <2>3 DEF Add
  <2> QED
    BY <1>2, <1>3, <2>1, <2>2, <2>3, <2>4 DEF Accepted
<1>5. CASE OutsideEdit
  <2>1. PICK r \in live, spec \in Specs :
          /\ spec.key = r.key
          /\ live' = (live \ {r}) \cup {[r EXCEPT !.body = spec.body, !.on = spec.on, !.by = Other]}
    BY <1>5 DEF OutsideEdit
  <2> DEFINE new == [r EXCEPT !.body = spec.body, !.on = spec.on, !.by = Other]
  <2>2. new \in Resources /\ new.id = r.id /\ new.key = r.key /\ new.by = Other
    BY <1>1, SpecsAssumption DEF AdminOK, Resources, SpecType
  <2>3. live' = (live \ {r}) \cup {new} /\ last' = last /\ outside' = outside
    BY <1>5, <2>1 DEF OutsideEdit
  <2> HIDE DEF new
  <2>4. AdminOK'
    BY <1>1, <2>2, <2>3 DEF AdminOK
  <2> QED
    BY <1>2, <1>3, <2>2, <2>3, <2>4
<1>6. CASE OutsideDelete
  <2>1. live' \subseteq live /\ last' = last /\ outside' = outside
    BY <1>6 DEF OutsideDelete
  <2> QED
    BY <1>1, <1>2, <1>3, <2>1, AdminShrinks
<1> QED
  BY <1>4, <1>5, <1>6 DEF OutsideStep

\* what outsiders do at the Admin API,
LEMMA OutsideTypes ==
  ASSUME TypeOK, OutsideStep
  PROVE  TypeOK'
<1>1. AdminOK /\ PassOK /\ StoreOK /\ RestOK
  BY TypesAre
<1>2. /\ UNCHANGED <<kube, rekeyed, at, cr, behind, found, drifted, pc, faults>>
      /\ changed' = CRs /\ calm' = FALSE /\ user' \in Nat /\ outside' \subseteq Keys
      /\ AdminOK' /\ last \in Nat /\ last' \in Nat /\ last <= last'
  BY <1>1, OutsideDoes, BoundsAssumption DEF AdminOK
<1>3. PassOK'
  BY <1>1, <1>2 DEF PassOK
<1>4. StoreOK' /\ RestOK'
  BY <1>1, <1>2 DEF StoreOK, kube, RestOK
<1> QED
  BY <1>2, <1>3, <1>4, TypesAreNext

\* and so every step.
LEMMA NextTypes == TypeOK /\ [Next]_vars => TypeOK'
<1> SUFFICES ASSUME TypeOK, [Next]_vars PROVE TypeOK'
  OBVIOUS
<1>1. CASE UNCHANGED vars
  BY <1>1 DEF vars, kube, admin, history, held, TypeOK
<1> QED
  BY <1>1, PassTypes, CrashTypes, GetTypes, UserTypes, SecretTypes, OutsideTypes
     DEF Next, OutsideStep

-----------------------------------------------------------------------------
(* What one part of the state means for the others                         *)

\* A key once doubled by an outsider stays so.
LEMMA DoubledStays ==
  ASSUME outside \subseteq outside', NEW k
  PROVE  Doubled(k) => Doubled(k)'
  BY DEF Doubled

\* What a CR wrote stays as it is under the others' steps.
LEMMA AgreesStays ==
  ASSUME NEW c, \A r \in live' : r.by = c => r \in live,
         outside \subseteq outside', rekeyed \subseteq rekeyed', kind' = kind, NEW spec
  PROVE  Agrees(c, spec) => Agrees(c, spec)'
  BY DEF Agrees, Stamped, UpToDate, Doubled

\* A write of one stored CR.
LEMMA StoredChanges ==
  ASSUME TypeOK, Server, NEW c \in CRs, NEW new \in CRType,
         UNCHANGED <<kind, live, outside>>, rekeyed \subseteq rekeyed',
         crs' = [crs EXCEPT ![c] = new],
         \A d \in CRs \ {c} : d \in changed' <=> d \in changed,
         new.obs <= new.gen, new.del => new.fin,
         \A r \in Stamped(c) :
           \/ new.here /\ new.fin /\ r.key = new.spec.key
           \/ c \in rekeyed' \/ Doubled(r.key),
         new.here /\ new.obs = new.gen /\ Whole(new.spec) => Agrees(c, new.spec),
         /\ new.here /\ ~new.del /\ new.ready = "True" /\ new.obs = new.gen
         /\ Whole(new.spec) /\ c \notin changed'
         => InPlace(new.spec)
  PROVE  Server'
<1>1. \A d \in CRs : crs'[d] = IF d = c THEN new ELSE crs[d]
  BY DEF TypeOK
<1>2. StoredSane'
  BY <1>1 DEF Server, StoredSane
<1>3. NoDouble'
  BY DEF Server, NoDouble, Doubled
<1>4. StampKey'
  <2> SUFFICES ASSUME NEW d \in CRs, NEW r \in live, r.by = d
               PROVE  \/ crs'[d].here /\ crs'[d].fin /\ r.key = crs'[d].spec.key
                      \/ d \in rekeyed' \/ Doubled(r.key)'
    BY DEF StampKey, Stamped
  <2>1. Doubled(r.key) => Doubled(r.key)'
    BY DoubledStays
  <2> QED
    BY <1>1, <2>1 DEF Server, StampKey, Stamped
<1>5. StampTrue'
  <2> SUFFICES ASSUME NEW d \in CRs, crs'[d].here, crs'[d].obs = crs'[d].gen, Whole(crs[d].spec)',
                      NEW r \in live, r.by = d
               PROVE  UpToDate(r, crs[d].spec)' \/ d \in rekeyed' \/ Doubled(r.key)'
    BY DEF StampTrue, Agrees, Stamped
  <2>1. CASE d = c
    BY <1>1, <2>1 DEF Agrees, Stamped, UpToDate, Doubled, Whole
  <2>2. CASE d # c
    BY <1>1, <2>2 DEF Server, StampTrue, Agrees, Stamped, UpToDate, Doubled, Whole
  <2> QED
    BY <2>1, <2>2
<1>6. StatusTrue'
  <2> SUFFICES ASSUME NEW d \in CRs, crs'[d].here, ~crs'[d].del, crs'[d].ready = "True",
                      crs'[d].obs = crs'[d].gen, Whole(crs[d].spec)', d \notin changed'
               PROVE  InPlace(crs[d].spec)'
    BY DEF StatusTrue
  <2>1. CASE d = c
    BY <1>1, <2>1 DEF InPlace, Candidate, UpToDate, Whole
  <2>2. CASE d # c
    BY <1>1, <2>2 DEF Server, StatusTrue, InPlace, Candidate, UpToDate, Whole
  <2> QED
    BY <2>1, <2>2
<1> QED
  BY <1>2, <1>3, <1>4, <1>5, <1>6 DEF Server

\* What is said of the server holds while CRs and resources stay.
LEMMA ServerIdle ==
  ASSUME Server, UNCHANGED <<kind, crs, live, outside, rekeyed, changed>>
  PROVE  Server'
<1>1. StoredSane' /\ NoDouble'
  BY DEF Server, StoredSane, NoDouble, Doubled
<1>2. StampKey' /\ StampTrue'
  BY DEF Server, StampKey, StampTrue, Agrees, Stamped, UpToDate, Doubled, Whole
<1>3. StatusTrue'
  BY DEF Server, StatusTrue, InPlace, Candidate, UpToDate, Whole
<1> QED
  BY <1>1, <1>2, <1>3 DEF Server

\* Nothing is left of a pass that ended.
LEMMA EndPassKeeps ==
  ASSUME EndPass
  PROVE  PassInv'
<1>1. pc' = "idle"
  BY DEF EndPass
<1>2. Copied' /\ SpecKept' /\ CalmKnown' /\ CopyAgrees'
  BY <1>1 DEF Running, Copied, SpecKept, CalmKnown, CopyAgrees
<1>3. Knows' /\ Sought' /\ DriftHonest'
  BY <1>1 DEF Knows, Finalizing, Working, Sought, DriftHonest
<1> QED
  BY <1>2, <1>3 DEF PassInv

\* A pass goes on, and nobody has touched its copy.
LEMMA PassGoesOn ==
  ASSUME PassInv, Running, Running', UNCHANGED <<crs, at, cr, behind, calm, rekeyed>>,
         calm \/ changed' = changed
  PROVE  Copied' /\ SpecKept' /\ CalmKnown'
<1>1. Copied'
  BY DEF PassInv, Copied, Running
<1>2. SpecKept' /\ CalmKnown'
  BY DEF PassInv, SpecKept, CalmKnown, Running
<1> QED
  BY <1>1, <1>2

\* And what it wrote so far is as it was.
LEMMA CopyStays ==
  ASSUME PassInv, Running, UNCHANGED <<kind, live, outside, rekeyed, at, cr>>
  PROVE  CopyAgrees'
  BY DEF PassInv, CopyAgrees, Agrees, Stamped, UpToDate, Doubled, Whole

\* A step that only the pass sees.
LEMMA Onwards ==
  ASSUME Server, PassInv, Running, Running',
         UNCHANGED <<kind, crs, live, outside, rekeyed, changed, at, cr, behind, calm>>
  PROVE  Server' /\ Copied' /\ SpecKept' /\ CalmKnown' /\ CopyAgrees'
  BY ServerIdle, PassGoesOn, CopyStays

\* A guarded pass knows the key of what its CR wrote.
LEMMA StampedKey ==
  ASSUME Server, PassInv, Running, at \in CRs, cr.fin, NEW r \in live, r.by = at
  PROVE  r.key = cr.spec.key \/ at \in rekeyed \/ Doubled(r.key)
  BY DEF Server, StampKey, Stamped, PassInv, Copied

\* The pass of a CR whose generation is in sync works for that generation.
LEMMA SameSpec ==
  ASSUME TypeOK, PassInv, Running, at \in CRs, crs[at].here, crs[at].obs = crs[at].gen
  PROVE  crs[at].spec = cr.spec
<1>1. crs[at].gen \in Nat
  BY DEF TypeOK, CRType
<1> QED
  BY <1>1 DEF PassInv, SpecKept

\* A running pass works on one of the CRs and holds a copy of it.
LEMMA RunningAt ==
  ASSUME TypeOK, Running
  PROVE  at \in CRs /\ at # Other /\ cr \in CRType /\ crs[at] \in CRType
  BY NamesAssumption DEF TypeOK, Running

\* A write of the pass, that has all of the copy but for its status and its
\* finalizer.
LEMMA WriteKeeps ==
  ASSUME TypeOK, Server, PassInv, Running, NEW new \in CRType,
         UNCHANGED <<kind, live, outside, rekeyed>>,
         \/ crs' = crs /\ changed' = changed
         \/ /\ ~behind /\ crs' = [crs EXCEPT ![at] = new]
            /\ \A d \in CRs \ {at} : d \in changed' <=> d \in changed,
         new.here, new.gen = cr.gen, new.spec = cr.spec, new.del = cr.del, cr.fin => new.fin,
         new.obs = cr.obs \/ (new.obs = cr.gen /\ (Whole(cr.spec) => Agrees(at, cr.spec))),
         \/ new.ready # "True"
         \/ new.ready = cr.ready /\ new.obs = cr.obs /\ changed' = changed
         \/ Whole(cr.spec) /\ at \notin changed' => InPlace(cr.spec)
  PROVE  Server'
<1>1. at \in CRs /\ cr \in CRType
  BY RunningAt
<1>2. CASE crs' = crs /\ changed' = changed
  BY <1>2, ServerIdle
<1>3. CASE /\ ~behind /\ crs' = [crs EXCEPT ![at] = new]
           /\ \A d \in CRs \ {at} : d \in changed' <=> d \in changed
  <2>1. crs[at] = cr /\ cr.here /\ cr.obs <= cr.gen /\ (cr.del => cr.fin) /\ cr.gen \in Nat
    BY <1>1, <1>3 DEF PassInv, Copied, CRType
  <2>2. new.obs <= new.gen /\ (new.del => new.fin)
    BY <2>1
  <2>3. \A r \in Stamped(at) :
           \/ new.here /\ new.fin /\ r.key = new.spec.key
           \/ at \in rekeyed \/ Doubled(r.key)
    BY <1>1, <2>1 DEF Server, StampKey
  <2>4. new.here /\ new.obs = new.gen /\ Whole(new.spec) => Agrees(at, new.spec)
    BY <1>1, <2>1 DEF Server, StampTrue
  <2>5. /\ new.here /\ ~new.del /\ new.ready = "True" /\ new.obs = new.gen
        /\ Whole(new.spec) /\ at \notin changed'
        => InPlace(new.spec)
    BY <1>1, <2>1 DEF Server, StatusTrue
  <2> QED
    BY <1>1, <1>3, <2>2, <2>3, <2>4, <2>5, StoredChanges
<1> QED
  BY <1>2, <1>3

-----------------------------------------------------------------------------
(* The steps of a pass                                                     *)

\* r.Get at the start of a pass takes the stored CR.
LEMMA GetKeeps ==
  ASSUME IInv, NEW c \in CRs, GetCR(c)
  PROVE  IInv'
<1>1. TypeOK'
  BY GetTypes DEF IInv
<1>2. /\ UNCHANGED <<kind, crs, live, outside, rekeyed, changed>>
      /\ at' = c /\ cr' = crs[c] /\ pc' = "auth" /\ calm' = TRUE /\ crs[c].here
  BY DEF GetCR, kube, admin, history
<1>3. Server'
  BY <1>2, ServerIdle DEF IInv
<1>4. Copied' /\ SpecKept' /\ CalmKnown'
  BY <1>2 DEF IInv, Server, StoredSane, Copied, SpecKept, CalmKnown
<1>5. CopyAgrees'
  BY <1>2 DEF IInv, Server, StampTrue, CopyAgrees, Agrees, Stamped, UpToDate, Doubled, Whole
<1>6. Knows' /\ Sought' /\ DriftHonest'
  BY <1>2 DEF Knows, Finalizing, Working, Sought, DriftHonest
<1> QED
  BY <1>1, <1>3, <1>4, <1>5, <1>6 DEF IInv, PassInv

\* The way a pass takes is justified by the mark and the finalizer of its copy.
LEMMA ResolveKeeps ==
  ASSUME IInv, ResolveAuth
  PROVE  Server' /\ PassInv'
<1>1. /\ UNCHANGED <<kind, crs, live, outside, rekeyed, changed>> /\ pc = "auth"
      /\ \/ EndPass
         \/ Goto("autherr")
         \/ Goto("lookup") /\ cr.del /\ cr.fin
         \/ Goto("find") /\ cr.fin
         \/ Goto("guard")
  BY DEF ResolveAuth, kube, admin, history
<1>2. CASE EndPass
  BY <1>1, <1>2, ServerIdle, EndPassKeeps DEF IInv
<1>3. CASE ~EndPass
  <2>1. /\ UNCHANGED <<at, cr, behind, calm, drifted, found>>
        /\ \/ pc' \in {"autherr", "guard"}
           \/ pc' = "lookup" /\ cr.del /\ cr.fin
           \/ pc' = "find" /\ cr.fin
    BY <1>1, <1>3 DEF Goto, held
  <2>2. Server' /\ Copied' /\ SpecKept' /\ CalmKnown' /\ CopyAgrees'
    BY <1>1, <2>1, Onwards DEF IInv, Running
  <2>3. Knows' /\ Sought' /\ DriftHonest'
    BY <2>1 DEF Knows, Finalizing, Working, Sought, DriftHonest
  <2> QED
    BY <2>2, <2>3 DEF PassInv
<1> QED
  BY <1>2, <1>3

\* The copy read again is the stored CR, unless that is gone.
LEMMA RefetchKeeps ==
  ASSUME IInv, Refetch
  PROVE  Server' /\ PassInv'
<1>1. UNCHANGED <<kind, crs, live, outside, rekeyed, changed>> /\ pc = "refetch"
  BY DEF Refetch, kube, admin, history
<1>2. Server'
  BY <1>1, ServerIdle DEF IInv
<1>3. CASE EndPass
  BY <1>2, <1>3, EndPassKeeps
<1>4. CASE /\ crs[at].here /\ cr' = crs[at] /\ behind' = FALSE /\ pc' = "find"
           /\ UNCHANGED <<at, found, drifted, calm>>
  <2>1. at \in CRs /\ crs[at].fin
    BY <1>1, RunningAt DEF IInv, Running, PassInv, Copied, Knows, Working
  <2>2. Copied' /\ SpecKept' /\ CalmKnown'
    BY <1>1, <1>4, <2>1 DEF IInv, Server, StoredSane, PassInv, Copied, SpecKept, CalmKnown, Running
  <2>3. CopyAgrees'
    BY <1>1, <1>4, <2>1 DEF IInv, Server, StampTrue, CopyAgrees, Agrees, Stamped, UpToDate, Doubled, Whole
  <2>4. Knows' /\ Sought' /\ DriftHonest'
    BY <1>4, <2>1 DEF Knows, Finalizing, Working, Sought, DriftHonest
  <2> QED
    BY <1>2, <2>2, <2>3, <2>4 DEF PassInv
<1> QED
  BY <1>3, <1>4 DEF Refetch

\* The writes of the CR that end a pass.
LEMMA ErrorsKeep ==
  ASSUME IInv, NEW o \in Outcomes, AuthSecretError(o) \/ ReportError(o)
  PROVE  Server' /\ PassInv'
<1>1. Running /\ EndPass /\ UNCHANGED <<kind, live, outside, rekeyed, changed>>
  BY DEF AuthSecretError, ReportError, Write, Running, admin
<1>2. cr \in CRType /\ cr.here
  BY <1>1, RunningAt DEF IInv, PassInv, Copied
<1>3. PICK new \in {[cr EXCEPT !.ready = "AuthSecretError"],
                    [cr EXCEPT !.ready = "ReconcileError", !.synced = "ReconcileError"]} : Write(o, new)
  BY DEF AuthSecretError, ReportError
<1>4. /\ new \in CRType /\ new.here = cr.here /\ new.gen = cr.gen /\ new.spec = cr.spec
      /\ new.del = cr.del /\ new.fin = cr.fin /\ new.obs = cr.obs /\ new.ready # "True"
  BY <1>2, <1>3, WrittenTypes DEF CRType
<1>5. crs' = crs \/ (~behind /\ crs' = [crs EXCEPT ![at] = new])
  BY <1>3 DEF Write
<1>6. Server'
  BY <1>1, <1>2, <1>4, <1>5, WriteKeeps DEF IInv
<1> QED
  BY <1>1, <1>6, EndPassKeeps

\* The success reported is that of the generation of the copy.
LEMMA SyncedKeeps ==
  ASSUME IInv, NEW o \in Outcomes, ReportSynced(o)
  PROVE  Server' /\ PassInv'
<1>1. pc = "synced" /\ EndPass /\ UNCHANGED <<kind, live, outside, rekeyed>>
  BY DEF ReportSynced, Write, admin
<1>2. cr \in CRType /\ cr.here /\ Running /\ at \in CRs
  BY <1>1, RunningAt DEF IInv, PassInv, Copied, Running
<1> DEFINE sync == IF drifted THEN "DriftCorrected" ELSE "Synced"
           new == [cr EXCEPT !.obs = cr.gen, !.ready = "True", !.synced = sync]
<1>3. sync \in Synceds /\ Write(o, new)
  BY DEF ReportSynced, Synceds
<1> HIDE DEF sync
<1>4. /\ new.here = cr.here /\ new.gen = cr.gen /\ new.spec = cr.spec
      /\ new.del = cr.del /\ new.fin = cr.fin /\ new.obs = cr.gen
  BY <1>2 DEF CRType
<1>5. new \in CRType
  BY <1>2, <1>3, WrittenTypes
<1>6. \/ crs' = crs /\ changed' = changed
      \/ ~behind /\ crs' = [crs EXCEPT ![at] = new] /\ changed' = IF calm THEN changed \ {at} ELSE changed
  BY <1>3 DEF Write, ReportSynced
<1> HIDE DEF new
<1>7. Whole(cr.spec) => Agrees(at, cr.spec) /\ (calm => InPlace(cr.spec))
  BY <1>1 DEF IInv, PassInv, Sought
<1>8. ~calm => changed = CRs
  BY <1>2 DEF IInv, PassInv, CalmKnown
<1>9. CASE crs' = crs /\ changed' = changed
  BY <1>1, <1>9, ServerIdle, EndPassKeeps DEF IInv
<1>10. CASE ~behind /\ crs' = [crs EXCEPT ![at] = new] /\ changed' = IF calm THEN changed \ {at} ELSE changed
  <2>1. \A d \in CRs \ {at} : d \in changed' <=> d \in changed
    BY <1>10
  <2>2. Whole(cr.spec) /\ at \notin changed' => InPlace(cr.spec)
    BY <1>2, <1>7, <1>8, <1>10
  <2>3. Server'
    BY <1>1, <1>2, <1>4, <1>5, <1>7, <1>10, <2>1, <2>2, WriteKeeps DEF IInv
  <2> QED
    BY <1>1, <2>3, EndPassKeeps
<1> QED
  BY <1>6, <1>9, <1>10

\* A copy that was written is the stored one, and no generation of it was
\* observed yet.
LEMMA AddFinalizerKeeps ==
  ASSUME IInv, NEW o \in Outcomes, AddFinalizer(o)
  PROVE  Server' /\ PassInv'
<1> DEFINE new == [cr EXCEPT !.fin = TRUE]
<1>1. pc = "guard" /\ Running /\ Write(o, new) /\ UNCHANGED <<kind, live, outside, rekeyed, changed>>
  BY DEF AddFinalizer, Write, admin, Running
<1>2. cr \in CRType /\ cr.here /\ at \in CRs
  BY <1>1, RunningAt DEF IInv, PassInv, Copied
<1>3. /\ new \in CRType /\ new.here = cr.here /\ new.gen = cr.gen /\ new.spec = cr.spec
      /\ new.del = cr.del /\ new.fin /\ new.obs = cr.obs /\ new.ready = cr.ready
  BY <1>2, WrittenTypes DEF CRType
<1>4. \/ crs' = crs /\ EndPass
      \/ ~behind /\ crs' = [crs EXCEPT ![at] = new] /\ EndPass
      \/ /\ ~behind /\ crs' = [crs EXCEPT ![at] = new] /\ cr' = new /\ pc' = "refetch"
         /\ UNCHANGED <<at, behind, found, drifted, calm>>
  BY DEF AddFinalizer, Write, Applied
<1> HIDE DEF new
<1>5. Server'
  BY <1>1, <1>2, <1>3, <1>4, WriteKeeps DEF IInv
<1>6. CASE EndPass
  BY <1>5, <1>6, EndPassKeeps
<1>7. CASE /\ ~behind /\ crs' = [crs EXCEPT ![at] = new] /\ cr' = new /\ pc' = "refetch"
           /\ UNCHANGED <<at, behind, found, drifted, calm>>
  <2>1. crs'[at] = new /\ crs[at] = cr /\ cr.obs <= cr.gen
    BY <1>1, <1>2, <1>7 DEF IInv, TypeOK, PassInv, Copied
  <2>2. Copied' /\ SpecKept' /\ CalmKnown'
    BY <1>1, <1>2, <1>3, <1>7, <2>1 DEF IInv, PassInv, Copied, SpecKept, CalmKnown
  <2>3. CopyAgrees'
    BY <1>1, <1>3, <1>7 DEF IInv, PassInv, CopyAgrees, Agrees, Stamped, UpToDate, Doubled, Whole
  <2>4. Knows' /\ Sought' /\ DriftHonest'
    BY <1>3, <1>7 DEF Knows, Finalizing, Working, Sought, DriftHonest
  <2> QED
    BY <1>5, <2>2, <2>3, <2>4 DEF PassInv
<1> QED
  BY <1>4, <1>6, <1>7

\* The finalizer goes when nothing its CR wrote is left.
LEMMA ReleaseKeeps ==
  ASSUME IInv, NEW o \in Outcomes, RemoveFinalizer(o)
  PROVE  Server' /\ PassInv'
<1>1. /\ pc = "release" /\ Running /\ EndPass /\ UNCHANGED <<kind, live, outside, rekeyed, changed>>
      /\ crs' = crs \/ crs' = [crs EXCEPT ![at] = Gone]
  BY DEF RemoveFinalizer, Write, admin, Running
<1>2. at \in CRs /\ at # Other /\ cr.fin
  BY <1>1, RunningAt DEF IInv, PassInv, Knows, Finalizing
<1>3. \A r \in Stamped(at) : at \in rekeyed \/ Doubled(r.key)
  BY <1>1, <1>2, StampedKey DEF IInv, PassInv, Sought, Written, OfKey, Stamped
<1>4. Server'
  <2>1. CASE crs' = crs
    BY <1>1, <2>1, ServerIdle DEF IInv
  <2>2. CASE crs' = [crs EXCEPT ![at] = Gone]
    <3>1. Gone \in CRType /\ ~Gone.here /\ ~Gone.del /\ Gone.obs <= Gone.gen
      BY GoneType
    <3>2. \A d \in CRs \ {at} : d \in changed' <=> d \in changed
      BY <1>1
    <3>3. TypeOK /\ Server /\ rekeyed \subseteq rekeyed'
      BY <1>1 DEF IInv
    <3> QED
      BY <1>1, <1>2, <1>3, <2>2, <3>1, <3>2, <3>3, StoredChanges
  <2> QED
    BY <1>1, <2>1, <2>2
<1> QED
  BY <1>1, <1>4, EndPassKeeps

\* What the listing shows of a key that no outsider used.
LEMMA Listing ==
  ASSUME TypeOK, NoDouble, NEW k, NEW i \in FirstWithKey(k)
  PROVE  /\ i = 0 => \A r \in live : r.key # k
         /\ i # 0 => /\ \E r \in live : Candidate(r, k) /\ r.id = i
                     /\ \A r \in live : r.id = i => Candidate(r, k)
                     /\ \A r \in live : r.key = k => r.id = i \/ Doubled(r.key)
<1>1. \A r, s \in live : r.id = s.id => r = s
  BY DEF TypeOK
<1>2. \/ i = 0 /\ \A r \in live : r.key # k
      \/ \E r \in live : Candidate(r, k) /\ r.id = i
  BY TypesNumbered, FirstIs DEF FirstFact
<1>3. \A r \in live : r.id # 0
  BY TypesNumbered DEF Numbered
<1>4. CASE i = 0
  BY <1>2, <1>3, <1>4
<1>5. ASSUME NEW r \in live, Candidate(r, k), r.id = i
      PROVE  /\ \A s \in live : s.id = i => Candidate(s, k)
             /\ \A s \in live : s.key = k => s.id = i \/ Doubled(s.key)
  BY <1>1, <1>5 DEF Candidate, NoDouble
<1> QED
  BY <1>2, <1>4, <1>5

\* Before a deletion: the resource to delete is one of its key.
LEMMA LookupKeeps ==
  ASSUME IInv, NEW o \in Outcomes, Lookup(o)
  PROVE  Server' /\ PassInv'
<1>1. /\ UNCHANGED <<kind, crs, live, outside, rekeyed, changed>> /\ pc = "lookup"
      /\ \/ EndPass
         \/ /\ found' \in FirstWithKey(cr.spec.key)
            /\ pc' = IF found' = 0 THEN "release" ELSE "delete"
            /\ UNCHANGED <<at, cr, behind, drifted, calm>>
  BY DEF Lookup, LookupThen, kube, admin, history
<1>2. CASE EndPass
  BY <1>1, <1>2, ServerIdle, EndPassKeeps DEF IInv
<1>3. CASE /\ found' \in FirstWithKey(cr.spec.key)
           /\ pc' = IF found' = 0 THEN "release" ELSE "delete"
           /\ UNCHANGED <<at, cr, behind, drifted, calm>>
  <2>1. Server' /\ Copied' /\ SpecKept' /\ CalmKnown' /\ CopyAgrees'
    BY <1>1, <1>3, Onwards DEF IInv, Running
  <2>2. Knows' /\ DriftHonest'
    BY <1>1, <1>3 DEF IInv, PassInv, Knows, Finalizing, Working, DriftHonest
  <2>3. Sought'
    <3>1. CASE found' = 0
      <4>1. \A r \in live : r.key # cr.spec.key
        BY <1>3, <3>1, Listing DEF IInv, Server
      <4> QED
        BY <1>1, <1>3, <3>1, <4>1 DEF Sought, Written, OfKey
    <3>2. CASE found' # 0
      <4>1. /\ \A r \in live : r.id = found' => Candidate(r, cr.spec.key)
            /\ \A r \in live : r.key = cr.spec.key => r.id = found' \/ Doubled(r.key)
        BY <1>3, <3>2, Listing DEF IInv, Server
      <4> QED
        BY <1>1, <1>3, <3>2, <4>1 DEF Sought, Written, OfKey, Candidate, Doubled
    <3> QED
      BY <3>1, <3>2
  <2> QED
    BY <2>1, <2>2, <2>3 DEF PassInv
<1> QED
  BY <1>1, <1>2, <1>3

\* Before a sync: what differs from a spec already synced was not written by
\* the operator since, unless the key was doubled.
LEMMA FindKeeps ==
  ASSUME IInv, NEW o \in Outcomes, Find(o)
  PROVE  Server' /\ PassInv'
<1>1. PICK i \in FirstWithKey(cr.spec.key) :
      /\ UNCHANGED <<kind, crs, live, outside, rekeyed, changed, at, cr, behind, calm>> /\ pc = "find"
      /\ \/ pc' = "failed" /\ drifted' = drifted
         \/ pc' = "create" /\ i = 0
         \/ pc' = "synced" /\ \E r \in live : r.id = i /\ UpToDate(r, cr.spec)
         \/ /\ pc' = "patch" /\ i # 0 /\ found' = i /\ drifted' = (cr.obs = cr.gen)
            /\ ~ \E r \in live : r.id = i /\ UpToDate(r, cr.spec)
  BY DEF Find, FindThen, Goto, held, kube, admin, history
<1>2. Server' /\ Copied' /\ SpecKept' /\ CalmKnown' /\ CopyAgrees'
  BY <1>1, Onwards DEF IInv, Running
<1>3. at \in CRs /\ cr.fin
  BY <1>1, RunningAt DEF IInv, Running, PassInv, Knows, Working
<1>4. Knows'
  BY <1>1, <1>3 DEF Knows, Finalizing, Working
<1>5. /\ i = 0 => \A r \in live : r.key # cr.spec.key
      /\ i # 0 => /\ \E r \in live : Candidate(r, cr.spec.key) /\ r.id = i
                  /\ \A r \in live : r.id = i => Candidate(r, cr.spec.key)
                  /\ \A r \in live : r.key = cr.spec.key => r.id = i \/ Doubled(r.key)
  BY Listing DEF IInv, Server
<1>6. \A r \in live : r.id # 0
  BY TypesNumbered DEF IInv, Numbered
<1>7. \A r, s \in live : r.id = s.id => r = s
  BY DEF IInv, TypeOK
<1>8. CASE pc' = "failed"
  BY <1>2, <1>4, <1>8 DEF PassInv, Sought, DriftHonest
<1>9. CASE pc' = "create" /\ i = 0
  <2>1. Sought' /\ DriftHonest'
    BY <1>1, <1>5, <1>9 DEF Sought, DriftHonest, OfKey
  <2> QED
    BY <1>2, <1>4, <2>1 DEF PassInv
<1>10. CASE pc' = "synced" /\ \E r \in live : r.id = i /\ UpToDate(r, cr.spec)
  <2>1. PICK r \in live : r.id = i /\ UpToDate(r, cr.spec)
    BY <1>10
  <2>2. i # 0 /\ Candidate(r, cr.spec.key)
    BY <1>5, <1>6, <2>1
  <2>3. Agrees(at, cr.spec)
    <3> SUFFICES ASSUME NEW s \in live, s.by = at
                 PROVE  UpToDate(s, cr.spec) \/ at \in rekeyed \/ Doubled(s.key)
      BY DEF Agrees, Stamped
    <3>1. s.key = cr.spec.key \/ at \in rekeyed \/ Doubled(s.key)
      BY <1>1, <1>3, StampedKey DEF IInv, Running
    <3>2. s.key = cr.spec.key => s = r \/ Doubled(s.key)
      BY <1>5, <1>7, <2>1, <2>2
    <3> QED
      BY <2>1, <3>1, <3>2
  <2>4. InPlace(cr.spec)
    BY <2>1, <2>2 DEF InPlace
  <2>5. Agrees(at, cr.spec)' /\ InPlace(cr.spec)'
    BY <1>1, <2>3, <2>4 DEF Agrees, Stamped, UpToDate, Doubled, InPlace, Candidate
  <2>6. Sought' /\ DriftHonest'
    BY <1>10, <2>5 DEF Sought, DriftHonest
  <2> QED
    BY <1>2, <1>4, <2>6 DEF PassInv
<1>11. CASE /\ pc' = "patch" /\ i # 0 /\ found' = i /\ drifted' = (cr.obs = cr.gen)
            /\ ~ \E r \in live : r.id = i /\ UpToDate(r, cr.spec)
  <2>1. Sought'
    BY <1>1, <1>5, <1>11 DEF Sought, Candidate
  \* What this CR wrote for a generation in sync is up to date.
  <2>2. DriftHonest'
    <3> SUFFICES ASSUME cr.obs = cr.gen, Whole(cr.spec)', NEW r \in live, r.id = i, r.by = at
                 PROVE  at \in rekeyed \/ Doubled(r.key)'
      BY <1>1, <1>11 DEF DriftHonest
    <3>1. Agrees(at, cr.spec)
      BY <1>1 DEF IInv, PassInv, CopyAgrees, Running, Whole
    <3>2. UpToDate(r, cr.spec) \/ at \in rekeyed \/ Doubled(r.key)
      BY <3>1 DEF Agrees, Stamped
    <3> QED
      BY <1>1, <1>11, <3>2 DEF Doubled
  <2> QED
    BY <1>2, <1>4, <2>1, <2>2 DEF PassInv
<1> QED
  BY <1>1, <1>8, <1>9, <1>10, <1>11

\* A resource goes only for a CR that is being deleted.
LEMMA DeleteKeeps ==
  ASSUME IInv, NEW o \in Outcomes, DeleteRemote(o)
  PROVE  Server' /\ PassInv'
<1>1. /\ pc = "delete" /\ UNCHANGED <<kind, crs, outside, rekeyed>>
      /\ \/ Applied(o) /\ live' = {r \in live : r.id # found} /\ changed' = changed \cup (CRs \ {at})
         \/ ~Applied(o) /\ live' = live /\ changed' = changed
      /\ EndPass \/ (o = "ok" /\ pc' = "release" /\ UNCHANGED <<at, cr, behind, found, drifted, calm>>)
  BY DEF DeleteRemote, kube, Goto, held
<1>2. at \in CRs /\ cr.del /\ cr.fin /\ crs[at].del
  BY <1>1, RunningAt DEF IInv, Running, PassInv, Copied, Knows, Finalizing
<1>3. live' \subseteq live
  BY <1>1
<1>4. Server'
  <2>1. StoredSane' /\ NoDouble'
    BY <1>1, <1>3 DEF IInv, Server, StoredSane, NoDouble, Doubled
  <2>2. StampKey' /\ StampTrue'
    BY <1>1, <1>3 DEF IInv, Server, StampKey, StampTrue, Agrees, Stamped, UpToDate, Doubled, Whole
  <2>3. StatusTrue'
    BY <1>1, <1>2 DEF IInv, Server, StatusTrue, InPlace, Candidate, UpToDate, Whole
  <2> QED
    BY <2>1, <2>2, <2>3 DEF Server
<1>5. CASE EndPass
  BY <1>4, <1>5, EndPassKeeps
<1>6. CASE o = "ok" /\ pc' = "release" /\ UNCHANGED <<at, cr, behind, found, drifted, calm>>
  <2>1. live' = {r \in live : r.id # found} /\ (calm \/ changed' = changed)
    <3>1. ~calm => changed = CRs
      BY <1>1 DEF IInv, PassInv, CalmKnown, Running
    <3> QED
      BY <1>1, <1>6, <3>1 DEF Applied
  <2>2. Copied' /\ SpecKept' /\ CalmKnown'
    BY <1>1, <1>6, <2>1, PassGoesOn DEF IInv, Running
  <2>3. CopyAgrees'
    BY <1>1, <1>3, <1>6 DEF IInv, PassInv, CopyAgrees, Running, Agrees, Stamped, UpToDate, Doubled, Whole
  <2>4. \A r \in Written : r.id = found \/ Doubled(r.key)
    BY <1>1 DEF IInv, PassInv, Sought
  <2>5. Sought'
    BY <1>1, <1>6, <2>1, <2>4 DEF Sought, Written, OfKey, Doubled
  <2>6. Knows' /\ DriftHonest'
    BY <1>2, <1>6 DEF Knows, Finalizing, Working, DriftHonest
  <2> QED
    BY <1>4, <2>2, <2>3, <2>5, <2>6 DEF PassInv
<1> QED
  BY <1>1, <1>5, <1>6

\* The resource the operator creates for the CR of the pass.
LEMMA CreateKeeps ==
  ASSUME IInv, TypeOK', NEW o \in Outcomes, Create(o)
  PROVE  Server' /\ PassInv'
<1>1. /\ UNCHANGED <<kind, crs, outside, rekeyed, changed, at, cr, behind, found, drifted, calm>>
      /\ pc = "create" /\ pc' \in {"synced", "failed"}
      /\ \/ live' = live /\ pc' = "failed"
         \/ /\ Accepted(cr.spec.key)
            /\ live' = live \cup {[id |-> last + 1, key |-> cr.spec.key, body |-> cr.spec.body,
                                   on |-> (kind = "policy" \/ cr.spec.on), by |-> at]}
  BY DEF Create, Add, Applied, kube, admin, history, Goto, held
<1>2. at \in CRs /\ cr.fin /\ crs[at].here /\ crs[at].fin
      /\ (at \in rekeyed \/ crs[at].spec.key = cr.spec.key)
      /\ cr.spec.on \in BOOLEAN
  BY <1>1, RunningAt, SpecsAssumption
     DEF IInv, Running, PassInv, Copied, Knows, Working, CRType, SpecType
<1>3. Copied' /\ SpecKept' /\ CalmKnown'
  BY <1>1, PassGoesOn DEF IInv, Running
<1>4. Knows' /\ DriftHonest'
  BY <1>1, <1>2 DEF Knows, Finalizing, Working, DriftHonest
<1>5. CASE live' = live /\ pc' = "failed"
  BY <1>1, <1>3, <1>4, <1>5, ServerIdle, CopyStays DEF IInv, Running, PassInv, Sought
<1>6. ASSUME NEW new, live' = live \cup {new}, new.id = last + 1, new.key = cr.spec.key, new.by = at,
             new.body = cr.spec.body, new.on = (kind = "policy" \/ cr.spec.on), Accepted(cr.spec.key)
      PROVE  Server' /\ PassInv'
  <2>1. last \in Nat /\ \A r \in live : r.id <= last /\ r.id \in Nat
    BY TypesNumbered DEF IInv, Numbered
  <2>2. Whole(cr.spec) => UpToDate(new, cr.spec)
    BY <1>2, <1>6 DEF Whole, UpToDate
  <2>3. \A r \in live : r.key = cr.spec.key => Doubled(r.key)
    BY <1>1, <1>6 DEF IInv, PassInv, Sought, OfKey, Accepted
  <2>4. NoDouble'
    BY <1>1, <1>6, <2>3 DEF IInv, Server, NoDouble, Doubled
  <2>5. StoredSane' /\ StampKey'
    BY <1>1, <1>2, <1>6 DEF IInv, Server, StoredSane, StampKey, Stamped, Doubled
  <2>6. \A spec, c : Agrees(c, spec) /\ (c = at => UpToDate(new, spec)) => Agrees(c, spec)'
    BY <1>1, <1>6 DEF Agrees, Stamped, UpToDate, Doubled
  <2>7. StampTrue'
    <3> SUFFICES ASSUME NEW c \in CRs, crs[c].here, crs[c].obs = crs[c].gen, Whole(crs[c].spec)'
                 PROVE  Agrees(c, crs[c].spec)'
      BY <1>1 DEF StampTrue
    <3>1. Whole(crs[c].spec) /\ Agrees(c, crs[c].spec)
      BY <1>1 DEF IInv, Server, StampTrue, Whole
    <3>2. c = at => crs[c].spec = cr.spec
      BY <1>1, <1>2, SameSpec DEF IInv, Running
    <3> QED
      BY <1>1, <1>6, <2>2, <3>1, <3>2 DEF Agrees, Stamped, UpToDate, Doubled
  <2>8. \A r \in live : \A k : Candidate(r, k) => Candidate(r, k)'
    BY <1>6, <2>1 DEF Candidate
  <2>9. StatusTrue'
    BY <1>1, <1>6, <2>8 DEF IInv, Server, StatusTrue, InPlace, UpToDate, Whole
  <2>10. CopyAgrees'
    BY <1>1, <1>6, <2>2 DEF IInv, PassInv, CopyAgrees, Running, Agrees, Stamped, UpToDate, Doubled, Whole
  <2>11. ASSUME Whole(cr.spec) PROVE Agrees(at, cr.spec)'
    <3> SUFFICES ASSUME NEW r \in live', r.by = at
                 PROVE  UpToDate(r, cr.spec)' \/ at \in rekeyed \/ Doubled(r.key)'
      BY <1>1 DEF Agrees, Stamped
    <3>1. r = new \/ r.key = cr.spec.key \/ at \in rekeyed \/ Doubled(r.key)
      BY <1>1, <1>2, <1>6, StampedKey DEF IInv, Running
    <3>2. r = new \/ at \in rekeyed \/ Doubled(r.key)
      BY <1>6, <2>3, <3>1
    <3> QED
      BY <1>1, <2>2, <2>11, <3>2 DEF UpToDate, Doubled
  <2>12. ASSUME Whole(cr.spec), calm PROVE InPlace(cr.spec)'
    <3>1. \A r \in live : r.key # cr.spec.key
      BY <1>1, <2>12 DEF IInv, PassInv, Sought, OfKey
    <3>2. Candidate(new, cr.spec.key)' /\ new \in live'
      BY <1>1, <1>6, <2>1, <3>1 DEF Candidate
    <3> QED
      BY <1>1, <2>2, <2>12, <3>2 DEF InPlace, UpToDate
  <2>13. Sought'
    BY <1>1, <2>11, <2>12 DEF Sought, Whole
  <2> QED
    BY <1>3, <1>4, <2>4, <2>5, <2>7, <2>9, <2>10, <2>13 DEF Server, PassInv
<1> QED
  <2> DEFINE new == [id |-> last + 1, key |-> cr.spec.key, body |-> cr.spec.body,
                     on |-> (kind = "policy" \/ cr.spec.on), by |-> at]
  <2>1. /\ new.id = last + 1 /\ new.key = cr.spec.key /\ new.by = at
        /\ new.body = cr.spec.body /\ new.on = (kind = "policy" \/ cr.spec.on)
    OBVIOUS
  <2>2. CASE Accepted(cr.spec.key) /\ live' = live \cup {new}
    <3> HIDE DEF new
    <3> QED
      BY <1>6, <2>1, <2>2
  <2> QED
    BY <1>1, <1>5, <2>2

\* The resource the pass found becomes what the spec says.
LEMMA UpdateKeeps ==
  ASSUME IInv, TypeOK', NEW o \in Outcomes, Update(o)
  PROVE  Server' /\ PassInv'
<1>1. /\ UNCHANGED <<kind, crs, outside, rekeyed, at, cr, behind, found, drifted, calm>>
      /\ pc = "patch" /\ pc' \in {"synced", "failed"}
      /\ pc' = "synced" => Applied(o) /\ \E r \in live : r.id = found
      /\ changed' = IF Applied(o) THEN changed \cup (CRs \ {at}) ELSE changed
      /\ live' = {IF r.id = found /\ Applied(o)
                  THEN [r EXCEPT !.key = cr.spec.key, !.body = cr.spec.body, !.on = cr.spec.on, !.by = at]
                  ELSE r : r \in live}
  BY DEF Update, UpdateThen, Applied, kube, Goto, held
<1>2. at \in CRs /\ cr.fin /\ crs[at].here /\ crs[at].fin
      /\ (at \in rekeyed \/ crs[at].spec.key = cr.spec.key)
  BY <1>1, RunningAt DEF IInv, Running, PassInv, Copied, Knows, Working
<1>3. Copied' /\ SpecKept' /\ CalmKnown'
  <2>1. ~calm => changed = CRs
    BY <1>1 DEF IInv, PassInv, CalmKnown, Running
  <2> QED
    BY <1>1, <2>1, PassGoesOn DEF IInv, Running
<1>4. Knows' /\ DriftHonest'
  BY <1>1, <1>2 DEF Knows, Finalizing, Working, DriftHonest
<1> DEFINE Upd(r) == /\ Applied(o) /\ r.id = found /\ r.key = cr.spec.key
                     /\ r.body = cr.spec.body /\ r.on = cr.spec.on /\ r.by = at
<1>5. /\ \A r \in live' : \E s \in live : s.id = r.id /\ s.key = r.key /\ (r = s \/ Upd(r))
      /\ \A s \in live : \E r \in live' : /\ r.id = s.id /\ r.key = s.key /\ (r = s \/ Upd(r))
                                          /\ (Applied(o) /\ s.id = found => Upd(r))
  <2> DEFINE new(r) == [r EXCEPT !.key = cr.spec.key, !.body = cr.spec.body, !.on = cr.spec.on, !.by = at]
  <2>1. \A r \in live : /\ new(r).id = r.id /\ new(r).key = cr.spec.key /\ new(r).by = at
                        /\ new(r).body = cr.spec.body /\ new(r).on = cr.spec.on
    BY DEF IInv, TypeOK, Resources
  <2>2. \A r \in live : r.id = found => r.key = cr.spec.key
    BY <1>1 DEF IInv, PassInv, Sought
  <2>3. live' = {IF r.id = found /\ Applied(o) THEN new(r) ELSE r : r \in live}
    BY <1>1
  <2> HIDE DEF new
  <2> QED
    BY <2>1, <2>2, <2>3
<1>6. /\ \A r, s \in live' : r.id = s.id => r = s
      /\ \A r, s \in live : r.id = s.id => r = s
  BY DEF IInv, TypeOK
<1>7. \A r, spec : Upd(r) /\ spec = cr.spec => UpToDate(r, spec)
  BY DEF UpToDate
<1> HIDE DEF Upd
<1>8. \A r \in live' : Upd(r) => r.by = at /\ r.key = cr.spec.key
  BY DEF Upd
<1>9. StoredSane' /\ NoDouble'
  <2>1. StoredSane'
    BY <1>1 DEF IInv, Server, StoredSane
  <2> SUFFICES ASSUME NEW q \in live', NEW r \in live', q.key = r.key, ~Doubled(q.key)'
               PROVE  q = r
    BY <2>1 DEF NoDouble
  <2>2. PICK s \in live, t \in live : s.id = q.id /\ s.key = q.key /\ t.id = r.id /\ t.key = r.key
    BY <1>5
  <2>3. ~Doubled(s.key)
    BY <1>1, <2>2 DEF Doubled
  <2> QED
    BY <1>6, <2>2, <2>3 DEF IInv, Server, NoDouble
<1>10. StampKey'
  <2> SUFFICES ASSUME NEW c \in CRs, NEW r \in live', r.by = c
               PROVE  \/ crs[c].here /\ crs[c].fin /\ r.key = crs[c].spec.key
                      \/ c \in rekeyed \/ Doubled(r.key)
    BY <1>1 DEF StampKey, Stamped, Doubled
  <2>1. CASE Upd(r)
    BY <1>2, <1>8, <2>1
  <2>2. CASE r \in live
    BY <2>2 DEF IInv, Server, StampKey, Stamped
  <2> QED
    BY <1>5, <2>1, <2>2
<1>11. ASSUME NEW c, NEW spec, Agrees(c, spec), c = at => spec = cr.spec, NEW r \in live', r.by = c
       PROVE  UpToDate(r, spec) \/ c \in rekeyed \/ Doubled(r.key)
  BY <1>5, <1>7, <1>8, <1>11 DEF Agrees, Stamped
<1>12. StampTrue'
  <2> SUFFICES ASSUME NEW c \in CRs, crs[c].here, crs[c].obs = crs[c].gen, Whole(crs[c].spec),
                      NEW r \in live', r.by = c
               PROVE  UpToDate(r, crs[c].spec) \/ c \in rekeyed \/ Doubled(r.key)
    BY <1>1 DEF StampTrue, Agrees, Stamped, UpToDate, Doubled, Whole
  <2>1. Agrees(c, crs[c].spec)
    BY <1>1 DEF IInv, Server, StampTrue
  <2>2. c = at => crs[c].spec = cr.spec
    BY <1>1, SameSpec DEF IInv, Running
  <2> QED
    BY <1>11, <2>1, <2>2
<1>13. CopyAgrees'
  <2> SUFFICES ASSUME cr.obs = cr.gen, Whole(cr.spec), NEW r \in live', r.by = at
               PROVE  UpToDate(r, cr.spec) \/ at \in rekeyed \/ Doubled(r.key)
    BY <1>1 DEF CopyAgrees, Agrees, Stamped, UpToDate, Doubled, Whole
  <2>1. Agrees(at, cr.spec)
    BY <1>1 DEF IInv, PassInv, CopyAgrees, Running
  <2> QED
    BY <1>11, <2>1
\* A resource of a key stays one.
<1>14. \A s \in live : \A k : Candidate(s, k) =>
          \E r \in live' : Candidate(r, k)' /\ r.id = s.id /\ (r = s \/ Upd(r))
  <2> SUFFICES ASSUME NEW s \in live, NEW k, Candidate(s, k)
               PROVE  \E r \in live' : Candidate(r, k)' /\ r.id = s.id /\ (r = s \/ Upd(r))
    OBVIOUS
  <2>1. PICK r \in live' : r.id = s.id /\ r.key = s.key /\ (r = s \/ Upd(r))
    BY <1>5, Zenon
  <2> QED
    BY <2>1 DEF Candidate
<1>15. StatusTrue'
  <2> SUFFICES ASSUME NEW c \in CRs, crs[c].here, ~crs[c].del, crs[c].ready = "True",
                      crs[c].obs = crs[c].gen, Whole(crs[c].spec), c \notin changed'
               PROVE  InPlace(crs[c].spec)'
    BY <1>1 DEF StatusTrue, Whole
  <2>1. PICK s \in live : Candidate(s, crs[c].spec.key) /\ UpToDate(s, crs[c].spec)
    BY <1>1 DEF IInv, Server, StatusTrue, InPlace
  <2>2. PICK r \in live' : Candidate(r, crs[c].spec.key)' /\ (r = s \/ Upd(r))
    BY <1>1, <1>14, <2>1
  <2>3. Upd(r) => crs[c].spec = cr.spec
    <3>1. Upd(r) => c = at
      BY <1>1 DEF Upd
    <3> QED
      BY <1>1, <3>1, SameSpec DEF IInv, Running
  <2> QED
    BY <1>1, <1>7, <2>1, <2>2, <2>3 DEF InPlace, UpToDate
<1>16. ASSUME pc' = "synced" PROVE Agrees(at, cr.spec)' /\ (calm => InPlace(cr.spec)')
  <2>1. PICK s \in live : s.id = found /\ Applied(o)
    BY <1>1, <1>16
  <2>2. s.key = cr.spec.key
    BY <1>1, <2>1 DEF IInv, PassInv, Sought
  <2>3. PICK new \in live' : new.id = found /\ new.key = cr.spec.key /\ Upd(new)
    <3>1. PICK r \in live' : r.id = s.id /\ r.key = s.key /\ (Applied(o) /\ s.id = found => Upd(r))
      BY <1>5, Zenon
    <3> QED
      BY <2>1, <2>2, <3>1
  <2>4. Agrees(at, cr.spec)'
    <3> SUFFICES ASSUME NEW r \in live', r.by = at
                 PROVE  UpToDate(r, cr.spec) \/ at \in rekeyed \/ Doubled(r.key)
      BY <1>1 DEF Agrees, Stamped, UpToDate, Doubled
    <3>1. CASE Upd(r)
      BY <1>7, <3>1
    <3>2. CASE r \in live
      <4>1. r.key = cr.spec.key \/ at \in rekeyed \/ Doubled(r.key)
        BY <1>1, <1>2, <3>2, StampedKey DEF IInv, Running
      <4>2. r.key = cr.spec.key => r = new \/ Doubled(r.key)
        BY <1>1, <1>9, <2>3 DEF NoDouble, Doubled
      <4> QED
        BY <1>7, <2>3, <4>1, <4>2
    <3> QED
      BY <1>5, <3>1, <3>2
  <2>5. calm => InPlace(cr.spec)'
    <3> SUFFICES ASSUME calm PROVE InPlace(cr.spec)'
      OBVIOUS
    <3>1. PICK t \in live : Candidate(t, cr.spec.key) /\ t.id = found
      BY <1>1 DEF IInv, PassInv, Sought
    <3>2. PICK r \in live' : Candidate(r, cr.spec.key)' /\ r.id = found
      BY <1>1, <1>14, <3>1
    <3>3. r = new
      BY <1>6, <2>3, <3>2
    <3> QED
      BY <1>1, <1>7, <2>3, <3>2, <3>3 DEF InPlace, UpToDate
  <2> QED
    BY <2>4, <2>5
<1>17. Sought'
  BY <1>1, <1>16 DEF Sought
<1> QED
  BY <1>3, <1>4, <1>9, <1>10, <1>12, <1>13, <1>15, <1>17 DEF Server, PassInv

\* Every call of a running pass preserves IInv,
LEMMA PassKeeps ==
  ASSUME IInv, Continue
  PROVE  IInv'
<1>1. TypeOK'
  BY PassTypes DEF IInv
<1> SUFFICES Server' /\ PassInv'
  BY <1>1 DEF IInv
<1> QED
  BY <1>1, ResolveKeeps, RefetchKeeps, ErrorsKeep, LookupKeeps, DeleteKeeps, ReleaseKeeps,
     AddFinalizerKeeps, FindKeeps, CreateKeeps, UpdateKeeps, SyncedKeeps DEF Continue

-----------------------------------------------------------------------------
(* The others                                                              *)

\* as do a crash,
LEMMA CrashKeeps ==
  ASSUME IInv, Crash
  PROVE  IInv'
<1>1. UNCHANGED <<kind, crs, live, outside, rekeyed, changed>> /\ EndPass
  BY DEF Crash, kube, admin, history
<1> QED
  BY <1>1, CrashTypes, ServerIdle, EndPassKeeps DEF IInv

\* a change of a Secret,
LEMMA SecretKeeps ==
  ASSUME IInv, NEW s \in Secrets, ToggleSecret(s)
  PROVE  IInv'
<1>1. UNCHANGED <<kind, crs, live, outside, rekeyed, changed, at, cr, behind, found, drifted, calm, pc>>
  BY DEF ToggleSecret, admin, history, held
<1>2. TypeOK' /\ Server'
  BY <1>1, SecretTypes, ServerIdle DEF IInv
<1>3. Copied' /\ SpecKept' /\ CalmKnown'
  BY <1>1 DEF IInv, PassInv, Copied, SpecKept, CalmKnown, Running
<1>4. CopyAgrees' /\ Knows' /\ DriftHonest'
  BY <1>1 DEF IInv, PassInv, CopyAgrees, Knows, DriftHonest, Running, Finalizing, Working, Agrees,
     Stamped, UpToDate, Doubled, Whole
<1>5. Sought'
  BY <1>1 DEF IInv, PassInv, Sought, OfKey, Written, Candidate, InPlace, Agrees, Stamped,
     UpToDate, Doubled, Whole
<1> QED
  BY <1>2, <1>3, <1>4, <1>5 DEF IInv, PassInv

\* the user's writes,
LEMMA UserKeeps ==
  ASSUME IInv, NEW c \in CRs, Apply(c) \/ Edit(c) \/ Delete(c)
  PROVE  IInv'
<1>1. PICK new \in CRType :
        /\ UserWrites(c, new)
        /\ \/ ~crs[c].here /\ new.here /\ new.gen = 1 /\ new.obs = 0 /\ ~new.fin /\ ~new.del
              /\ rekeyed' = rekeyed
           \/ /\ crs[c].here /\ new.here /\ new.fin = crs[c].fin /\ new.del = crs[c].del
              /\ new.gen = crs[c].gen + 1 /\ new.obs = crs[c].obs
              /\ rekeyed' = rekeyed \cup (IF new.spec.key = crs[c].spec.key THEN {} ELSE {c})
           \/ /\ crs[c].here /\ new.here /\ crs[c].fin /\ new.fin /\ new.del
              /\ new.gen = crs[c].gen /\ new.obs = crs[c].obs /\ new.spec = crs[c].spec
              /\ rekeyed' = rekeyed
           \/ crs[c].here /\ ~crs[c].fin /\ new = Gone /\ rekeyed' = rekeyed
  BY UserWritten DEF IInv
<1>2. /\ UNCHANGED <<kind, live, outside, changed, at, pc, cr, found, drifted, calm>>
      /\ behind' = (behind \/ at = c) /\ crs' = [crs EXCEPT ![c] = new]
      /\ rekeyed \subseteq rekeyed'
  BY <1>1 DEF UserWrites, admin
<1>3. \A d \in CRs : crs'[d] = IF d = c THEN new ELSE crs[d]
  BY <1>2 DEF IInv, TypeOK
<1>4. /\ crs[c].obs \in Nat /\ crs[c].gen \in Nat /\ crs[c].obs <= crs[c].gen
      /\ crs[c].del => crs[c].fin
  BY DEF IInv, TypeOK, CRType, Server, StoredSane
<1>5. Server'
  <2>1. new.obs <= new.gen /\ (new.del => new.fin)
    BY <1>1, <1>4, GoneType
  <2>2. \A r \in Stamped(c) : \/ new.here /\ new.fin /\ r.key = new.spec.key
                             \/ c \in rekeyed' \/ Doubled(r.key)
    BY <1>1 DEF IInv, Server, StampKey
  <2>3. new.here /\ new.obs = new.gen =>
          /\ crs[c].here /\ crs[c].obs = crs[c].gen /\ new.spec = crs[c].spec /\ new.del
    BY <1>1, <1>4, GoneType
  <2>4. new.here /\ new.obs = new.gen /\ Whole(new.spec) => Agrees(c, new.spec)
    BY <2>3 DEF IInv, Server, StampTrue
  <2> QED
    BY <1>2, <2>1, <2>2, <2>3, <2>4, StoredChanges DEF IInv
<1>6. ASSUME Running PROVE Copied' /\ SpecKept'
  <2>1. at \in CRs
    BY <1>6, RunningAt DEF IInv
  <2>2. CASE at = c
    <3>1. /\ behind' /\ cr.here /\ cr.obs <= cr.gen /\ crs'[at] = new
          /\ cr.del => cr.fin /\ crs[c].del
          /\ cr.fin => /\ crs[c].here /\ crs[c].fin
                       /\ c \in rekeyed \/ crs[c].spec.key = cr.spec.key
          /\ crs[c].here => crs[c].obs < crs[c].gen \/ crs[c].spec = cr.spec
      BY <1>2, <1>3, <1>6, <2>2 DEF IInv, PassInv, Copied, SpecKept
    <3>2. /\ cr.del => new.del
          /\ cr.fin => new.here /\ new.fin /\ (c \in rekeyed' \/ new.spec.key = cr.spec.key)
      BY <1>1, <3>1
    <3>3. new.here => new.obs < new.gen \/ new.spec = cr.spec
      BY <1>1, <1>4, <3>1, GoneType
    <3> QED
      BY <1>2, <1>6, <2>2, <3>1, <3>2, <3>3 DEF Copied, SpecKept, Running
  <2>3. CASE at # c
    BY <1>2, <1>3, <1>6, <2>1, <2>3 DEF IInv, PassInv, Copied, SpecKept, Running
  <2> QED
    BY <2>2, <2>3
<1>7. Copied' /\ SpecKept'
  BY <1>2, <1>6 DEF Copied, SpecKept, Running
<1>8. CalmKnown' /\ Knows' /\ CopyAgrees'
  BY <1>2 DEF IInv, PassInv, CalmKnown, Knows, CopyAgrees, Running, Finalizing, Working, Agrees,
     Stamped, UpToDate, Doubled, Whole
<1>9. Sought' /\ DriftHonest'
  BY <1>2 DEF IInv, PassInv, Sought, DriftHonest, OfKey, Written, Candidate, InPlace, Agrees, Stamped,
     UpToDate, Doubled, Whole
<1> QED
  BY <1>5, <1>7, <1>8, <1>9, UserTypes DEF IInv, PassInv

\* what outsiders do at the Admin API,
LEMMA OutsideKeeps ==
  ASSUME IInv, OutsideStep
  PROVE  IInv'
<1>1. TypeOK'
  BY OutsideTypes DEF IInv
<1>2. /\ UNCHANGED <<kind, crs, rekeyed, at, cr, behind, found, drifted, pc>>
      /\ changed' = CRs /\ calm' = FALSE /\ outside \subseteq outside'
  BY OutsideDoes DEF IInv, kube
<1>3. /\ \A r \in live' : r \in live \/ r.by = Other
      /\ \A r \in live' : \/ \E s \in live : s.id = r.id /\ s.key = r.key
                        \/ /\ r.id = last + 1 /\ r.key \in outside'
                           /\ Unique => \A s \in live : s.key # r.key
  BY OutsideDoes DEF IInv
<1>4. /\ \A r, s \in live' : r.id = s.id => r = s
      /\ last \in Nat /\ found \in 0..last
  BY <1>1, TypesNumbered DEF IInv, TypeOK, Numbered
<1>5. NoDouble'
  <2> SUFFICES ASSUME NEW q \in live', NEW r \in live', q.key = r.key, ~Doubled(q.key)'
               PROVE  q.id = r.id
    BY <1>4 DEF NoDouble
  <2>1. Unique \/ q.key \notin outside'
    BY DEF Doubled
  <2>2. ASSUME NEW s \in live, NEW t \in live, s.id = q.id, s.key = q.key, t.id = r.id, t.key = r.key
        PROVE  q.id = r.id
    <3>1. ~Doubled(s.key)
      BY <1>2, <2>1, <2>2 DEF Doubled
    <3> QED
      BY <2>2, <3>1 DEF IInv, Server, NoDouble
  \* A key no outsider has doubled is not one of which he makes a second resource.
  <2>3. ASSUME NEW p \in live', p.key = q.key, ~\E s \in live : s.id = p.id /\ s.key = p.key
        PROVE  p.id = last + 1 /\ \A s \in live : s.key # q.key
    BY <1>3, <2>1, <2>3
  <2>4. CASE \E s \in live : s.id = q.id /\ s.key = q.key
    BY <2>2, <2>3, <2>4
  <2>5. CASE ~\E s \in live : s.id = q.id /\ s.key = q.key
    BY <2>3, <2>5
  <2> QED
    BY <2>4, <2>5
<1>6. \A c \in CRs : c # Other
  BY NamesAssumption
<1>7. Server'
  <2>1. StoredSane' /\ StatusTrue'
    BY <1>2 DEF IInv, Server, StoredSane, StatusTrue
  <2>2. StampKey' /\ StampTrue'
    BY <1>2, <1>3, <1>6 DEF IInv, Server, StampKey, StampTrue, Agrees, Stamped, UpToDate, Doubled, Whole
  <2> QED
    BY <1>5, <2>1, <2>2 DEF Server
<1>8. Copied' /\ SpecKept' /\ CalmKnown' /\ Knows'
  BY <1>2 DEF IInv, PassInv, Copied, SpecKept, CalmKnown, Knows, Running, Finalizing, Working
<1>9. Running => at \in CRs
  BY RunningAt DEF IInv
<1>10. CopyAgrees'
  BY <1>2, <1>3, <1>6, <1>9
     DEF IInv, PassInv, CopyAgrees, Running, Agrees, Stamped, UpToDate, Doubled, Whole
<1>11. Sought'
  <2>1. pc = "create" => Unique \/ \A r \in OfKey' : Doubled(r.key)'
    BY <1>2, <1>3 DEF IInv, PassInv, Sought, OfKey, Doubled
  <2>2. pc \in {"patch", "delete"} => \A r \in live' : r.id = found => r.key = cr.spec.key
    BY <1>3, <1>4 DEF IInv, PassInv, Sought
  <2>3. \A r \in Written' : r \in Written
    BY <1>2, <1>3 DEF Written, OfKey
  <2>4. /\ pc = "delete" => \A r \in Written' : r.id = found \/ Doubled(r.key)'
        /\ pc = "release" => \A r \in Written' : Doubled(r.key)'
    BY <1>2, <2>3 DEF IInv, PassInv, Sought, Doubled
  <2>5. pc = "synced" /\ Whole(cr.spec) => Agrees(at, cr.spec)'
    BY <1>2, <1>3, <1>6, <1>9 DEF IInv, PassInv, Sought, Running, Agrees, Stamped, UpToDate, Doubled
  <2> QED
    BY <1>2, <2>1, <2>2, <2>4, <2>5 DEF Sought, Whole
<1>12. DriftHonest'
  BY <1>2, <1>3, <1>6, <1>9 DEF IInv, PassInv, DriftHonest, Running, Whole, Doubled
<1> QED
  BY <1>1, <1>7, <1>8, <1>10, <1>11, <1>12 DEF IInv, PassInv

\* and so every step.
LEMMA NextKeeps == IInv /\ [Next]_vars => IInv'
<1> SUFFICES ASSUME IInv, [Next]_vars PROVE IInv'
  OBVIOUS
<1>1. CASE UNCHANGED vars
  <2>1. UNCHANGED <<kind, crs, live, last, outside, rekeyed, changed, at, cr, behind, found,
                    drifted, calm, pc>>
    BY <1>1 DEF vars, kube, admin, history, held
  <2>2. TypeOK'
    BY <1>1, NextTypes DEF IInv
  <2>3. Server'
    BY <2>1, ServerIdle DEF IInv
  <2>4. Copied' /\ SpecKept' /\ CalmKnown'
    BY <2>1 DEF IInv, PassInv, Copied, SpecKept, CalmKnown, Running
  <2>5. CopyAgrees' /\ Knows' /\ DriftHonest'
    BY <2>1 DEF IInv, PassInv, CopyAgrees, Knows, DriftHonest, Running, Finalizing, Working, Agrees,
       Stamped, UpToDate, Doubled, Whole
  <2>6. Sought'
    BY <2>1 DEF IInv, PassInv, Sought, OfKey, Written, Candidate, InPlace, Agrees, Stamped,
       UpToDate, Doubled, Whole
  <2> QED
    BY <2>2, <2>3, <2>4, <2>5, <2>6 DEF IInv, PassInv
<1> QED
  BY <1>1, PassKeeps, CrashKeeps, GetKeeps, UserKeeps, SecretKeeps, OutsideKeeps
     DEF Next, OutsideStep

\* The initial state satisfies IInv.
LEMMA InitHolds == Init => IInv
<1> SUFFICES ASSUME Init PROVE IInv
  OBVIOUS
<1>1. \A c \in CRs : crs[c] = Gone
  BY DEF Init
<1>2. Server
  BY <1>1, GoneType DEF Init, Server, StoredSane, NoDouble, StampKey, StampTrue, StatusTrue, Stamped,
     Agrees
<1>3. PassInv
  BY DEF Init, PassInv, Running, Copied, Knows, Finalizing, Working, SpecKept, CalmKnown,
     CopyAgrees, Sought, DriftHonest
<1> QED
  BY <1>2, <1>3, InitTypes DEF IInv

-----------------------------------------------------------------------------
(* Theorems                                                                *)

\* Every reachable state satisfies the inductive invariant.
THEOREM Inductive == Spec => []IInv
BY InitHolds, NextKeeps, PTL DEF Spec

\* The stored CRs, the resources and the running pass stay in their types, and
\* a pass that updates or deletes has found a resource.
THEOREM TypeCorrect == Spec => []TypeOK
<1>1. IInv => TypeOK
  BY DEF IInv
<1> QED
  BY <1>1, Inductive, PTL

\* What handleDeletion promises: a resource the operator wrote for a CR has that
\* CR stored and guarded.
THEOREM OrphanFree == Spec => []NoOrphan
<1>1. IInv => NoOrphan
  BY DEF IInv, Server, StampKey, NoOrphan
<1> QED
  BY <1>1, Inductive, PTL

\* A pass creates only what the listing does not show, and the listing shows all.
THEOREM OneOfAKey == Spec => []NoDouble
<1>1. IInv => NoDouble
  BY DEF IInv, Server
<1> QED
  BY <1>1, Inductive, PTL

\* setReady and observedGeneration together tell the truth about the resource.
THEOREM SyncedTrue == Spec => []SyncedTruth
<1>1. IInv => SyncedTruth
  BY MatchedIs DEF IInv, Server, StatusTrue, SyncedTruth
<1> QED
  BY <1>1, Inductive, PTL

\* emitDriftDetected never tells of the operator's own last write to the resource.
THEOREM HonestDrift == Spec => []DriftHonest
<1>1. IInv => DriftHonest
  BY DEF IInv, PassInv
<1> QED
  BY <1>1, Inductive, PTL
-----------------------------------------------------------------------------
(* Refinement of ManagedLifecycle, for each CR                             *)

\* The abstract state of a CR,
CRState(c) ==
  IF ~crs[c].here THEN "absent"
  ELSE IF crs[c].del THEN "terminating"
  ELSE IF crs[c].fin THEN "guarded" ELSE "plain"

\* and whether there is a resource the operator wrote for it, but for one left
\* behind by an edit of the key or hidden by a second one of the key.
Wrote(c) == c \notin rekeyed /\ \E r \in Stamped(c) : ~Doubled(r.key)
Remote(c) == IF Wrote(c) THEN "operator" ELSE "absent"

Life(c) == INSTANCE ManagedLifecycle WITH cr <- CRState(c), remote <- Remote(c)

\* The resources written for a CR are where they were when resources, keys and
\* history are.
LEMMA RemoteIdle ==
  ASSUME UNCHANGED <<live, outside, rekeyed>>, NEW c
  PROVE  Remote(c)' = Remote(c)
  BY DEF Remote, Wrote, Stamped, Doubled

\* A step that leaves the CR's abstraction may do what it likes with the
\* resources, as long as it ends without an orphan.
LEMMA WriteRefines ==
  ASSUME IInv', NEW c \in CRs, CRState(c)' = CRState(c)
  PROVE  [Life(c)!Next]_(Life(c)!vars)
<1>1. Wrote(c)' => crs'[c].here /\ crs'[c].fin
  BY DEF IInv, Server, StampKey, Wrote, Doubled, Stamped
<1>2. Remote(c)' = "operator" => CRState(c) \in {"guarded", "terminating"}
  BY <1>1 DEF Remote, CRState
<1>3. Remote(c)' \in {"operator", "absent"} /\ Remote(c) \in {"operator", "absent"}
  BY DEF Remote
<1> QED
  BY <1>2, <1>3 DEF Life!Next, Life!vars, Life!Manage, Life!Vanish

\* The finalizer is removed when the operator's resource is gone, and is the
\* first thing a pass writes.
LEMMA FinalizerRefines ==
  ASSUME IInv, NEW c \in CRs, NEW o \in Outcomes, RemoveFinalizer(o) \/ AddFinalizer(o),
         CRState(c)' # CRState(c)
  PROVE  Life(c)!Next
<1>1. Running /\ at \in CRs /\ cr \in CRType /\ crs[at] \in CRType /\ TypeOK
  BY RunningAt DEF IInv, Running, RemoveFinalizer, AddFinalizer
<1>2. PICK new \in {Gone, [cr EXCEPT !.fin = TRUE]} :
        /\ Write(o, new)
        /\ new = Gone => pc = "release"
        /\ new # Gone => pc = "guard" /\ new = [cr EXCEPT !.fin = TRUE]
  <2>1. ~Gone.here /\ (pc = "guard" => [cr EXCEPT !.fin = TRUE].here)
    BY <1>1, GoneType DEF IInv, PassInv, Copied, CRType
  <2> QED
    BY <2>1 DEF RemoveFinalizer, AddFinalizer
<1>3. crs' = [crs EXCEPT ![at] = new] /\ ~behind
  BY <1>2 DEF Write, CRState
<1>4. c = at /\ crs'[c] = new
  BY <1>1, <1>3 DEF CRState, TypeOK
<1>5. crs[c] = cr /\ cr.here /\ (cr.del => cr.fin)
  BY <1>1, <1>3, <1>4 DEF IInv, PassInv, Copied
<1>6. Remote(c)' = Remote(c)
  BY <1>2, RemoteIdle DEF Write, admin
<1>7. CASE new = Gone
  <2>1. pc = "release" /\ cr.del /\ CRState(c) = "terminating" /\ CRState(c)' = "absent"
    BY <1>2, <1>4, <1>5, <1>7, GoneType DEF IInv, PassInv, Knows, Finalizing, CRState
  <2>2. ~Wrote(c)
    <3> SUFFICES ASSUME NEW r \in Stamped(c), ~Doubled(r.key), c \notin rekeyed PROVE FALSE
      BY DEF Wrote
    <3>1. r \in live /\ r.key = cr.spec.key /\ r.by # Other
      BY <1>1, <1>4, <1>5, NamesAssumption DEF IInv, Server, StampKey, Stamped
    <3> QED
      BY <2>1, <3>1 DEF IInv, PassInv, Sought, Written, OfKey
  <2> QED
    BY <1>6, <2>1, <2>2 DEF Life!Next, Life!Release, Remote
<1>8. CASE new # Gone
  <2>1. new.here /\ new.fin /\ new.del = cr.del
    BY <1>1, <1>2, <1>5, <1>8 DEF CRType
  <2>2. CRState(c) = "plain" /\ CRState(c)' = "guarded"
    BY <1>4, <1>5, <2>1 DEF CRState
  <2> QED
    BY <1>6, <2>2 DEF Life!Next, Life!Guard
<1> QED
  BY <1>7, <1>8

\* The user applies and deletes the CR; an edit leaves its abstraction.
LEMMA UserRefines ==
  ASSUME IInv, NEW c \in CRs, NEW d \in CRs, Apply(d) \/ Edit(d) \/ Delete(d),
         CRState(c)' # CRState(c)
  PROVE  Life(c)!Next
<1>1. crs \in [CRs -> CRType]
  BY DEF IInv, TypeOK
<1>2. PICK new : UserWrites(d, new)
  BY DEF Apply, Edit, Delete
<1>3. crs' = [crs EXCEPT ![d] = new]
  BY <1>2 DEF UserWrites
<1>4. c = d
  BY <1>1, <1>3 DEF CRState
<1>5. CASE Apply(c)
  <2>1. PICK spec \in Specs : UserWrites(c, Fresh(spec))
    BY <1>5 DEF Apply
  <2>2. crs'[c] = Fresh(spec) /\ ~crs[c].here
    BY <1>1, <1>5, <2>1 DEF UserWrites, Apply
  <2>3. CRState(c) = "absent" /\ CRState(c)' = "plain"
    BY <2>2, FreshType DEF CRState
  <2>4. Remote(c)' = Remote(c)
    BY <1>5, <2>1, RemoteIdle DEF Apply, UserWrites, admin
  <2> QED
    BY <2>3, <2>4 DEF Life!Next, Life!Apply
<1>6. CASE Edit(c)
  <2>1. PICK spec : crs'[c] = [crs[c] EXCEPT !.spec = spec, !.gen = @ + 1]
    BY <1>1, <1>6 DEF Edit, UserWrites
  <2>2. crs'[c].here = crs[c].here /\ crs'[c].fin = crs[c].fin /\ crs'[c].del = crs[c].del
    BY <1>1, <2>1 DEF CRType
  <2> QED
    BY <2>2 DEF CRState
<1>7. CASE Delete(c)
  <2>1. Remote(c)' = Remote(c) /\ crs[c].here /\ ~crs[c].del
    BY <1>7, RemoteIdle DEF Delete, UserWrites, admin
  <2>2. crs'[c] = IF crs[c].fin THEN [crs[c] EXCEPT !.del = TRUE] ELSE Gone
    BY <1>1, <1>7 DEF Delete, UserWrites
  <2>3. CASE crs[c].fin
    <3>1. crs'[c].here /\ crs'[c].del
      BY <1>1, <2>1, <2>2, <2>3 DEF CRType
    <3> QED
      BY <2>1, <2>3, <3>1 DEF Life!Next, Life!Delete, CRState
  <2>4. CASE ~crs[c].fin
    BY <2>1, <2>2, <2>4, GoneType DEF Life!Next, Life!Delete, CRState
  <2> QED
    BY <2>3, <2>4
<1> QED
  BY <1>4, <1>5, <1>6, <1>7

\* Every other step leaves the CR where it is in its life: a status changes
\* neither its presence nor its finalizer nor its mark.
LEMMA OthersKeepState ==
  ASSUME IInv, NEW c \in CRs, [Next]_vars, CRState(c)' # CRState(c)
  PROVE  \/ \E o \in Outcomes : RemoveFinalizer(o) \/ AddFinalizer(o)
         \/ \E d \in CRs : Apply(d) \/ Edit(d) \/ Delete(d)
<1>1. crs' # crs /\ TypeOK
  BY DEF CRState, IInv
<1>2. ASSUME NEW o \in Outcomes, AuthSecretError(o) \/ ReportSynced(o) \/ ReportError(o)
      PROVE  FALSE
  <2>1. PICK new : /\ Write(o, new)
                   /\ \/ new = [cr EXCEPT !.ready = "AuthSecretError"]
                      \/ new = [cr EXCEPT !.ready = "ReconcileError", !.synced = "ReconcileError"]
                      \/ \E s : new = [cr EXCEPT !.obs = cr.gen, !.ready = "True", !.synced = s]
    BY <1>2 DEF AuthSecretError, ReportSynced, ReportError
  <2>2. Running
    BY <1>2 DEF AuthSecretError, ReportSynced, ReportError, Running
  <2>3. at \in CRs /\ cr \in CRType
    BY <1>1, <2>2, RunningAt
  <2>4. ~behind /\ crs' = [crs EXCEPT ![at] = new]
    BY <1>1, <2>1 DEF Write
  <2>5. cr = crs[at]
    BY <2>2, <2>4 DEF IInv, PassInv, Copied
  <2>6. new.here = cr.here /\ new.fin = cr.fin /\ new.del = cr.del
    BY <2>1, <2>3 DEF CRType
  <2>7. \A d \in CRs : crs'[d] = IF d = at THEN new ELSE crs[d]
    BY <1>1, <2>4 DEF TypeOK
  <2> QED
    BY <2>3, <2>5, <2>6, <2>7 DEF CRState
<1> QED
  BY <1>1, <1>2
     DEF Next, Continue, ResolveAuth, Refetch, Lookup, LookupThen, DeleteRemote, Find, FindThen,
         Create, Update, UpdateThen, Crash, GetCR, ToggleSecret, OutsideCreate, OutsideEdit,
         OutsideDelete, vars, kube

\* Each of the four controllers implements the finalizer protocol for every one
\* of its CRs, whatever the passes for the others do: nothing is written before
\* the finalizer, and it goes only when what was written is gone.  Not for a CR
\* whose key was edited, nor where an outsider doubled the key.
THEOREM Refinement == ASSUME NEW c \in CRs PROVE Spec => Life(c)!Spec
<1>1. Init => Life(c)!Init
  BY GoneType DEF Init, Life!Init, CRState, Remote, Wrote, Stamped
<1>2. IInv /\ IInv' /\ [Next]_vars => [Life(c)!Next]_(Life(c)!vars)
  BY WriteRefines, OthersKeepState, FinalizerRefines, UserRefines
<1> QED
  BY <1>1, <1>2, Inductive, PTL DEF Spec, Life!Spec
=============================================================================
