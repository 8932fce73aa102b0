-------------------------- MODULE OrgSettingsProofs --------------------------
(***************************************************************************)
(* Safety of the ClavexOrg controller, for any sets of CRs, organisations, *)
(* sections and values and any number of faults: its types, no marker      *)
(* without its CR, true statuses, honest drift, and no correction without  *)
(* an Event but after a fault.                                             *)
(***************************************************************************)
EXTENDS OrgSettings, TLAPS

\* Sections of the rest of a pass.
Pending(q) == {q[i] : i \in DOMAIN q}

Running == pass.pc # "idle"
Syncing == pass.pc \in {"section", "put", "synced"}
Unmarking == pass.pc \in {"unmark", "release"}

\* A generation is observed after it was made; only a guarded CR can be marked
\* for deletion.
StoredSane ==
  \A c \in CRs : crs[c].obs <= crs[c].gen /\ (crs[c].del => crs[c].fin)

\* What a pass may rely on of its copy: the stored CR is the same unless the
\* copy is behind, and keeps the finalizer and the deletion mark the copy shows.
Copied ==
  Running =>
    /\ pass.cr.here
    /\ pass.cr.obs <= pass.cr.gen
    /\ ~pass.behind => pass.cr = crs[pass.at]
    /\ pass.cr.fin => crs[pass.at].here /\ crs[pass.at].fin
    /\ pass.cr.del => pass.cr.fin /\ crs[pass.at].del

\* What the steps of a pass know.
Knows ==
  /\ Syncing \/ Unmarking \/ pass.pc \in {"refetch", "abandon", "failed"} => pass.cr.fin
  /\ Unmarking \/ pass.pc = "abandon" => pass.cr.del
  /\ ~Syncing /\ pass.pc # "failed" => ~pass.drifted /\ ~pass.differs

\* A generation in sync is the one the pass works for, written under it or not.
SpecKept ==
  Running /\ crs[pass.at].here
  => crs[pass.at].obs < crs[pass.at].gen \/ crs[pass.at].spec = pass.cr.spec

\* A pass that works on another organisation than the Secret names now: the
\* Secret moved.
OrgKept ==
  Running /\ pass.pc # "auth" /\ pass.org # secret[pass.at]
  => /\ pass.at \in moved
     /\ <<pass.at, "value">> \in changed /\ <<pass.at, "marker">> \in changed
     /\ ~pass.calm

\* The markers of a CR whose Secret did not move are in one organisation.
AtHome ==
  \A o \in Orgs, s \in SectionSet :
    LET c == live[o][s].by IN c # None /\ c \notin moved => o = secret[c]

\* The finalizer has cleared the sections behind it.
Cleared ==
  Unmarking /\ pass.at \notin moved
  => \A s \in SectionSet : live[pass.org][s].by = pass.at => s \in Pending(pass.todo)

\* A pass leaves the sections behind it as its copy asks, until others change
\* them: `calm' and `changed' know.
Done ==
  Syncing =>
    \A s \in SectionSet \ Pending(pass.todo) :
      LET now == live[pass.org][s] IN
      /\ pass.cr.spec[s] # None /\ (pass.calm \/ <<pass.at, "value">> \notin changed)
         => now.value = pass.cr.spec[s]
      /\ pass.calm \/ <<pass.at, "marker">> \notin changed
         => IF pass.cr.spec[s] = None THEN now.by # pass.at ELSE now.by # None

Valued(spec, o) == \A s \in SectionSet : spec[s] # None => live[o][s].value = spec[s]

\* The values of an observed generation are in place, whatever the status says,
\* until others change one; so for the stored CR and for a pass's copy.
StoredObserved ==
  \A c \in CRs :
    crs[c].here /\ crs[c].obs = crs[c].gen /\ <<c, "value">> \notin changed
    => Valued(crs[c].spec, secret[c])

CopyObserved ==
  Running /\ pass.cr.obs = pass.cr.gen /\ <<pass.at, "value">> \notin changed
  => Valued(pass.cr.spec, secret[pass.at])

\* Drift found on an observed generation is somebody else's.
DriftKnown ==
  Running /\ (pass.drifted \/ pass.differs) /\ pass.cr.obs = pass.cr.gen
  => <<pass.at, "value">> \in changed

\* A pass that has not failed still knows of what it replaced.
Reporting == silent => pass.pc \in {"idle", "failed"} \/ (Syncing /\ pass.drifted)

StoreInv == TypeOK /\ StoredSane /\ AtHome /\ NoStrayMarker /\ SyncedTruth /\ StoredObserved

PassInv ==
  Copied /\ Knows /\ SpecKept /\ OrgKept /\ Cleared /\ Done /\ CopyObserved /\ DriftKnown

IInv == StoreInv /\ PassInv /\ Reporting

-----------------------------------------------------------------------------
(* Sequences of sections, and the types of the records                     *)

\* The section at hand, and the sections still to come.
LEMMA HeadAndTail ==
  ASSUME NEW q \in Seq(SectionSet), q # <<>>
  PROVE  /\ Head(q) \in SectionSet /\ Tail(q) \in Seq(SectionSet)
         /\ Pending(q) = {Head(q)} \cup Pending(Tail(q))
<1>1. Len(q) \in Nat /\ Len(q) > 0 /\ DOMAIN q = 1..Len(q)
  OBVIOUS
<1>2. Tail(q) \in Seq(SectionSet) /\ Len(Tail(q)) = Len(q) - 1 /\ Head(q) = q[1]
  BY <1>1
<1>3. \A i \in 1..(Len(q) - 1) : Tail(q)[i] = q[i + 1]
  BY <1>1
<1>4. Pending(q) \subseteq {Head(q)} \cup Pending(Tail(q))
  <2> SUFFICES ASSUME NEW i \in 1..Len(q), i # 1
               PROVE  q[i] \in Pending(Tail(q))
    BY <1>1, <1>2 DEF Pending
  <2>1. i - 1 \in 1..(Len(q) - 1) /\ q[i] = Tail(q)[i - 1]
    BY <1>1, <1>3
  <2>2. DOMAIN Tail(q) = 1..(Len(q) - 1)
    BY <1>2
  <2> QED
    BY <2>1, <2>2 DEF Pending
<1>5. {Head(q)} \cup Pending(Tail(q)) \subseteq Pending(q)
  <2>1. Head(q) \in Pending(q)
    BY <1>1, <1>2 DEF Pending
  <2>2. ASSUME NEW i \in 1..(Len(q) - 1) PROVE Tail(q)[i] \in Pending(q)
    BY <1>1, <1>3 DEF Pending
  <2>3. DOMAIN Tail(q) = 1..(Len(q) - 1)
    BY <1>2
  <2> QED
    BY <2>1, <2>2, <2>3 DEF Pending
<1>6. Head(q) \in SectionSet
  BY <1>1, <1>2
<1> QED
  BY <1>2, <1>4, <1>5, <1>6

\* A pass that starts has sections to work through.
LEMMA SectionsType == Sections \in Seq(SectionSet) /\ Sections # <<>>
  BY SectionsAssumption

\* All of them wait when it starts, none when it is done.
LEMMA AllPending == Pending(Sections) = SectionSet /\ Pending(<<>>) = {}
  BY DEF Pending, SectionSet

\* The CR that is not there and the pass that does not run have their types.
LEMMA RecordTypes == Gone \in CRType /\ NoPass \in PassType /\ ~Gone.here
<1>1. (CHOOSE s \in Specs : TRUE) \in Specs
  BY SpecsAssumption
<1>2. Gone \in CRType /\ ~Gone.here
  BY <1>1 DEF Gone, Fresh, CRType, Readys
<1> QED
  BY <1>2 DEF NoPass, PassType, Steps

-----------------------------------------------------------------------------
(* Types *)

\* A call may cost a fault; what the users own it leaves alone.
LEMMA CallTypes ==
  ASSUME TypeOK, NEW o, Call(o)
  PROVE  /\ secret' = secret /\ missing' = missing /\ moved' = moved /\ user' = user
         /\ faults' \in Nat /\ faults' <= faults /\ (o # "ok" => faults' < faults)
  BY DEF Call, TypeOK

\* A replacement of settings is one of the pass's section.
LEMMA ReplaceTypes ==
  ASSUME TypeOK, NEW o, NEW new \in Settings, Replace(o, new), pass.todo # <<>>, pass.org # None
  PROVE  /\ live' \in [Orgs -> [SectionSet -> Settings]]
         /\ changed' \subseteq CRs \X Kinds
         /\ crs' = crs /\ blind' = blind
<1>1. Head(pass.todo) \in SectionSet /\ pass.org \in Orgs
  BY HeadAndTail DEF TypeOK, PassOK, PassType
<1> QED
  BY <1>1 DEF TypeOK, Replace, Seen, Kinds

\* Settings without the marker at hand are settings.
LEMMA UnmarkedType ==
  ASSUME TypeOK, pass.todo # <<>>, pass.org # None
  PROVE  Unmarked \in Settings
<1>1. Head(pass.todo) \in SectionSet /\ pass.org \in Orgs
  BY HeadAndTail DEF TypeOK, PassOK, PassType
<1>2. live[pass.org][Head(pass.todo)] \in Settings
  BY <1>1 DEF TypeOK
<1> QED
  BY <1>2 DEF Unmarked, Settings

\* A step on to the next section, after any drift.
LEMMA AdvanceOK ==
  ASSUME PassOK, pass.pc \in {"section", "put"}, NEW drift \in BOOLEAN, Advance(drift)
  PROVE  PassOK'
<1>1. pass.at \in CRs /\ pass.org \in Orgs /\ Tail(pass.todo) \in Seq(SectionSet)
  BY HeadAndTail DEF PassOK, PassType
<1>2. NextStep \in {"synced", "section"} /\ (NextStep = "synced" <=> Tail(pass.todo) = <<>>)
  BY DEF NextStep
<1>3. /\ pass'.pc = NextStep /\ pass'.at = pass.at /\ pass'.org = pass.org
      /\ pass'.todo = Tail(pass.todo)
  BY DEF Advance, AdvanceTo, PassOK, PassType
<1>4. pass' \in PassType
  BY <1>1, <1>2 DEF Advance, AdvanceTo, PassOK, PassType, Steps
<1> QED
  BY <1>1, <1>2, <1>3, <1>4, NoneAssumption DEF PassOK

\* A pass that gives up at a section stays in its type.
LEMMA FailedOK ==
  ASSUME PassOK, pass.pc \in {"section", "put"}, Goto("failed")
  PROVE  PassOK'
<1>1. pass.at \in CRs /\ pass.org \in Orgs
  BY DEF PassOK, PassType
<1>2. /\ pass'.pc = "failed" /\ pass'.at = pass.at /\ pass'.org = pass.org
      /\ pass' \in PassType
  BY DEF Goto, PassOK, PassType, Steps
<1> QED
  BY <1>1, <1>2, NoneAssumption DEF PassOK

\* A pass that is over has the type of one that does not run.
LEMMA NoPassOK == pass' = NoPass => PassOK'
  BY RecordTypes DEF PassOK, NoPass

\* Every step keeps the types.
LEMMA TypeKeeps == TypeOK /\ [Next]_vars => TypeOK'
<1> SUFFICES ASSUME TypeOK, [Next]_vars
             PROVE  TypeOK'
  OBVIOUS
<1> USE SectionsType, NoneAssumption, RecordTypes
<1>1. ASSUME NEW c \in CRs, GetCR(c) PROVE TypeOK'
  BY <1>1 DEF GetCR, kube, history, TypeOK, PassOK, PassType, NoPass, Steps
<1>2. CASE ResolveAuth
  <2>1. PassOK'
    <3>1. CASE pass' = NoPass
      BY <3>1, NoPassOK
    <3>2. ASSUME pass' # NoPass PROVE PassOK'
      <4>1. PICK step \in {"unmark", "abandon", "autherr", "section", "guard"} :
              /\ pass' = [pass EXCEPT !.pc = step, !.org = secret[pass.at],
                            !.todo = IF step \in {"unmark", "section"} THEN Sections ELSE <<>>]
              /\ pass.pc = "auth"
        BY <1>2, <3>2 DEF ResolveAuth, ResolveThen, EndPass
      <4>2. pass.at \in CRs /\ secret[pass.at] \in Orgs
        BY <4>1 DEF TypeOK, PassOK, PassType
      <4>3. /\ pass'.pc = step /\ pass'.at = pass.at /\ pass'.org = secret[pass.at]
            /\ step \in {"unmark", "section"} => pass'.todo # <<>>
        BY <4>1 DEF TypeOK, PassOK, PassType
      <4>4. pass' \in PassType
        <5> DEFINE rest == IF step \in {"unmark", "section"} THEN Sections ELSE <<>>
        <5>1. rest \in Seq(SectionSet)
          BY SectionsType
        <5>2. pass' = [pass EXCEPT !.pc = step, !.org = secret[pass.at], !.todo = rest]
          BY <4>1
        <5> HIDE DEF rest
        <5> QED
          BY <4>2, <5>1, <5>2 DEF TypeOK, PassOK, PassType, Steps
      <4> QED
        BY <4>2, <4>3, <4>4 DEF PassOK
    <3> QED
      BY <3>1, <3>2
  <2> QED
    BY <1>2, <2>1 DEF ResolveAuth, ResolveThen, kube, history, TypeOK
<1>3. CASE Refetch
  <2>1. PassOK'
    <3>1. CASE crs[pass.at].here
      <4>1. pass.at \in CRs /\ pass.org \in Orgs
        BY <1>3 DEF Refetch, TypeOK, PassOK, PassType
      <4>2. /\ pass'.pc = "section" /\ pass'.at = pass.at /\ pass'.org = pass.org
            /\ pass'.todo # <<>>
        BY <1>3, <3>1 DEF Refetch, TypeOK, PassOK, PassType
      <4>3. pass' \in PassType
        <5>1. crs[pass.at] \in CRType /\ pass \in PassType
          BY <4>1 DEF TypeOK, PassOK
        <5>2. pass' = [pass EXCEPT !.cr = crs[pass.at], !.behind = FALSE,
                         !.pc = "section", !.todo = Sections]
          BY <1>3, <3>1 DEF Refetch
        <5> QED
          BY <5>1, <5>2 DEF PassType, Steps
      <4> QED
        BY <4>1, <4>2, <4>3 DEF PassOK
    <3> QED
      BY <1>3, <3>1, NoPassOK DEF Refetch, EndPass
  <2> QED
    BY <1>3, <2>1 DEF Refetch, kube, history, TypeOK
<1>4. ASSUME NEW o \in Outcomes,
             \/ AuthSecretError(o) \/ RemoveFinalizer(o) \/ ReportError(o)
             \/ FinalizeWithoutClient(o) \/ ReportSynced(o)
      PROVE  TypeOK'
  <2>1. PassOK'
    BY <1>4, NoPassOK
       DEF AuthSecretError, RemoveFinalizer, ReportError, FinalizeWithoutClient, ReportSynced, EndPass
  <2>2. pass.at \in CRs /\ pass.cr \in CRType
    BY <1>4
       DEF AuthSecretError, RemoveFinalizer, ReportError, FinalizeWithoutClient, ReportSynced,
           TypeOK, PassOK, PassType
  <2>3. PICK new \in CRType : Write(o, new)
    BY <1>4, <2>2
       DEF AuthSecretError, RemoveFinalizer, ReportError, FinalizeWithoutClient, ReportSynced,
           CRType, Readys
  <2>4. crs' \in [CRs -> CRType] /\ live' = live
    BY <2>2, <2>3 DEF Write, TypeOK
  <2>5. changed' \subseteq changed /\ blind' \subseteq blind \cup {pass.at} /\ silent' \in BOOLEAN
    BY <1>4
       DEF AuthSecretError, RemoveFinalizer, ReportError, FinalizeWithoutClient, ReportSynced,
           TypeOK
  <2>6. Call(o)
    BY <2>3 DEF Write
  <2> QED
    BY <2>1, <2>2, <2>4, <2>5, <2>6, CallTypes DEF TypeOK
<1>5. ASSUME NEW o \in Outcomes, AddFinalizer(o) PROVE TypeOK'
  <2>1. pass.at \in CRs /\ pass.org \in Orgs /\ [pass.cr EXCEPT !.fin = TRUE] \in CRType
    BY <1>5 DEF AddFinalizer, TypeOK, PassOK, PassType, CRType
  <2>2. PassOK'
    <3>1. CASE pass' = [pass EXCEPT !.cr = [pass.cr EXCEPT !.fin = TRUE], !.pc = "refetch"]
      <4>1. pass' \in PassType
        BY <2>1, <3>1 DEF TypeOK, PassOK, PassType, Steps
      <4>2. pass'.pc = "refetch" /\ pass'.at = pass.at /\ pass'.org = pass.org
        BY <3>1 DEF TypeOK, PassOK, PassType
      <4> QED
        BY <2>1, <4>1, <4>2 DEF PassOK
    <3> QED
      BY <1>5, <3>1, NoPassOK DEF AddFinalizer, EndPass
  <2>3. crs' \in [CRs -> CRType] /\ live' = live /\ Call(o)
    BY <1>5, <2>1 DEF AddFinalizer, Write, TypeOK
  <2> QED
    BY <1>5, <2>2, <2>3, CallTypes DEF AddFinalizer, TypeOK
<1>6. ASSUME NEW o \in Outcomes, Unmark(o) PROVE TypeOK'
  <2>1. pass.at \in CRs /\ pass.org \in Orgs /\ Tail(pass.todo) \in Seq(SectionSet)
    BY <1>6, HeadAndTail DEF Unmark, UnmarkThen, TypeOK, PassOK, PassType
  <2>2. PassOK'
    <3>1. CASE o = "ok"
      <4>1. /\ pass'.pc = IF Tail(pass.todo) = <<>> THEN "release" ELSE "unmark"
            /\ pass'.at = pass.at /\ pass'.org = pass.org /\ pass'.todo = Tail(pass.todo)
        BY <1>6, <3>1 DEF Unmark, UnmarkThen, TypeOK, PassOK, PassType
      <4>2. pass' \in PassType
        <5>1. PICK step \in {"release", "unmark"} :
                pass' = [pass EXCEPT !.todo = Tail(pass.todo), !.pc = step]
          BY <1>6, <3>1 DEF Unmark, UnmarkThen
        <5> QED
          BY <2>1, <5>1 DEF TypeOK, PassOK, PassType, Steps
      <4> QED
        BY <2>1, <4>1, <4>2 DEF PassOK
    <3> QED
      BY <1>6, <3>1, NoPassOK DEF Unmark, UnmarkThen, EndPass
  <2>3. Unmarked \in Settings /\ pass.todo # <<>> /\ pass.org # None
    BY <1>6, <2>1, UnmarkedType DEF Unmark, UnmarkThen, TypeOK, PassOK
  <2>4. Replace(o, Unmarked) /\ Call(o) /\ silent' = silent
    BY <1>6 DEF Unmark, UnmarkThen, Replace
  <2> QED
    BY <2>2, <2>3, <2>4, ReplaceTypes, CallTypes DEF TypeOK
<1>7. ASSUME NEW o \in Outcomes, ReleaseSection(o) PROVE TypeOK'
  <2>1. PassOK'
    BY <1>7, AdvanceOK, FailedOK DEF ReleaseSection, ReleaseAs, TypeOK
  <2>2. Unmarked \in Settings /\ pass.todo # <<>> /\ pass.org # None
    BY <1>7, UnmarkedType DEF ReleaseSection, TypeOK, PassOK
  <2>3. Replace(o, Unmarked) /\ Call(o) /\ silent' = silent
    BY <1>7 DEF ReleaseSection, ReleaseAs, Replace
  <2> QED
    BY <2>1, <2>2, <2>3, ReplaceTypes, CallTypes DEF TypeOK
<1>8. ASSUME NEW o \in Outcomes, GetSection(o) PROVE TypeOK'
  <2>1. pass.pc = "section" /\ pass.cr.spec[Head(pass.todo)] # None /\ Call(o)
        /\ UNCHANGED <<crs, live, changed, blind, silent>>
    BY <1>8 DEF GetSection
  <2>2. \/ Goto("failed") \/ Advance(FALSE)
        \/ \E differs \in BOOLEAN : pass' = [pass EXCEPT !.pc = "put", !.differs = differs]
    BY <1>8 DEF GetSection
  <2>3. ASSUME NEW differs \in BOOLEAN, pass' = [pass EXCEPT !.pc = "put", !.differs = differs]
        PROVE  PassOK'
    <3>1. pass' \in PassType
      BY <2>3 DEF TypeOK, PassOK, PassType, Steps
    <3>2. /\ pass'.pc = "put" /\ pass'.at = pass.at /\ pass'.org = pass.org
          /\ pass'.todo = pass.todo /\ pass'.cr = pass.cr
      BY <2>3 DEF TypeOK, PassOK, PassType
    <3> QED
      BY <2>1, <3>1, <3>2 DEF TypeOK, PassOK
  <2>4. PassOK'
    BY <2>1, <2>2, <2>3, AdvanceOK, FailedOK DEF TypeOK
  <2> QED
    BY <2>1, <2>4, CallTypes DEF TypeOK
<1>9. ASSUME NEW o \in Outcomes, Put(o) PROVE TypeOK'
  <2>1. pass.differs \in BOOLEAN /\ pass.todo # <<>> /\ pass.org # None
    BY <1>9 DEF Put, PutAs, TypeOK, PassOK, PassType
  <2>2. PassOK'
    BY <1>9, <2>1, AdvanceOK, FailedOK DEF Put, PutAs, TypeOK
  <2>3. [value |-> pass.cr.spec[Head(pass.todo)], by |-> pass.at] \in Settings
    <3>1. Head(pass.todo) \in SectionSet /\ pass.cr.spec \in SpecType /\ pass.at \in CRs
      BY <1>9, HeadAndTail, SpecsAssumption
         DEF Put, PutAs, TypeOK, PassOK, PassType, CRType
    <3>2. pass.cr.spec[Head(pass.todo)] # None
      BY <1>9 DEF Put, PutAs, TypeOK, PassOK
    <3> QED
      BY <3>1, <3>2 DEF SpecType, Settings
  <2>4. /\ Replace(o, [value |-> pass.cr.spec[Head(pass.todo)], by |-> pass.at])
        /\ Call(o) /\ silent' \in BOOLEAN
    BY <1>9, <2>1 DEF Put, PutAs, Replace, TypeOK
  <2> QED
    BY <2>1, <2>2, <2>3, <2>4, ReplaceTypes, CallTypes DEF TypeOK
<1>10. CASE Crash
  BY <1>10, NoPassOK DEF Crash, EndPass, kube, history, TypeOK
<1>11. ASSUME NEW c \in CRs, Apply(c) \/ Edit(c) \/ Delete(c) PROVE TypeOK'
  <2>1. PICK new \in CRType : UserWrites(c, new)
    <3>1. CASE Apply(c)
      <4>1. \A spec \in Specs : Fresh(spec) \in CRType
        BY DEF Fresh, CRType, Readys
      <4> QED
        BY <3>1, <4>1 DEF Apply
    <3>2. CASE Edit(c)
      <4>1. \A spec \in Specs : [crs[c] EXCEPT !.spec = spec, !.gen = @ + 1] \in CRType
        <5>1. crs[c] \in CRType /\ crs[c].gen + 1 \in Nat
          BY DEF TypeOK, CRType
        <5> QED
          BY <5>1 DEF CRType
      <4> QED
        BY <3>2, <4>1 DEF Edit
    <3>3. CASE Delete(c)
      <4>1. [crs[c] EXCEPT !.del = TRUE] \in CRType
        BY DEF TypeOK, CRType
      <4> QED
        BY <3>3, <4>1 DEF Delete
    <3> QED
      BY <1>11, <3>1, <3>2, <3>3
  <2>2. PassOK' /\ crs' \in [CRs -> CRType]
    BY <2>1 DEF UserWrites, TypeOK, PassOK, PassType
  <2> QED
    BY <2>1, <2>2 DEF UserWrites, UserStep, TypeOK
<1>12. ASSUME NEW c \in CRs, ToggleSecret(c) PROVE TypeOK'
  BY <1>12 DEF ToggleSecret, UserStep, TypeOK, PassOK
<1>13. ASSUME NEW c \in CRs, MoveSecret(c) PROVE TypeOK'
  <2>1. PassOK'
    BY <1>13 DEF MoveSecret, Disturb, TypeOK, PassOK, PassType
  <2> QED
    BY <1>13, <2>1 DEF MoveSecret, UserStep, TypeOK, Kinds
<1>14. CASE OutsideEdit
  <2>1. PassOK'
    BY <1>14 DEF OutsideEdit, Disturb, TypeOK, PassOK, PassType
  <2>2. live' \in [Orgs -> [SectionSet -> Settings]] /\ changed' \subseteq CRs \X Kinds
    BY <1>14 DEF OutsideEdit, Seen, TypeOK
  <2> QED
    BY <1>14, <2>1, <2>2 DEF OutsideEdit, UserStep, kube, TypeOK
<1>15. CASE UNCHANGED vars
  BY <1>15 DEF vars, kube, history, TypeOK, PassOK
<1> QED
  BY <1>1, <1>2, <1>3, <1>4, <1>5, <1>6, <1>7, <1>8, <1>9, <1>10, <1>11, <1>12, <1>13, <1>14,
     <1>15 DEF Next, Continue

-----------------------------------------------------------------------------
(* What a pass leaves behind when it ends                                  *)

\* A pass that is over need not rely on anything.
LEMMA NothingRuns == pass' = NoPass => PassInv'
  BY DEF NoPass, PassInv, Copied, Knows, SpecKept, OrgKept, Cleared, Done, CopyObserved,
         DriftKnown, Running, Syncing, Unmarking

\* What every step of a running pass starts from.
LEMMA Current ==
  ASSUME IInv, Running
  PROVE  /\ pass.at \in CRs /\ pass.cr \in CRType /\ crs[pass.at] \in CRType
         /\ ~pass.behind => pass.cr = crs[pass.at]
         /\ pass.cr.here
  BY DEF IInv, StoreInv, PassInv, TypeOK, PassOK, PassType, Copied, Running

\* A status that does not claim to be in sync, or the finalizer.
LEMMA WriteKeeps ==
  ASSUME IInv, TypeOK', Running, NEW o, NEW new \in CRType, Write(o, new),
         new.here, new.fin = pass.cr.fin \/ new.fin, new.del = pass.cr.del,
         new.spec = pass.cr.spec, new.gen = pass.cr.gen, new.obs = pass.cr.obs,
         new.ready = pass.cr.ready \/ new.ready \notin {"Synced", "DriftCorrected"},
         UNCHANGED <<changed, blind>>
  PROVE  StoreInv'
<1>1. /\ secret' = secret /\ moved' = moved /\ live' = live
      /\ crs' = crs \/ (crs' = [crs EXCEPT ![pass.at] = new] /\ pass.cr = crs[pass.at])
  BY Current DEF Write, Call, Stores
<1>2. CASE crs' = crs
  BY <1>1, <1>2
     DEF IInv, StoreInv, StoredSane, AtHome, NoStrayMarker, SyncedTruth, StoredObserved, Ready,
         Held, Valued
<1>3. CASE crs' = [crs EXCEPT ![pass.at] = new] /\ pass.cr = crs[pass.at]
  <2>1. /\ pass.at \in CRs /\ crs \in [CRs -> CRType]
        /\ crs'[pass.at] = new /\ \A c \in CRs \ {pass.at} : crs'[c] = crs[c]
    BY <1>3, Current DEF IInv, StoreInv, TypeOK
  <2>2. StoredSane'
    BY <1>3, <2>1 DEF IInv, StoreInv, StoredSane
  <2>3. AtHome' /\ NoStrayMarker'
    <3>1. \A c \in CRs : crs[c].here /\ crs[c].fin => crs'[c].here /\ crs'[c].fin
      BY <1>3, <2>1
    <3>2. \A z \in Orgs, s \in SectionSet : live[z][s].by \in CRs \cup {None}
      BY DEF IInv, StoreInv, TypeOK, Settings
    <3> QED
      BY <1>1, <3>1, <3>2 DEF IInv, StoreInv, AtHome, NoStrayMarker
  <2>4. SyncedTruth'
    <3> SUFFICES ASSUME NEW c \in CRs, crs'[c].here, ~crs'[c].del, Ready(c)',
                        \A k \in Kinds : <<c, k>> \notin changed', NEW t \in SectionSet
                 PROVE  Held(c, t)'
      BY DEF SyncedTruth
    <3>1. /\ crs[c].here /\ ~crs[c].del /\ crs'[c].spec = crs[c].spec
          /\ crs[c].obs = crs[c].gen /\ crs[c].ready \in {"Synced", "DriftCorrected"}
      <4>1. CASE c = pass.at
        BY <1>3, <2>1, <4>1, Current DEF Ready
      <4>2. CASE c # pass.at
        BY <2>1, <4>2 DEF Ready
      <4> QED
        BY <4>1, <4>2
    <3>2. Held(c, t)
      BY <3>1 DEF IInv, StoreInv, SyncedTruth, Ready
    <3> QED
      BY <1>1, <3>1, <3>2 DEF Held
  <2>5. StoredObserved'
    BY <1>1, <1>3, <2>1, Current DEF IInv, StoreInv, StoredObserved, Valued
  <2> QED
    BY <2>2, <2>3, <2>4, <2>5 DEF StoreInv
<1> QED
  BY <1>1, <1>2, <1>3

\* The finalizer goes: the CR has no marker left, or is known to leave one.
LEMMA GoneKeeps ==
  ASSUME IInv, TypeOK', Running, NEW o, Write(o, Gone), UNCHANGED changed, blind \subseteq blind',
         Stores(o) => \/ pass.at \in moved \cup blind'
                      \/ \A z \in Orgs, s \in SectionSet : live[z][s].by # pass.at
  PROVE  StoreInv'
<1>1. /\ secret' = secret /\ moved' = moved /\ live' = live
      /\ \/ crs' = crs
         \/ crs' = [crs EXCEPT ![pass.at] = Gone] /\ Stores(o)
  BY DEF Write, Call
<1>2. CASE crs' = crs
  BY <1>1, <1>2
     DEF IInv, StoreInv, StoredSane, AtHome, NoStrayMarker, SyncedTruth, StoredObserved, Ready,
         Held, Valued
<1>3. CASE crs' = [crs EXCEPT ![pass.at] = Gone] /\ Stores(o)
  <2>1. /\ pass.at \in CRs
        /\ crs'[pass.at] = Gone /\ \A c \in CRs \ {pass.at} : crs'[c] = crs[c]
    BY <1>3, Current DEF IInv, StoreInv, TypeOK
  <2>2. StoredSane'
    <3>1. Gone.obs = 0 /\ Gone.gen = 0 /\ ~Gone.del
      BY DEF Gone, Fresh
    <3>2. ASSUME NEW c \in CRs
          PROVE  crs'[c].obs <= crs'[c].gen /\ (crs'[c].del => crs'[c].fin)
      BY <2>1, <3>1 DEF IInv, StoreInv, StoredSane
    <3> QED
      BY <3>2 DEF StoredSane
  <2>3. AtHome' /\ NoStrayMarker'
    <3>1. \A z \in Orgs, s \in SectionSet : live[z][s].by \in CRs \cup {None}
      BY DEF IInv, StoreInv, TypeOK, Settings
    <3> QED
      BY <1>1, <1>3, <2>1, <3>1 DEF IInv, StoreInv, AtHome, NoStrayMarker
  <2>4. SyncedTruth' /\ StoredObserved'
    BY <1>1, <2>1, RecordTypes
       DEF IInv, StoreInv, SyncedTruth, StoredObserved, Ready, Held, Valued
  <2> QED
    BY <2>2, <2>3, <2>4 DEF StoreInv
<1> QED
  BY <1>1, <1>2, <1>3

-----------------------------------------------------------------------------
(* What a replacement of settings does                                     *)

\* Others of the organisation are told by `changed'; the pass's own CR keeps
\* its truths when the new settings are what its copy asks for.
LEMMA ReplaceKeeps ==
  ASSUME IInv, TypeOK', Running, pass.pc # "auth", pass.todo # <<>>,
         NEW o, NEW new \in Settings, Replace(o, new),
         LET s == Head(pass.todo)
             old == live[pass.org][s]
         IN  /\ new.by \in {None, old.by, pass.at}
             /\ new.by = pass.at => pass.cr.fin /\ pass.org # None
             /\ new.value = old.value \/ new.value = pass.cr.spec[s]
             /\ \/ crs[pass.at].del
                \/ IF pass.cr.spec[s] = None THEN new.by # pass.at /\ new.value = old.value
                   ELSE new.by # None /\ new.value = pass.cr.spec[s]
  PROVE  StoreInv'
<1> DEFINE s == Head(pass.todo)
           old == live[pass.org][s]
<1>1. /\ pass.at \in CRs /\ pass.org \in Orgs /\ s \in SectionSet
      /\ crs' = crs /\ secret' = secret /\ moved' = moved /\ blind' = blind
      /\ live \in [Orgs -> [SectionSet -> Settings]]
  BY Current, HeadAndTail
     DEF Replace, Call, IInv, StoreInv, TypeOK, PassOK, PassType, Running
<1>2. \/ live' = live /\ changed' = changed
      \/ live' = [live EXCEPT ![pass.org][s] = new]
         /\ changed' = IF new = old THEN changed
                       ELSE changed \cup {x \in Seen(pass.org, s, new) : x[1] # pass.at}
  BY DEF Replace
<1>3. CASE live' = live /\ changed' = changed
  BY <1>1, <1>3
     DEF IInv, StoreInv, StoredSane, AtHome, NoStrayMarker, SyncedTruth, StoredObserved, Ready,
         Held, Valued
<1>4. ASSUME live' = [live EXCEPT ![pass.org][s] = new],
             changed' = IF new = old THEN changed
                        ELSE changed \cup {x \in Seen(pass.org, s, new) : x[1] # pass.at}
      PROVE  StoreInv'
  <2>1. /\ live'[pass.org][s] = new
        /\ \A z \in Orgs, t \in SectionSet : z # pass.org \/ t # s => live'[z][t] = live[z][t]
    BY <1>1, <1>4
  <2>2. /\ changed \subseteq changed'
        /\ \A k \in Kinds : <<pass.at, k>> \in changed' => <<pass.at, k>> \in changed
        /\ \A c \in CRs \ {pass.at} : secret[c] = pass.org /\ new # old
             => /\ <<c, "marker">> \in changed'
                /\ new.value # old.value => <<c, "value">> \in changed'
    BY <1>1, <1>4 DEF Seen, Kinds
  <2>3. AtHome'
    <3>1. pass.at \notin moved => pass.org = secret[pass.at]
      BY DEF IInv, PassInv, OrgKept, Running
    <3> QED
      BY <1>1, <2>1, <3>1 DEF IInv, StoreInv, AtHome
  <2>4. NoStrayMarker'
    <3>1. pass.cr.fin => crs[pass.at].here /\ crs[pass.at].fin
      BY DEF IInv, PassInv, Copied
    <3> QED
      BY <1>1, <2>1, <3>1 DEF IInv, StoreInv, NoStrayMarker
  <2>5. SyncedTruth'
    <3> SUFFICES ASSUME NEW c \in CRs, crs[c].here, ~crs[c].del, Ready(c),
                        \A k \in Kinds : <<c, k>> \notin changed', NEW t \in SectionSet
                 PROVE  Held(c, t)'
      BY <1>1 DEF SyncedTruth, Ready
    <3>1. Held(c, t)
      BY <2>2 DEF IInv, StoreInv, SyncedTruth
    <3>2. CASE secret[c] # pass.org \/ t # s \/ new = old
      <4>1. secret[c] \in Orgs
        BY DEF IInv, StoreInv, TypeOK
      <4> QED
        BY <1>1, <2>1, <3>1, <3>2, <4>1 DEF Held
    <3>3. CASE secret[c] = pass.org /\ t = s /\ new # old
      <4>1. c = pass.at
        BY <2>2, <3>3 DEF Kinds
      <4>2. crs[c].spec = pass.cr.spec
        <5>1. crs[c].obs = crs[c].gen /\ crs[c].obs \in Nat
          BY DEF Ready, IInv, StoreInv, TypeOK, CRType
        <5> QED
          BY <4>1, <5>1 DEF IInv, PassInv, SpecKept
      <4> QED
        BY <1>1, <2>1, <3>3, <4>1, <4>2 DEF Held
    <3> QED
      BY <3>2, <3>3
  <2>6. StoredObserved'
    <3> SUFFICES ASSUME NEW c \in CRs, crs[c].here, crs[c].obs = crs[c].gen,
                        <<c, "value">> \notin changed', NEW t \in SectionSet, crs[c].spec[t] # None
                 PROVE  live'[secret[c]][t].value = crs[c].spec[t]
      BY <1>1 DEF StoredObserved, Valued
    <3>1. live[secret[c]][t].value = crs[c].spec[t] /\ secret[c] \in Orgs
      BY <2>2 DEF IInv, StoreInv, StoredObserved, Valued, TypeOK
    <3>2. CASE secret[c] # pass.org \/ t # s \/ new.value = old.value
      BY <1>1, <2>1, <3>1, <3>2
    <3>3. CASE secret[c] = pass.org /\ t = s /\ new.value # old.value
      <4>1. c = pass.at
        BY <2>2, <3>3
      <4>2. crs[c].spec = pass.cr.spec
        <5>1. crs[c].obs \in Nat
          BY DEF IInv, StoreInv, TypeOK, CRType
        <5> QED
          BY <4>1, <5>1 DEF IInv, PassInv, SpecKept
      <4> QED
        BY <2>1, <3>3, <4>2
    <3> QED
      BY <3>2, <3>3
  <2>7. StoredSane'
    BY <1>1 DEF IInv, StoreInv, StoredSane
  <2> QED
    BY <2>3, <2>4, <2>5, <2>6, <2>7 DEF StoreInv
<1> QED
  BY <1>2, <1>3, <1>4

\* What of the settings and of what others changed a replacement touches.
LEMMA ReplaceFrame ==
  ASSUME IInv, Running, pass.pc # "auth", pass.todo # <<>>,
         NEW o, NEW new \in Settings, Replace(o, new)
  PROVE  /\ UNCHANGED <<crs, secret, moved, blind>>
         /\ live' \in [Orgs -> [SectionSet -> Settings]]
         /\ Applied(o) => live'[pass.org][Head(pass.todo)] = new
         /\ live'[pass.org][Head(pass.todo)] \in {new, live[pass.org][Head(pass.todo)]}
         /\ \A z \in Orgs, t \in SectionSet :
              z # pass.org \/ t # Head(pass.todo) => live'[z][t] = live[z][t]
         /\ changed \subseteq changed'
         /\ \A k \in Kinds : <<pass.at, k>> \in changed' => <<pass.at, k>> \in changed
<1>1. /\ pass.at \in CRs /\ pass.org \in Orgs /\ Head(pass.todo) \in SectionSet
      /\ live \in [Orgs -> [SectionSet -> Settings]]
  BY HeadAndTail DEF IInv, StoreInv, TypeOK, PassOK, PassType, Running
<1> QED
  BY <1>1 DEF Replace, Call, Seen, Kinds

-----------------------------------------------------------------------------
(* The invariant is kept: reads and writes of the CR                       *)

\* A pass that has not come to the settings has replaced nothing.
LEMMA NotYetSilent ==
  ASSUME IInv, ~Syncing, pass.pc # "idle", pass.pc # "failed"
  PROVE  ~silent
  BY DEF IInv, Reporting

\* What is stored keeps its invariant where nothing of it changes.
LEMMA StoreIdle ==
  ASSUME IInv, TypeOK', UNCHANGED <<crs, secret, live, changed, moved, blind>>
  PROVE  StoreInv'
  BY DEF IInv, StoreInv, StoredSane, AtHome, NoStrayMarker, SyncedTruth, StoredObserved, Ready,
         Held, Valued

\* The invariant holds before anything was applied.
LEMMA InitHolds == Init => IInv
<1> SUFFICES ASSUME Init PROVE IInv
  OBVIOUS
<1> USE RecordTypes
<1>1. \A c \in CRs : crs[c] = Gone
  BY DEF Init
<1>2. \A o \in Orgs, s \in SectionSet : live[o][s].by = None
  BY DEF Init
<1>3. TypeOK
  <2>1. live \in [Orgs -> [SectionSet -> Settings]]
    BY DefaultsAssumption DEF Init, Settings
  <2>2. pass \in PassType /\ pass.at = None /\ pass.org = None /\ pass.pc = "idle"
    BY DEF Init, NoPass
  <2> QED
    BY <2>1, <2>2, BoundsAssumption, HomesAssumption DEF Init, TypeOK, PassOK
<1>4. StoredSane
  <2>1. Gone.obs = 0 /\ Gone.gen = 0 /\ ~Gone.del
    BY DEF Gone, Fresh
  <2>2. ASSUME NEW c \in CRs
        PROVE  crs[c].obs <= crs[c].gen /\ (crs[c].del => crs[c].fin)
    <3>1. crs[c].obs = 0 /\ crs[c].gen = 0 /\ ~crs[c].del
      BY <1>1, <2>1
    <3> QED
      BY <3>1
  <2> QED
    BY <2>2 DEF StoredSane
<1>5. AtHome /\ NoStrayMarker
  BY <1>2 DEF AtHome, NoStrayMarker
<1>6. SyncedTruth /\ StoredObserved
  BY <1>1 DEF SyncedTruth, StoredObserved
<1>7. PassInv /\ Reporting
  BY BoundsAssumption
     DEF Init, NoPass, PassInv, Copied, Knows, SpecKept, OrgKept, Cleared, Done, CopyObserved,
         DriftKnown, Running, Syncing, Unmarking, Reporting
<1> QED
  BY <1>3, <1>4, <1>5, <1>6, <1>7 DEF IInv, StoreInv

\* A pass that starts takes the stored CR as its copy.
LEMMA GetCRKeeps ==
  ASSUME IInv, TypeOK', NEW c \in CRs, GetCR(c)
  PROVE  IInv'
<1>1. StoreInv'
  BY StoreIdle DEF GetCR, kube
<1>2. /\ pass' = [NoPass EXCEPT !.pc = "auth", !.at = c, !.cr = crs[c], !.calm = TRUE]
      /\ UNCHANGED <<crs, secret, live, changed, moved>> /\ ~silent' /\ crs[c].here
  BY DEF GetCR, kube
<1>3. /\ pass'.pc = "auth" /\ pass'.at = c /\ pass'.cr = crs[c] /\ ~pass'.behind
      /\ ~pass'.drifted /\ ~pass'.differs
  BY <1>2 DEF NoPass
<1>4. Copied' /\ Knows' /\ SpecKept' /\ OrgKept' /\ Cleared' /\ Done' /\ DriftKnown'
  BY <1>2, <1>3
     DEF Copied, Knows, SpecKept, OrgKept, Cleared, Done, DriftKnown, Running, Syncing, Unmarking,
         IInv, StoreInv, StoredSane
<1>5. CopyObserved'
  BY <1>2, <1>3 DEF CopyObserved, StoredObserved, Valued, IInv, StoreInv
<1>6. Reporting'
  BY <1>2 DEF Reporting
<1> QED
  BY <1>1, <1>4, <1>5, <1>6 DEF IInv, PassInv

\* From here on the pass works for the organisation the Secret names.
LEMMA ResolveAuthKeeps ==
  ASSUME IInv, TypeOK', ResolveAuth
  PROVE  IInv'
<1>1. StoreInv'
  BY StoreIdle DEF ResolveAuth, ResolveThen, kube, history
<1>2. /\ UNCHANGED <<crs, secret, live, changed, moved, silent>> /\ pass.pc = "auth"
  BY DEF ResolveAuth, ResolveThen, kube, history
<1>3. Reporting'
  BY <1>2, NotYetSilent DEF Reporting, Syncing
<1>4. CASE pass' = NoPass
  BY <1>1, <1>3, <1>4, NothingRuns DEF IInv
<1>5. ASSUME pass' # NoPass PROVE IInv'
  <2>1. PICK step \in {"unmark", "abandon", "autherr", "section", "guard"} :
          /\ pass' = [pass EXCEPT !.pc = step, !.org = secret[pass.at],
                        !.todo = IF step \in {"unmark", "section"} THEN Sections ELSE <<>>]
          /\ step \in {"unmark", "abandon"} => pass.cr.del /\ pass.cr.fin
          /\ step = "section" => pass.cr.fin
    BY <1>5 DEF ResolveAuth, ResolveThen, EndPass
  <2>2. /\ pass'.pc = step /\ pass'.at = pass.at /\ pass'.org = secret[pass.at]
        /\ pass'.cr = pass.cr /\ pass'.behind = pass.behind /\ pass'.drifted = pass.drifted
        /\ pass'.differs = pass.differs
        /\ step \in {"unmark", "section"} => pass'.todo = Sections
    BY <2>1 DEF IInv, StoreInv, TypeOK, PassOK, PassType
  <2>3. ~pass.drifted /\ ~pass.differs /\ Running
    BY <1>2 DEF IInv, PassInv, Knows, Syncing, Running
  <2>4. Copied' /\ SpecKept' /\ OrgKept' /\ DriftKnown'
    BY <1>2, <2>2, <2>3
       DEF IInv, PassInv, Copied, SpecKept, OrgKept, DriftKnown, Running
  <2>5. Knows'
    BY <2>1, <2>2, <2>3 DEF Knows, Syncing, Unmarking
  <2>6. Cleared' /\ Done'
    BY <1>2, <2>2, AllPending DEF Cleared, Done, Syncing, Unmarking
  <2>7. CopyObserved'
    BY <1>2, <2>2, <2>3 DEF IInv, PassInv, CopyObserved, Valued, Running
  <2> QED
    BY <1>1, <1>3, <2>4, <2>5, <2>6, <2>7 DEF IInv, PassInv
<1> QED
  BY <1>4, <1>5

\* The second r.Get returns the stored CR with its finalizer.
LEMMA RefetchKeeps ==
  ASSUME IInv, TypeOK', Refetch
  PROVE  IInv'
<1>1. StoreInv'
  BY StoreIdle DEF Refetch, kube, history
<1>2. /\ UNCHANGED <<crs, secret, live, changed, moved, silent>> /\ pass.pc = "refetch"
      /\ pass.at \in CRs
  BY DEF Refetch, kube, history, IInv, StoreInv, TypeOK, PassOK, PassType
<1>3. Reporting'
  BY <1>2, NotYetSilent DEF Reporting, Syncing
<1>4. CASE ~crs[pass.at].here
  BY <1>1, <1>3, <1>4, NothingRuns DEF IInv, Refetch, EndPass
<1>5. CASE crs[pass.at].here
  <2>1. /\ pass'.pc = "section" /\ pass'.at = pass.at /\ pass'.org = pass.org
        /\ pass'.cr = crs[pass.at] /\ ~pass'.behind /\ pass'.todo = Sections
        /\ pass'.drifted = pass.drifted /\ pass'.differs = pass.differs
        /\ pass'.calm = pass.calm
    BY <1>5 DEF Refetch, IInv, StoreInv, TypeOK, PassOK, PassType
  <2>2. ~pass.drifted /\ ~pass.differs /\ Running /\ crs[pass.at].fin
    BY <1>2 DEF IInv, PassInv, Knows, Copied, Syncing, Running
  <2>3. Copied' /\ Knows' /\ SpecKept' /\ DriftKnown'
    BY <1>2, <1>5, <2>1, <2>2
       DEF Copied, Knows, SpecKept, DriftKnown, Running, Syncing, Unmarking, IInv, StoreInv,
           StoredSane
  <2>4. OrgKept'
    BY <1>2, <2>1, <2>2 DEF OrgKept, IInv, PassInv, Running
  <2>5. Cleared' /\ Done'
    BY <1>2, <2>1, AllPending DEF Cleared, Done, Syncing, Unmarking
  <2>6. CopyObserved'
    BY <1>2, <1>5, <2>1 DEF CopyObserved, StoredObserved, Valued, IInv, StoreInv
  <2> QED
    BY <1>1, <1>3, <2>3, <2>4, <2>5, <2>6 DEF IInv, PassInv
<1> QED
  BY <1>4, <1>5

\* A status that reports an error claims nothing of the sections.
LEMMA ReportErrorKeeps ==
  ASSUME IInv, TypeOK', NEW o \in Outcomes, AuthSecretError(o) \/ ReportError(o)
  PROVE  IInv'
<1>1. Running /\ pass.pc \in {"autherr", "failed"}
  BY DEF AuthSecretError, ReportError, Running
<1>2. PICK ready \in {"AuthSecretError", "ReconcileError"} :
        Write(o, [pass.cr EXCEPT !.ready = ready])
  BY DEF AuthSecretError, ReportError
<1>3. UNCHANGED <<changed, blind, silent>> /\ pass' = NoPass
  BY DEF AuthSecretError, ReportError, EndPass
<1>4. StoreInv'
  <2> DEFINE new == [pass.cr EXCEPT !.ready = ready]
  <2>1. /\ new \in CRType /\ new.here /\ new.fin = pass.cr.fin /\ new.del = pass.cr.del
        /\ new.spec = pass.cr.spec /\ new.gen = pass.cr.gen /\ new.obs = pass.cr.obs
        /\ new.ready \notin {"Synced", "DriftCorrected"}
    BY <1>1, Current DEF CRType, Readys
  <2>2. Write(o, new)
    BY <1>2
  <2> HIDE DEF new
  <2> QED
    BY <1>1, <1>3, <2>1, <2>2, WriteKeeps
<1>5. Reporting'
  BY <1>3 DEF Reporting, NoPass
<1> QED
  BY <1>3, <1>4, <1>5, NothingRuns DEF IInv

\* The finalizer goes when the markers have gone, or blindly.
LEMMA LeaveKeeps ==
  ASSUME IInv, TypeOK', NEW o \in Outcomes, RemoveFinalizer(o) \/ FinalizeWithoutClient(o)
  PROVE  IInv'
<1>1. /\ Running /\ pass.pc \in {"release", "abandon"} /\ Write(o, Gone)
      /\ UNCHANGED <<changed, silent>> /\ blind \subseteq blind' /\ pass' = NoPass
  BY DEF RemoveFinalizer, FinalizeWithoutClient, Running, EndPass
<1>2. ASSUME Stores(o)
      PROVE  \/ pass.at \in moved \cup blind'
             \/ \A z \in Orgs, s \in SectionSet : live[z][s].by # pass.at
  <2>1. CASE FinalizeWithoutClient(o)
    BY <1>2, <2>1 DEF FinalizeWithoutClient
  <2>2. CASE RemoveFinalizer(o)
    <3> SUFFICES ASSUME pass.at \notin moved, NEW z \in Orgs, NEW s \in SectionSet,
                        live[z][s].by = pass.at
                 PROVE  FALSE
      OBVIOUS
    <3>1. pass.pc = "release" /\ pass.todo = <<>> /\ pass.at # None
      BY <2>2, NoneAssumption DEF RemoveFinalizer, IInv, StoreInv, TypeOK, PassOK
    <3>2. z = secret[pass.at]
      BY <3>1 DEF IInv, StoreInv, AtHome
    <3>3. pass.org = secret[pass.at]
      BY <3>1 DEF IInv, PassInv, OrgKept, Running
    <3> QED
      BY <3>1, <3>2, <3>3, AllPending DEF IInv, PassInv, Cleared, Unmarking
  <2> QED
    BY <2>1, <2>2
<1>3. StoreInv'
  BY <1>1, <1>2, GoneKeeps
<1>4. Reporting'
  BY <1>1 DEF Reporting, NoPass
<1> QED
  BY <1>1, <1>3, <1>4, NothingRuns DEF IInv

\* The finalizer is written before any marker is.
LEMMA AddFinalizerKeeps ==
  ASSUME IInv, TypeOK', NEW o \in Outcomes, AddFinalizer(o)
  PROVE  IInv'
<1> DEFINE new == [pass.cr EXCEPT !.fin = TRUE]
<1>1. /\ Running /\ pass.pc = "guard" /\ Write(o, new)
      /\ UNCHANGED <<secret, live, changed, blind, silent, moved>>
      /\ \/ pass' = NoPass
         \/ o = "ok" /\ ~pass.behind /\ pass' = [pass EXCEPT !.cr = new, !.pc = "refetch"]
  BY DEF AddFinalizer, Running, EndPass, Write, Call
<1>2. /\ new \in CRType /\ new.here /\ new.fin /\ new.del = pass.cr.del
      /\ new.spec = pass.cr.spec /\ new.gen = pass.cr.gen /\ new.obs = pass.cr.obs
      /\ new.ready = pass.cr.ready
  BY <1>1, Current DEF CRType
<1>3. pass.cr \in CRType /\ pass \in PassType /\ pass.at \in CRs /\ crs \in [CRs -> CRType]
  BY <1>1, Current DEF IInv, StoreInv, TypeOK, PassOK
<1> HIDE DEF new
<1>4. StoreInv'
  BY <1>1, <1>2, WriteKeeps
<1>5. Reporting'
  BY <1>1, NotYetSilent DEF Reporting, Syncing
<1>6. CASE pass' = NoPass
  BY <1>4, <1>5, <1>6, NothingRuns DEF IInv
<1>7. CASE o = "ok" /\ ~pass.behind /\ pass' = [pass EXCEPT !.cr = new, !.pc = "refetch"]
  <2>1. /\ pass'.pc = "refetch" /\ pass'.at = pass.at /\ pass'.org = pass.org
        /\ pass'.cr = new /\ pass'.behind = FALSE /\ pass'.calm = pass.calm
        /\ pass'.drifted = pass.drifted /\ pass'.differs = pass.differs
    BY <1>3, <1>7 DEF PassType
  <2>2. crs'[pass.at] = new
    BY <1>1, <1>3, <1>7 DEF Write, Stores, Applied
  <2>3. ~pass.drifted /\ ~pass.differs /\ pass.cr.obs <= pass.cr.gen
    BY <1>1 DEF IInv, PassInv, Knows, Copied, Syncing
  <2>4. Copied' /\ Knows' /\ SpecKept' /\ DriftKnown' /\ Cleared' /\ Done'
    BY <1>2, <2>1, <2>2, <2>3
       DEF Copied, Knows, SpecKept, DriftKnown, Cleared, Done, Running, Syncing, Unmarking
  <2>5. OrgKept'
    BY <1>1, <2>1 DEF OrgKept, IInv, PassInv, Running
  <2>6. CopyObserved'
    BY <1>1, <1>2, <2>1 DEF CopyObserved, IInv, PassInv, Valued, Running
  <2> QED
    BY <1>4, <1>5, <2>4, <2>5, <2>6 DEF IInv, PassInv
<1> QED
  BY <1>1, <1>6, <1>7

\* The status a pass writes is true: the sections are as it leaves them.
LEMMA ReportSyncedKeeps ==
  ASSUME IInv, TypeOK', NEW o \in Outcomes, ReportSynced(o)
  PROVE  IInv'
<1> DEFINE new == [pass.cr EXCEPT !.obs = pass.cr.gen,
                    !.ready = IF pass.drifted THEN "DriftCorrected" ELSE "Synced"]
<1>1. /\ Running /\ pass.pc = "synced" /\ Write(o, new) /\ pass.todo = <<>>
      /\ UNCHANGED <<secret, live, blind, moved>> /\ pass' = NoPass
      /\ changed' = IF Stores(o) /\ pass.calm THEN {x \in changed : x[1] # pass.at} ELSE changed
  BY DEF ReportSynced, Running, EndPass, Write, Call, IInv, StoreInv, TypeOK, PassOK
<1>2. /\ new \in CRType /\ new.here /\ new.fin /\ new.del = pass.cr.del
      /\ new.spec = pass.cr.spec /\ new.gen = pass.cr.gen /\ new.obs = pass.cr.gen
  <2>1. pass.cr.fin
    BY <1>1 DEF IInv, PassInv, Knows, Syncing
  <2> QED
    BY <1>1, <2>1, Current DEF CRType, Readys
<1> HIDE DEF new
<1>3. Reporting'
  BY <1>1 DEF Reporting, NoPass
<1>4. CASE ~Stores(o)
  <2>1. crs' = crs /\ changed' = changed
    BY <1>1, <1>4 DEF Write
  <2> QED
    BY <1>1, <1>3, <2>1, StoreIdle, NothingRuns DEF IInv
<1>5. CASE Stores(o)
  <2>1. /\ pass.at \in CRs /\ crs'[pass.at] = new
        /\ \A c \in CRs \ {pass.at} : crs'[c] = crs[c]
    BY <1>1, <1>5, Current DEF Write, IInv, StoreInv, TypeOK
  <2>2. \A c \in CRs \ {pass.at}, k \in Kinds : <<c, k>> \in changed => <<c, k>> \in changed'
    BY <1>1
  <2>3. StoredSane'
    <3>1. new.obs <= new.gen /\ (new.del => new.fin)
      BY <1>2 DEF CRType
    <3> QED
      BY <2>1, <3>1 DEF IInv, StoreInv, StoredSane
  <2>4. AtHome' /\ NoStrayMarker'
    <3>1. \A z \in Orgs, s \in SectionSet : live[z][s].by \in CRs \cup {None}
      BY DEF IInv, StoreInv, TypeOK, Settings
    <3>2. \A c \in CRs : crs[c].here /\ crs[c].fin => crs'[c].here /\ crs'[c].fin
      BY <1>2, <2>1
    <3> QED
      BY <1>1, <3>1, <3>2 DEF IInv, StoreInv, AtHome, NoStrayMarker
  <2>5. ASSUME NEW s \in SectionSet, <<pass.at, "value">> \notin changed',
               new.spec[s] # None
        PROVE  live[secret[pass.at]][s].value = new.spec[s]
    <3>1. pass.calm \/ <<pass.at, "value">> \notin changed
      BY <1>1, <2>5
    <3>2. pass.org = secret[pass.at]
      BY <1>1, <3>1 DEF IInv, PassInv, OrgKept
    <3> QED
      BY <1>1, <1>2, <2>5, <3>1, <3>2, AllPending DEF IInv, PassInv, Done, Syncing
  <2>6. ASSUME NEW s \in SectionSet, <<pass.at, "marker">> \notin changed'
        PROVE  LET now == live[secret[pass.at]][s] IN
               IF new.spec[s] = None THEN now.by # pass.at ELSE now.by # None
    <3>1. pass.calm \/ <<pass.at, "marker">> \notin changed
      BY <1>1, <2>6
    <3>2. pass.org = secret[pass.at]
      BY <1>1, <3>1 DEF IInv, PassInv, OrgKept
    <3> QED
      BY <1>1, <1>2, <3>1, <3>2, AllPending DEF IInv, PassInv, Done, Syncing
  <2>7. SyncedTruth'
    <3> SUFFICES ASSUME NEW c \in CRs, crs'[c].here, ~crs'[c].del, Ready(c)',
                        \A k \in Kinds : <<c, k>> \notin changed', NEW s \in SectionSet
                 PROVE  Held(c, s)'
      BY DEF SyncedTruth
    <3>1. CASE c = pass.at
      BY <1>1, <2>1, <2>5, <2>6, <3>1 DEF Held, Kinds
    <3>2. CASE c # pass.at
      <4>1. Held(c, s)
        BY <2>1, <2>2, <3>2 DEF IInv, StoreInv, SyncedTruth, Ready
      <4> QED
        BY <1>1, <2>1, <3>2, <4>1 DEF Held
    <3> QED
      BY <3>1, <3>2
  <2>8. StoredObserved'
    <3> SUFFICES ASSUME NEW c \in CRs, crs'[c].here, crs'[c].obs = crs'[c].gen,
                        <<c, "value">> \notin changed', NEW s \in SectionSet, crs'[c].spec[s] # None
                 PROVE  live[secret[c]][s].value = crs'[c].spec[s]
      BY <1>1 DEF StoredObserved, Valued
    <3>1. CASE c = pass.at
      BY <2>1, <2>5, <3>1
    <3>2. CASE c # pass.at
      BY <2>1, <2>2, <3>2 DEF IInv, StoreInv, StoredObserved, Valued, Kinds
    <3> QED
      BY <3>1, <3>2
  <2> QED
    BY <1>1, <1>3, <2>3, <2>4, <2>7, <2>8, NothingRuns DEF IInv, StoreInv
<1> QED
  BY <1>4, <1>5

-----------------------------------------------------------------------------
(* The invariant is kept: calls of the Admin API                           *)

\* Advance and its failure, from any step on a section; the rest of PassInv
\* depends on the call.
LEMMA NextSection ==
  ASSUME TypeOK, pass.pc \in {"section", "put"}, NEW drift \in BOOLEAN, Advance(drift)
  PROVE  /\ pass'.pc \in {"section", "synced"} /\ pass'.at = pass.at /\ pass'.org = pass.org
         /\ pass'.cr = pass.cr /\ pass'.behind = pass.behind /\ pass'.calm = pass.calm
         /\ pass'.todo = Tail(pass.todo)
         /\ pass'.drifted = (pass.drifted \/ drift) /\ ~pass'.differs
  BY DEF Advance, AdvanceTo, NextStep, TypeOK, PassOK, PassType

\* What a pass still holds when a call of a section failed.
LEMMA SectionFailed ==
  ASSUME TypeOK, pass.pc \in {"section", "put"}, Goto("failed")
  PROVE  /\ pass'.pc = "failed" /\ pass'.at = pass.at /\ pass'.org = pass.org
         /\ pass'.cr = pass.cr /\ pass'.behind = pass.behind /\ pass'.calm = pass.calm
         /\ pass'.drifted = pass.drifted /\ pass'.differs = pass.differs
  BY DEF Goto, TypeOK, PassOK, PassType

\* What no call of a section touches: the copy and how it relates to the CR.
LEMMA CopyKeeps ==
  ASSUME IInv, Running, pass.pc # "auth", UNCHANGED <<crs, secret, moved>>, changed \subseteq changed',
         pass'.at = pass.at, pass'.org = pass.org, pass'.cr = pass.cr,
         pass'.behind = pass.behind, pass'.calm = pass.calm
  PROVE  Copied' /\ SpecKept' /\ OrgKept'
  BY DEF Copied, SpecKept, OrgKept, IInv, PassInv, Running

\* The values of an observed generation survive a write of the pass's section
\* that keeps its value or puts the copy's.
LEMMA CopyObservedKeeps ==
  ASSUME IInv, Running, pass.pc # "auth", pass.todo # <<>>,
         NEW o, NEW new \in Settings, Replace(o, new),
         LET s == Head(pass.todo)
         IN  new.value \in {live[pass.org][s].value, pass.cr.spec[s]},
         pass'.at = pass.at, pass'.cr = pass.cr
  PROVE  CopyObserved'
<1> SUFFICES ASSUME pass.cr.obs = pass.cr.gen, <<pass.at, "value">> \notin changed',
                    NEW t \in SectionSet, pass.cr.spec[t] # None
             PROVE  live'[secret[pass.at]][t].value = pass.cr.spec[t]
  BY ReplaceFrame DEF CopyObserved, Valued
<1>1. live[secret[pass.at]][t].value = pass.cr.spec[t]
  BY ReplaceFrame DEF IInv, PassInv, CopyObserved, Valued
<1>2. secret[pass.at] \in Orgs
  BY Current DEF IInv, StoreInv, TypeOK
<1>3. CASE secret[pass.at] # pass.org \/ t # Head(pass.todo)
  BY <1>1, <1>2, <1>3, ReplaceFrame
<1>4. CASE secret[pass.at] = pass.org /\ t = Head(pass.todo)
  BY <1>1, <1>4, ReplaceFrame
<1> QED
  BY <1>3, <1>4

\* The finalizer clears one marker after the other.
LEMMA UnmarkKeeps ==
  ASSUME IInv, TypeOK', NEW o \in Outcomes, Unmark(o)
  PROVE  IInv'
<1>1. /\ Running /\ pass.pc = "unmark" /\ pass.todo # <<>> /\ pass.org \in Orgs
      /\ pass.at \in CRs /\ Head(pass.todo) \in SectionSet
  BY HeadAndTail DEF Unmark, UnmarkThen, Running, IInv, StoreInv, TypeOK, PassOK, PassType
<1>2. Replace(o, Unmarked) /\ silent' = silent
  BY DEF Unmark, UnmarkThen
<1>3. /\ Unmarked \in Settings /\ Unmarked.by = None
      /\ Unmarked.value = live[pass.org][Head(pass.todo)].value
  <2>1. live[pass.org][Head(pass.todo)] \in Settings
    BY <1>1 DEF IInv, StoreInv, TypeOK
  <2> QED
    BY <1>1, <2>1, UnmarkedType, NoneAssumption DEF Unmarked, Settings, IInv, StoreInv
<1>4. pass.cr.del /\ pass.cr.fin /\ crs[pass.at].del /\ ~pass.drifted /\ ~pass.differs
  BY <1>1 DEF IInv, PassInv, Knows, Copied, Unmarking, Syncing
<1>5. StoreInv'
  BY <1>1, <1>2, <1>3, <1>4, ReplaceKeeps, NoneAssumption
<1>7. CASE o # "ok"
  <2>1. pass' = NoPass
    BY <1>7 DEF Unmark, UnmarkThen, EndPass
  <2>2. Reporting'
    BY <2>1 DEF Reporting, NoPass
  <2> QED
    BY <1>5, <2>1, <2>2, NothingRuns DEF IInv
<1>8. CASE o = "ok"
  <2>1. /\ pass'.pc \in {"unmark", "release"} /\ pass'.at = pass.at /\ pass'.org = pass.org
        /\ pass'.cr = pass.cr /\ pass'.behind = pass.behind /\ pass'.calm = pass.calm
        /\ pass'.todo = Tail(pass.todo)
        /\ pass'.drifted = pass.drifted /\ pass'.differs = pass.differs
    BY <1>8 DEF Unmark, UnmarkThen, IInv, StoreInv, TypeOK, PassOK, PassType
  <2>2. Copied' /\ SpecKept' /\ OrgKept'
    BY <1>1, <1>2, <1>3, <2>1, ReplaceFrame, CopyKeeps
  <2>3. Knows' /\ Done' /\ DriftKnown'
    BY <1>4, <2>1 DEF Knows, Done, DriftKnown, Syncing, Unmarking
  <2>4. CopyObserved'
    BY <1>1, <1>2, <1>3, <2>1, CopyObservedKeeps
  <2>5. Cleared'
    <3> SUFFICES ASSUME pass.at \notin moved, NEW t \in SectionSet,
                        live'[pass.org][t].by = pass.at
                 PROVE  t \in Pending(Tail(pass.todo))
      BY <1>1, <1>2, <1>3, <2>1, ReplaceFrame DEF Cleared
    <3>1. t # Head(pass.todo)
      BY <1>1, <1>2, <1>3, <1>8, ReplaceFrame, NoneAssumption DEF Applied
    <3>2. t \in Pending(pass.todo)
      BY <1>1, <1>2, <1>3, <3>1, ReplaceFrame DEF IInv, PassInv, Cleared, Unmarking
    <3>3. pass.todo \in Seq(SectionSet)
      BY DEF IInv, StoreInv, TypeOK, PassOK, PassType
    <3> QED
      BY <1>1, <3>1, <3>2, <3>3, HeadAndTail
  <2>6. Reporting'
    BY <1>1, <1>2, NotYetSilent DEF Reporting, Syncing
  <2> QED
    BY <1>5, <2>2, <2>3, <2>4, <2>5, <2>6 DEF IInv, PassInv
<1> QED
  BY <1>7, <1>8

\* A pass whose section failed has only its copy and its drift left.
LEMMA FailedKeeps ==
  ASSUME IInv, StoreInv', pass.pc \in {"section", "put"}, Goto("failed"),
         UNCHANGED <<crs, secret, moved>>, changed \subseteq changed', CopyObserved'
  PROVE  IInv'
<1>1. /\ pass'.pc = "failed" /\ pass'.at = pass.at /\ pass'.org = pass.org
      /\ pass'.cr = pass.cr /\ pass'.behind = pass.behind /\ pass'.calm = pass.calm
      /\ pass'.drifted = pass.drifted /\ pass'.differs = pass.differs
  BY SectionFailed DEF IInv, StoreInv
<1>2. Copied' /\ SpecKept' /\ OrgKept'
  BY <1>1, CopyKeeps DEF Running
<1>3. Knows' /\ Done' /\ Cleared' /\ DriftKnown'
  BY <1>1
     DEF Knows, Done, Cleared, DriftKnown, Syncing, Unmarking, Running, IInv, PassInv
<1>4. Reporting'
  BY <1>1 DEF Reporting
<1> QED
  BY <1>2, <1>3, <1>4 DEF IInv, PassInv

\* A pass that goes on to the next section leaves this one as its copy asks,
\* and knows of its drift.
LEMMA AdvanceKeeps ==
  ASSUME IInv, StoreInv', pass.pc \in {"section", "put"}, NEW drift \in BOOLEAN, Advance(drift),
         UNCHANGED <<crs, secret, moved>>, changed \subseteq changed', CopyObserved',
         \A k \in Kinds : <<pass.at, k>> \in changed' => <<pass.at, k>> \in changed,
         \A t \in SectionSet : t # Head(pass.todo) => live'[pass.org][t] = live[pass.org][t],
         LET s == Head(pass.todo)
             now == live'[pass.org][s]
         IN  IF pass.cr.spec[s] = None THEN now.by # pass.at
             ELSE now.by # None /\ now.value = pass.cr.spec[s],
         drift /\ pass.cr.obs = pass.cr.gen => <<pass.at, "value">> \in changed,
         Reporting'
  PROVE  IInv'
<1>1. /\ pass'.pc \in {"section", "synced"} /\ pass'.at = pass.at /\ pass'.org = pass.org
      /\ pass'.cr = pass.cr /\ pass'.behind = pass.behind /\ pass'.calm = pass.calm
      /\ pass'.todo = Tail(pass.todo)
      /\ pass'.drifted = (pass.drifted \/ drift) /\ ~pass'.differs
  BY NextSection DEF IInv, StoreInv
<1>2. Copied' /\ SpecKept' /\ OrgKept'
  BY <1>1, CopyKeeps DEF Running
<1>3. Knows' /\ Cleared'
  BY <1>1 DEF Knows, Cleared, Syncing, Unmarking, IInv, PassInv
<1>4. DriftKnown'
  BY <1>1 DEF DriftKnown, Running, IInv, PassInv
<1>5. Done'
  <2> SUFFICES ASSUME NEW t \in SectionSet \ Pending(Tail(pass.todo))
               PROVE  LET now == live'[pass.org][t] IN
                      /\ pass.cr.spec[t] # None
                           /\ (pass.calm \/ <<pass.at, "value">> \notin changed')
                         => now.value = pass.cr.spec[t]
                      /\ pass.calm \/ <<pass.at, "marker">> \notin changed'
                         => IF pass.cr.spec[t] = None THEN now.by # pass.at ELSE now.by # None
    BY <1>1 DEF Done
  <2>1. CASE t = Head(pass.todo)
    BY <2>1
  <2>2. CASE t # Head(pass.todo)
    <3>1. pass.todo \in Seq(SectionSet) /\ pass.todo # <<>>
      BY DEF IInv, StoreInv, TypeOK, PassOK, PassType
    <3>2. t \notin Pending(pass.todo)
      BY <2>2, <3>1, HeadAndTail
    <3> QED
      BY <2>2, <3>2 DEF IInv, PassInv, Done, Syncing, Kinds
  <2> QED
    BY <2>1, <2>2
<1> QED
  BY <1>2, <1>3, <1>4, <1>5 DEF IInv, PassInv

\* A section the spec leaves out loses its marker.
LEMMA ReleaseSectionKeeps ==
  ASSUME IInv, TypeOK', NEW o \in Outcomes, ReleaseSection(o)
  PROVE  IInv'
<1>1. /\ Running /\ pass.pc = "section" /\ pass.todo # <<>> /\ pass.org \in Orgs
      /\ pass.at \in CRs /\ Head(pass.todo) \in SectionSet
  BY HeadAndTail DEF ReleaseSection, Running, IInv, StoreInv, TypeOK, PassOK, PassType
<1>2. /\ Replace(o, Unmarked) /\ silent' = silent /\ pass.cr.spec[Head(pass.todo)] = None
      /\ IF o = "ok" THEN Advance(FALSE) ELSE Goto("failed")
  BY DEF ReleaseSection, ReleaseAs
<1>3. /\ Unmarked \in Settings /\ Unmarked.by = None
      /\ Unmarked.value = live[pass.org][Head(pass.todo)].value
  <2>1. live[pass.org][Head(pass.todo)] \in Settings
    BY <1>1 DEF IInv, StoreInv, TypeOK
  <2> QED
    BY <1>1, <2>1, UnmarkedType, NoneAssumption DEF Unmarked, Settings, IInv, StoreInv
<1>4. StoreInv'
  BY <1>1, <1>2, <1>3, ReplaceKeeps, NoneAssumption
<1>5. /\ UNCHANGED <<crs, secret, moved>> /\ changed \subseteq changed'
      /\ \A k \in Kinds : <<pass.at, k>> \in changed' => <<pass.at, k>> \in changed
      /\ \A t \in SectionSet : t # Head(pass.todo) => live'[pass.org][t] = live[pass.org][t]
      /\ Applied(o) => live'[pass.org][Head(pass.todo)] = Unmarked
  BY <1>1, <1>2, <1>3, ReplaceFrame
<1>6. pass'.at = pass.at /\ pass'.cr = pass.cr
  BY <1>1, <1>2, NextSection, SectionFailed DEF IInv, StoreInv
<1>7. CopyObserved'
  BY <1>1, <1>2, <1>3, <1>6, CopyObservedKeeps
<1>9. CASE o # "ok"
  BY <1>1, <1>2, <1>4, <1>5, <1>7, <1>9, FailedKeeps
<1>10. CASE o = "ok"
  <2>1. Reporting'
    <3>1. pass'.pc \in {"section", "synced"} /\ pass'.drifted = (pass.drifted \/ FALSE)
      BY <1>1, <1>2, <1>10, NextSection DEF IInv, StoreInv
    <3> QED
      BY <1>1, <1>2, <3>1 DEF Reporting, Syncing, IInv
  <2>2. live'[pass.org][Head(pass.todo)].by # pass.at
    BY <1>1, <1>3, <1>5, <1>10, NoneAssumption DEF Applied
  <2> QED
    BY <1>1, <1>2, <1>4, <1>5, <1>7, <1>10, <2>1, <2>2, AdvanceKeeps
<1> QED
  BY <1>9, <1>10

\* A write makes the section what the copy asks for, perhaps unknown to the pass.
LEMMA PutKeeps ==
  ASSUME IInv, TypeOK', NEW o \in Outcomes, Put(o)
  PROVE  IInv'
<1> DEFINE s == Head(pass.todo)
           new == [value |-> pass.cr.spec[s], by |-> pass.at]
<1>1. /\ Running /\ pass.pc = "put" /\ pass.todo # <<>> /\ pass.org \in Orgs
      /\ pass.at \in CRs /\ s \in SectionSet /\ pass.differs \in BOOLEAN
      /\ pass.cr.spec[s] # None /\ pass.cr.spec \in SpecType
  BY HeadAndTail, Current, SpecsAssumption
     DEF Put, PutAs, Running, IInv, StoreInv, TypeOK, PassOK, PassType, CRType
<1>2. /\ Replace(o, new)
      /\ silent' = (silent \/ (Applied(o) /\ pass.differs /\ pass.cr.obs = pass.cr.gen))
      /\ IF o = "ok" THEN Advance(pass.differs) ELSE Goto("failed")
  BY DEF Put, PutAs
<1>3. new \in Settings /\ new.by = pass.at /\ new.by # None /\ new.value = pass.cr.spec[s]
  BY <1>1, NoneAssumption DEF Settings, SpecType
<1>4. pass.cr.fin
  BY <1>1 DEF IInv, PassInv, Knows, Syncing
<1> HIDE DEF new
<1>5. StoreInv'
  BY <1>1, <1>2, <1>3, <1>4, ReplaceKeeps, NoneAssumption
<1>6. /\ UNCHANGED <<crs, secret, moved>> /\ changed \subseteq changed'
      /\ \A k \in Kinds : <<pass.at, k>> \in changed' => <<pass.at, k>> \in changed
      /\ \A t \in SectionSet : t # s => live'[pass.org][t] = live[pass.org][t]
      /\ Applied(o) => live'[pass.org][s] = new
  BY <1>1, <1>2, <1>3, ReplaceFrame
<1>7. pass'.at = pass.at /\ pass'.cr = pass.cr
  BY <1>1, <1>2, NextSection, SectionFailed DEF IInv, StoreInv
<1>8. CopyObserved'
  BY <1>1, <1>2, <1>3, <1>7, CopyObservedKeeps
<1>10. CASE o # "ok"
  BY <1>1, <1>2, <1>5, <1>6, <1>8, <1>10, FailedKeeps
<1>11. CASE o = "ok"
  <2>1. Reporting'
    <3>1. /\ pass'.pc \in {"section", "synced"}
          /\ pass'.drifted = (pass.drifted \/ pass.differs)
      BY <1>1, <1>2, <1>11, NextSection DEF IInv, StoreInv
    <3>2. silent' => pass.drifted \/ pass.differs
      BY <1>1, <1>2 DEF Reporting, IInv
    <3> QED
      BY <3>1, <3>2 DEF Reporting, Syncing
  <2>2. live'[pass.org][s].by # None /\ live'[pass.org][s].value = pass.cr.spec[s]
    BY <1>3, <1>6, <1>11 DEF Applied
  <2>3. pass.differs /\ pass.cr.obs = pass.cr.gen => <<pass.at, "value">> \in changed
    BY <1>1 DEF IInv, PassInv, DriftKnown
  <2> QED
    BY <1>1, <1>2, <1>5, <1>6, <1>8, <1>11, <2>1, <2>2, <2>3, AdvanceKeeps
<1> QED
  BY <1>10, <1>11

\* A section that is kept is as the copy asks already.
LEMMA GetSectionKeeps ==
  ASSUME IInv, TypeOK', NEW o \in Outcomes, GetSection(o)
  PROVE  IInv'
<1> DEFINE s == Head(pass.todo)
           now == live[pass.org][s]
<1>1. /\ Running /\ pass.pc = "section" /\ pass.todo # <<>> /\ pass.org \in Orgs
      /\ pass.at \in CRs /\ s \in SectionSet
  BY HeadAndTail DEF GetSection, Running, IInv, StoreInv, TypeOK, PassOK, PassType
<1>2. /\ pass.cr.spec[s] # None /\ Call(o)
      /\ \/ o = "failed" /\ Goto("failed")
         \/ o # "failed" /\ Kept(now, pass.cr.spec[s]) /\ Advance(FALSE)
         \/ o # "failed"
            /\ pass' = [pass EXCEPT !.pc = "put", !.differs = (now.value # pass.cr.spec[s])]
      /\ UNCHANGED <<crs, secret, moved, live, changed, blind, silent>>
  BY DEF GetSection, Call
<1>3. StoreInv'
  BY <1>2, StoreIdle
<1>5. ASSUME pass'.at = pass.at, pass'.cr = pass.cr PROVE CopyObserved'
  BY <1>1, <1>2, <1>5 DEF IInv, PassInv, CopyObserved, Valued, Running
<1>6. CASE o = "failed" /\ Goto("failed")
  <2>1. CopyObserved'
    BY <1>1, <1>5, <1>6, SectionFailed DEF IInv, StoreInv
  <2> QED
    BY <1>1, <1>2, <1>3, <1>6, <2>1, FailedKeeps
<1>7. CASE o # "failed" /\ Kept(now, pass.cr.spec[s]) /\ Advance(FALSE)
  <2>1. /\ pass'.at = pass.at /\ pass'.cr = pass.cr /\ pass'.pc \in {"section", "synced"}
        /\ pass'.drifted = (pass.drifted \/ FALSE)
    BY <1>1, <1>7, NextSection DEF IInv, StoreInv
  <2>2. CopyObserved'
    BY <1>5, <2>1
  <2>3. Reporting'
    BY <1>1, <1>2, <2>1 DEF Reporting, Syncing, IInv
  <2> QED
    BY <1>1, <1>2, <1>3, <1>7, <2>2, <2>3, AdvanceKeeps DEF Kept
<1>8. ASSUME o # "failed",
             pass' = [pass EXCEPT !.pc = "put", !.differs = (now.value # pass.cr.spec[s])]
      PROVE  IInv'
  <2>1. /\ pass'.pc = "put" /\ pass'.at = pass.at /\ pass'.org = pass.org
        /\ pass'.cr = pass.cr /\ pass'.behind = pass.behind /\ pass'.calm = pass.calm
        /\ pass'.todo = pass.todo /\ pass'.drifted = pass.drifted
        /\ pass'.differs = (now.value # pass.cr.spec[s])
    BY <1>8 DEF IInv, StoreInv, TypeOK, PassOK, PassType
  <2>2. Copied' /\ SpecKept' /\ OrgKept' /\ CopyObserved'
    BY <1>1, <1>2, <1>5, <2>1, CopyKeeps
  <2>3. Knows' /\ Cleared'
    BY <1>1, <2>1 DEF Knows, Cleared, Syncing, Unmarking, IInv, PassInv
  <2>4. Done'
    BY <1>1, <1>2, <2>1 DEF Done, Syncing, IInv, PassInv
  <2>5. DriftKnown'
    <3> SUFFICES ASSUME now.value # pass.cr.spec[s], pass.cr.obs = pass.cr.gen
                 PROVE  <<pass.at, "value">> \in changed
      BY <1>1, <1>2, <2>1 DEF DriftKnown, Running, IInv, PassInv
    <3>1. pass.org = secret[pass.at] \/ <<pass.at, "value">> \in changed
      BY <1>1 DEF IInv, PassInv, OrgKept
    <3>2. <<pass.at, "value">> \in changed \/ Valued(pass.cr.spec, secret[pass.at])
      BY <1>1 DEF IInv, PassInv, CopyObserved
    <3> QED
      BY <1>1, <1>2, <3>1, <3>2 DEF Valued
  <2>6. Reporting'
    BY <1>1, <1>2, <2>1 DEF Reporting, Syncing, IInv
  <2> QED
    BY <1>3, <2>2, <2>3, <2>4, <2>5, <2>6 DEF IInv, PassInv
<1> QED
  BY <1>2, <1>6, <1>7, <1>8

-----------------------------------------------------------------------------
(* The invariant is kept: crashes, users and outsiders                     *)

\* A crash forgets the pass and nothing else.
LEMMA CrashKeeps ==
  ASSUME IInv, TypeOK', Crash
  PROVE  IInv'
<1>1. StoreInv'
  BY StoreIdle DEF Crash, kube, history
<1>2. Reporting'
  BY DEF Crash, EndPass, Reporting, NoPass
<1> QED
  BY <1>1, <1>2, NothingRuns DEF Crash, EndPass, IInv

\* What each write of a user keeps of the CR it writes.
LEMMA UserWritesKeep ==
  ASSUME IInv, TypeOK', NEW c \in CRs, NEW new \in CRType, UserWrites(c, new),
         new.obs <= new.gen, new.del => new.fin,
         crs[c].here /\ crs[c].fin => new.here /\ new.fin,
         crs[c].here /\ crs[c].del => new.del,
         \/ ~new.here
         \/ new.obs < new.gen
         \/ /\ crs[c].here /\ new.spec = crs[c].spec /\ new.gen = crs[c].gen
            /\ new.obs = crs[c].obs /\ new.ready = crs[c].ready /\ new.del
  PROVE  IInv'
<1>1. /\ UNCHANGED <<secret, live, changed, moved, blind, silent>>
      /\ crs'[c] = new /\ \A d \in CRs \ {c} : crs'[d] = crs[d]
      /\ crs \in [CRs -> CRType] /\ \A d \in CRs : crs[d] \in CRType /\ crs[d].gen \in Nat
  BY DEF UserWrites, UserStep, IInv, StoreInv, TypeOK, CRType
<1>2. new.gen \in Nat /\ new.obs \in Nat
  BY DEF CRType
<1>3. StoreInv'
  <2>1. StoredSane'
    BY <1>1 DEF IInv, StoreInv, StoredSane
  <2>2. AtHome' /\ NoStrayMarker'
    <3>1. \A z \in Orgs, s \in SectionSet : live[z][s].by \in CRs \cup {None}
      BY DEF IInv, StoreInv, TypeOK, Settings
    <3>2. \A d \in CRs : crs[d].here /\ crs[d].fin => crs'[d].here /\ crs'[d].fin
      BY <1>1
    <3> QED
      BY <1>1, <3>1, <3>2 DEF IInv, StoreInv, AtHome, NoStrayMarker
  <2>3. SyncedTruth'
    <3> SUFFICES ASSUME NEW d \in CRs, crs'[d].here, ~crs'[d].del, Ready(d)',
                        \A k \in Kinds : <<d, k>> \notin changed', NEW s \in SectionSet
                 PROVE  Held(d, s)'
      BY DEF SyncedTruth
    <3>1. d # c
      BY <1>1, <1>2 DEF Ready
    <3>2. Held(d, s)
      BY <1>1, <3>1 DEF IInv, StoreInv, SyncedTruth, Ready
    <3> QED
      BY <1>1, <3>1, <3>2 DEF Held
  <2>4. StoredObserved'
    BY <1>1, <1>2 DEF IInv, StoreInv, StoredObserved, Valued
  <2> QED
    BY <2>1, <2>2, <2>3, <2>4 DEF StoreInv
<1>4. /\ pass'.pc = pass.pc /\ pass'.at = pass.at /\ pass'.org = pass.org /\ pass'.cr = pass.cr
      /\ pass'.todo = pass.todo /\ pass'.calm = pass.calm
      /\ pass'.drifted = pass.drifted /\ pass'.differs = pass.differs
      /\ pass'.behind <=> (pass.behind \/ pass.at = c)
  BY DEF UserWrites, IInv, StoreInv, TypeOK, PassOK, PassType
<1>5. Copied'
  <2>1. Running => pass.at \in CRs
    BY Current
  <2>2. CASE pass.at = c
    BY <1>1, <1>4, <2>1, <2>2 DEF Copied, Running, IInv, PassInv
  <2>3. CASE pass.at # c
    <3>1. Running' <=> Running
      BY <1>4 DEF Running
    <3>2. Running => crs'[pass.at] = crs[pass.at]
      BY <1>1, <2>1, <2>3
    <3> QED
      BY <1>4, <2>3, <3>1, <3>2 DEF Copied, IInv, PassInv
  <2> QED
    BY <2>2, <2>3
<1>6. SpecKept'
  <2>1. Running => pass.at \in CRs
    BY Current
  <2> QED
    BY <1>1, <1>4, <2>1 DEF SpecKept, Running, IInv, PassInv
<1>7. Knows' /\ OrgKept' /\ Cleared' /\ Done' /\ CopyObserved' /\ DriftKnown'
  BY <1>1, <1>4
     DEF Knows, OrgKept, Cleared, Done, CopyObserved, Valued, DriftKnown, Running, Syncing,
         Unmarking, IInv, PassInv
<1>8. Reporting'
  BY <1>1, <1>4 DEF Reporting, Syncing, IInv
<1> QED
  BY <1>3, <1>5, <1>6, <1>7, <1>8 DEF IInv, PassInv

\* The user's steps leave the pass's copy behind.
LEMMA UserKeeps ==
  ASSUME IInv, TypeOK', NEW c \in CRs, Apply(c) \/ Edit(c) \/ Delete(c)
  PROVE  IInv'
<1>1. crs[c] \in CRType /\ crs[c].obs <= crs[c].gen /\ (crs[c].del => crs[c].fin)
  BY DEF IInv, StoreInv, StoredSane, TypeOK
<1>2. CASE Apply(c)
  <2>1. PICK spec \in Specs : UserWrites(c, Fresh(spec)) /\ ~crs[c].here
    BY <1>2 DEF Apply
  <2>2. /\ Fresh(spec) \in CRType /\ Fresh(spec).obs = 0 /\ Fresh(spec).gen = 1
        /\ ~Fresh(spec).del
    BY DEF Fresh, CRType, Readys
  <2> QED
    BY <1>1, <2>1, <2>2, UserWritesKeep
<1>3. CASE Edit(c)
  <2>1. PICK spec \in Specs :
          UserWrites(c, [crs[c] EXCEPT !.spec = spec, !.gen = @ + 1])
    BY <1>3 DEF Edit
  <2> DEFINE new == [crs[c] EXCEPT !.spec = spec, !.gen = @ + 1]
  <2>2. /\ new \in CRType /\ new.obs < new.gen /\ new.fin = crs[c].fin
        /\ new.del = crs[c].del /\ new.here = crs[c].here
    <3>1. crs[c].gen + 1 \in Nat /\ crs[c].obs \in Nat /\ crs[c].obs < crs[c].gen + 1
      BY <1>1 DEF CRType
    <3> QED
      BY <1>1, <3>1 DEF CRType
  <2>3. UserWrites(c, new)
    BY <2>1
  <2> HIDE DEF new
  <2>4. new.obs <= new.gen
    BY <2>2 DEF CRType
  <2> QED
    BY <1>1, <2>2, <2>3, <2>4, UserWritesKeep
<1>4. CASE Delete(c)
  <2>1. CASE crs[c].fin
    <3> DEFINE new == [crs[c] EXCEPT !.del = TRUE]
    <3>1. /\ new \in CRType /\ new.obs = crs[c].obs /\ new.gen = crs[c].gen /\ new.fin
          /\ new.del /\ new.here /\ new.spec = crs[c].spec /\ new.ready = crs[c].ready
      BY <1>1, <1>4, <2>1 DEF CRType, Delete
    <3>2. UserWrites(c, new) /\ crs[c].here
      BY <1>4, <2>1 DEF Delete
    <3> HIDE DEF new
    <3> QED
      BY <1>1, <3>1, <3>2, UserWritesKeep
  <2>2. CASE ~crs[c].fin
    <3>1. UserWrites(c, Gone) /\ Gone \in CRType /\ ~Gone.here /\ ~crs[c].del
      BY <1>4, <2>2, RecordTypes DEF Delete
    <3>2. Gone.obs = 0 /\ Gone.gen = 0 /\ ~Gone.del
      BY DEF Gone, Fresh
    <3> QED
      BY <2>2, <3>1, <3>2, UserWritesKeep
  <2> QED
    BY <2>1, <2>2
<1> QED
  BY <1>2, <1>3, <1>4

\* A Secret that moves leaves the pass at the organisation it began with.
LEMMA MoveSecretKeeps ==
  ASSUME IInv, TypeOK', NEW c \in CRs, MoveSecret(c)
  PROVE  IInv'
<1>1. /\ UNCHANGED <<crs, missing, live, blind, silent>>
      /\ moved' = moved \cup {c} /\ changed' = changed \cup ({c} \X Kinds)
      /\ \A d \in CRs \ {c} : secret'[d] = secret[d]
  BY DEF MoveSecret, UserStep, IInv, StoreInv, TypeOK
<1>2. <<c, "value">> \in changed' /\ <<c, "marker">> \in changed'
  BY <1>1 DEF Kinds
<1>3. StoreInv'
  <2>1. StoredSane' /\ NoStrayMarker'
    BY <1>1 DEF IInv, StoreInv, StoredSane, NoStrayMarker
  <2>2. AtHome'
    <3>1. \A z \in Orgs, s \in SectionSet : live[z][s].by \in CRs \cup {None}
      BY DEF IInv, StoreInv, TypeOK, Settings
    <3> QED
      BY <1>1, <3>1 DEF IInv, StoreInv, AtHome
  <2>3. SyncedTruth'
    <3> SUFFICES ASSUME NEW d \in CRs, crs[d].here, ~crs[d].del, Ready(d),
                        \A k \in Kinds : <<d, k>> \notin changed', NEW s \in SectionSet
                 PROVE  Held(d, s)'
      BY <1>1 DEF SyncedTruth, Ready
    <3>1. d # c
      BY <1>2 DEF Kinds
    <3>2. Held(d, s)
      BY <1>1 DEF IInv, StoreInv, SyncedTruth
    <3> QED
      BY <1>1, <3>1, <3>2 DEF Held
  <2>4. StoredObserved'
    BY <1>1, <1>2 DEF IInv, StoreInv, StoredObserved, Valued
  <2> QED
    BY <2>1, <2>2, <2>3, <2>4 DEF StoreInv
<1>4. /\ pass'.pc = pass.pc /\ pass'.at = pass.at /\ pass'.org = pass.org /\ pass'.cr = pass.cr
      /\ pass'.todo = pass.todo /\ ~pass'.calm /\ pass'.behind = pass.behind
      /\ pass'.drifted = pass.drifted /\ pass'.differs = pass.differs
  BY DEF MoveSecret, Disturb, IInv, StoreInv, TypeOK, PassOK, PassType
<1>5. Copied' /\ Knows' /\ SpecKept' /\ DriftKnown'
  BY <1>1, <1>4
     DEF Copied, Knows, SpecKept, DriftKnown, Running, Syncing, Unmarking, IInv, PassInv
<1>6. OrgKept' /\ CopyObserved'
  <2>1. Running => pass.at \in CRs
    BY Current
  <2> QED
    BY <1>1, <1>2, <1>4, <2>1 DEF OrgKept, CopyObserved, Valued, Running, IInv, PassInv
<1>7. Cleared' /\ Done'
  BY <1>1, <1>4 DEF Cleared, Done, Syncing, Unmarking, IInv, PassInv
<1>8. Reporting'
  BY <1>1, <1>4 DEF Reporting, Syncing, IInv
<1> QED
  BY <1>3, <1>5, <1>6, <1>7, <1>8 DEF IInv, PassInv

\* What others change in an organisation is held against every CR of it.
LEMMA OutsideEditKeeps ==
  ASSUME IInv, TypeOK', OutsideEdit
  PROVE  IInv'
<1>1. PICK o \in Orgs, s \in SectionSet, new \in Settings :
        /\ new.by \in {None, live[o][s].by}
        /\ live' = [live EXCEPT ![o][s] = new]
        /\ changed' = changed \cup Seen(o, s, new)
  BY DEF OutsideEdit
<1>2. UNCHANGED <<crs, secret, missing, moved, blind, silent>>
  BY DEF OutsideEdit, UserStep, kube
<1>3. /\ live'[o][s] = new
      /\ \A z \in Orgs, t \in SectionSet : z # o \/ t # s => live'[z][t] = live[z][t]
  BY <1>1 DEF IInv, StoreInv, TypeOK
<1>4. /\ changed \subseteq changed'
      /\ \A c \in CRs : secret[c] = o
           => /\ <<c, "marker">> \in changed'
              /\ <<c, "value">> \in changed' \/ new.value = live[o][s].value
  BY <1>1 DEF Seen, Kinds
<1>5. \A c \in CRs : secret[c] \in Orgs
  BY DEF IInv, StoreInv, TypeOK
<1>6. StoreInv'
  <2>1. StoredSane'
    BY <1>2 DEF IInv, StoreInv, StoredSane
  <2>2. AtHome' /\ NoStrayMarker'
    BY <1>1, <1>2, <1>3 DEF IInv, StoreInv, AtHome, NoStrayMarker
  <2>3. SyncedTruth'
    <3> SUFFICES ASSUME NEW d \in CRs, crs[d].here, ~crs[d].del, Ready(d),
                        \A k \in Kinds : <<d, k>> \notin changed', NEW t \in SectionSet
                 PROVE  Held(d, t)'
      BY <1>2 DEF SyncedTruth, Ready
    <3>1. secret[d] # o
      BY <1>4 DEF Kinds
    <3>2. Held(d, t)
      BY <1>4 DEF IInv, StoreInv, SyncedTruth
    <3> QED
      BY <1>2, <1>3, <1>5, <3>1, <3>2 DEF Held
  <2>4. StoredObserved'
    <3> SUFFICES ASSUME NEW d \in CRs, crs[d].here, crs[d].obs = crs[d].gen,
                        <<d, "value">> \notin changed', NEW t \in SectionSet, crs[d].spec[t] # None
                 PROVE  live'[secret[d]][t].value = crs[d].spec[t]
      BY <1>2 DEF StoredObserved, Valued
    <3>1. live[secret[d]][t].value = crs[d].spec[t]
      BY <1>4 DEF IInv, StoreInv, StoredObserved, Valued
    <3> QED
      BY <1>3, <1>4, <1>5, <3>1
  <2> QED
    BY <2>1, <2>2, <2>3, <2>4 DEF StoreInv
<1>7. /\ pass'.pc = pass.pc /\ pass'.at = pass.at /\ pass'.org = pass.org /\ pass'.cr = pass.cr
      /\ pass'.todo = pass.todo /\ ~pass'.calm /\ pass'.behind = pass.behind
      /\ pass'.drifted = pass.drifted /\ pass'.differs = pass.differs
  BY DEF OutsideEdit, Disturb, IInv, StoreInv, TypeOK, PassOK, PassType
<1>8. Copied' /\ Knows' /\ SpecKept' /\ OrgKept' /\ DriftKnown'
  BY <1>2, <1>4, <1>7
     DEF Copied, Knows, SpecKept, OrgKept, DriftKnown, Running, Syncing, Unmarking, IInv, PassInv
<1>9. Running => pass.at \in CRs /\ (pass.pc # "auth" => pass.org \in Orgs)
  BY DEF Running, IInv, StoreInv, TypeOK, PassOK, PassType
<1>10. CopyObserved'
  <2> SUFFICES ASSUME Running, pass.cr.obs = pass.cr.gen, <<pass.at, "value">> \notin changed',
                      NEW t \in SectionSet, pass.cr.spec[t] # None
               PROVE  live'[secret[pass.at]][t].value = pass.cr.spec[t]
    BY <1>2, <1>7 DEF CopyObserved, Valued, Running
  <2>1. live[secret[pass.at]][t].value = pass.cr.spec[t]
    BY <1>4 DEF IInv, PassInv, CopyObserved, Valued
  <2> QED
    BY <1>3, <1>4, <1>5, <1>9, <2>1
<1>11. Cleared'
  <2> SUFFICES ASSUME Unmarking, pass.at \notin moved, NEW t \in SectionSet,
                      live'[pass.org][t].by = pass.at
               PROVE  t \in Pending(pass.todo)
    BY <1>2, <1>7 DEF Cleared, Unmarking
  <2>1. pass.at \in CRs /\ pass.org \in Orgs /\ pass.at # None
    BY <1>9, NoneAssumption DEF Unmarking, Running
  <2>2. live[pass.org][t].by = pass.at
    BY <1>1, <1>3, <2>1
  <2> QED
    BY <2>2 DEF IInv, PassInv, Cleared
<1>12. Done'
  <2> SUFFICES ASSUME Syncing, NEW t \in SectionSet \ Pending(pass.todo)
               PROVE  LET now == live'[pass.org][t] IN
                      /\ pass.cr.spec[t] # None /\ <<pass.at, "value">> \notin changed'
                         => now.value = pass.cr.spec[t]
                      /\ <<pass.at, "marker">> \notin changed'
                         => IF pass.cr.spec[t] = None THEN now.by # pass.at ELSE now.by # None
    BY <1>7 DEF Done, Syncing
  <2>1. Running /\ pass.pc # "auth" /\ pass.at \in CRs /\ pass.org \in Orgs
    BY <1>9 DEF Running, Syncing
  <2>2. \/ pass.org = secret[pass.at]
        \/ <<pass.at, "value">> \in changed' /\ <<pass.at, "marker">> \in changed'
    BY <1>4, <2>1 DEF IInv, PassInv, OrgKept
  <2>3. LET now == live[pass.org][t] IN
          /\ pass.cr.spec[t] # None /\ <<pass.at, "value">> \notin changed'
             => now.value = pass.cr.spec[t]
          /\ <<pass.at, "marker">> \notin changed'
             => IF pass.cr.spec[t] = None THEN now.by # pass.at ELSE now.by # None
    BY <1>4 DEF IInv, PassInv, Done
  <2> QED
    BY <1>3, <1>4, <2>1, <2>2, <2>3
<1>13. Reporting'
  BY <1>2, <1>7 DEF Reporting, Syncing, IInv
<1> QED
  BY <1>6, <1>8, <1>10, <1>11, <1>12, <1>13 DEF IInv, PassInv

\* Steps that change neither the settings nor a CR nor the pass.
LEMMA StutterKeeps ==
  ASSUME IInv, TypeOK',
         UNCHANGED <<crs, secret, live, pass, changed, moved, blind, silent>>
  PROVE  IInv'
<1>1. StoreInv'
  BY StoreIdle
<1>2. PassInv'
  BY DEF IInv, PassInv, Copied, Knows, SpecKept, OrgKept, Cleared, Done, CopyObserved, Valued,
         DriftKnown, Running, Syncing, Unmarking
<1> QED
  BY <1>1, <1>2 DEF IInv, Reporting, Syncing

\* No step breaks the invariant.
LEMMA NextKeeps == IInv /\ [Next]_vars => IInv'
<1> SUFFICES ASSUME IInv, [Next]_vars
             PROVE  IInv'
  OBVIOUS
<1>1. TypeOK'
  BY TypeKeeps DEF IInv, StoreInv
<1>2. ASSUME NEW o \in Outcomes,
             \/ AuthSecretError(o) \/ FinalizeWithoutClient(o) \/ Unmark(o) \/ RemoveFinalizer(o)
             \/ AddFinalizer(o) \/ ReleaseSection(o) \/ GetSection(o) \/ Put(o)
             \/ ReportSynced(o) \/ ReportError(o)
      PROVE  IInv'
  BY <1>1, <1>2, ReportErrorKeeps, LeaveKeeps, UnmarkKeeps, AddFinalizerKeeps, ReleaseSectionKeeps,
     GetSectionKeeps, PutKeeps, ReportSyncedKeeps
<1>3. CASE ResolveAuth \/ Refetch \/ Crash \/ OutsideEdit
  BY <1>1, <1>3, ResolveAuthKeeps, RefetchKeeps, CrashKeeps, OutsideEditKeeps
<1>4. ASSUME NEW c \in CRs, GetCR(c) \/ Apply(c) \/ Edit(c) \/ Delete(c) \/ MoveSecret(c)
      PROVE  IInv'
  BY <1>1, <1>4, GetCRKeeps, UserKeeps, MoveSecretKeeps
<1>5. ASSUME NEW c \in CRs, ToggleSecret(c) PROVE IInv'
  BY <1>1, <1>5, StutterKeeps DEF ToggleSecret, UserStep
<1>6. CASE UNCHANGED vars
  BY <1>1, <1>6, StutterKeeps DEF vars, kube, history
<1> QED
  BY <1>2, <1>3, <1>4, <1>5, <1>6 DEF Next, Continue

-----------------------------------------------------------------------------
(* Theorems                                                                *)

\* Every reachable state satisfies the inductive invariant.
THEOREM Inductive == Spec => []IInv
<1>1. Init => IInv
  BY InitHolds
<1>2. IInv /\ [Next]_vars => IInv'
  BY NextKeeps
<1> QED
  BY <1>1, <1>2, PTL DEF Spec

\* The CRs, the settings and the running pass stay in their types.
THEOREM TypeCorrect == Spec => []TypeOK
<1>1. IInv => TypeOK
  BY DEF IInv, StoreInv
<1> QED
  BY <1>1, Inductive, PTL

\* No section is marked by a CR that is gone or not held by its finalizer,
\* unless that CR left without credentials or its Secret moved.
THEOREM NoStray == Spec => []NoStrayMarker
<1>1. IInv => NoStrayMarker
  BY DEF IInv, StoreInv
<1> QED
  BY <1>1, Inductive, PTL

\* A Ready status of the current generation is true of all sections and their
\* markers, unless somebody else changed one since.
THEOREM SyncedTrue == Spec => []SyncedTruth
<1>1. IInv => SyncedTruth
  BY DEF IInv, StoreInv
<1> QED
  BY <1>1, Inductive, PTL

\* Drift reported on a generation once in sync is somebody else's.
THEOREM HonestDrift == Spec => []DriftHonest
<1>1. IInv => DriftHonest
  BY DEF IInv, PassInv, DriftKnown, DriftHonest, Running
<1> QED
  BY <1>1, Inductive, PTL

\* No pass that comes to its end was silent about what it replaced.
THEOREM Reported == Spec => []NothingSilent
<1>1. IInv => NothingSilent
  BY DEF IInv, Reporting, NothingSilent, Syncing
<1> QED
  BY <1>1, Inductive, PTL
=============================================================================
