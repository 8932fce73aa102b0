----------------------------- MODULE OrgSettings -----------------------------
(***************************************************************************)
(* The ClavexOrg controller (internal/controller/clavexorg_controller.go). *)
(* An organisation has its settings whether a CR asks for them or not: a   *)
(* pass creates and deletes nothing.  Section after section it writes the  *)
(* values of the spec, which stamps the section with the operator's        *)
(* marker, or clears the marker where the spec leaves the section out; the *)
(* finalizer clears the markers of all sections and leaves the values.     *)
(*                                                                         *)
(* The organisation is the one the auth Secret names, looked up again in   *)
(* every pass; spec.orgRef is for display.  Several CRs may name one.      *)
(* What a stale informer cache adds is in ClavexClient.                    *)
(***************************************************************************)
EXTENDS Integers, Sequences

CONSTANTS
  CRs,        \* names of the ClavexOrg CRs
  Orgs,       \* organisations of the Admin API
  Homes,      \* what the Secrets of the CRs may name at first
  Sections,   \* the sections of the settings, in the order of the code
  Values,     \* contents of a section, all compared fields of it
  Defaults,   \* contents the sections may have at first
  None,       \* no section in a spec, no CR in a marker
  Specs,      \* the specs the user may apply
  MaxGen,     \* bound: generation an edit of the spec may reach
  MaxUser,    \* bound: steps of the user and of outsiders
  MaxFaults   \* bound: crashes, failed calls and lost replies

SectionSet == {Sections[i] : i \in DOMAIN Sections}
SpecType == [SectionSet -> Values \cup {None}]

ASSUME NoneAssumption == None \notin CRs \cup Values \cup Orgs
ASSUME SectionsAssumption ==
  /\ Sections \in Seq(SectionSet) /\ Sections # <<>>
  /\ \A i, j \in DOMAIN Sections : Sections[i] = Sections[j] => i = j
ASSUME HomesAssumption == Homes \subseteq [CRs -> Orgs]
ASSUME DefaultsAssumption == Defaults \subseteq Values
ASSUME SpecsAssumption == Specs # {} /\ Specs \subseteq SpecType
ASSUME BoundsAssumption == {MaxGen, MaxUser, MaxFaults} \subseteq Nat

VARIABLES
  crs,      \* the stored CRs
  secret,   \* the organisation each CR's Secret names
  missing,  \* CRs whose Secret does not resolve
  live,     \* the settings: a value and the CR of the marker, by section
  pass,     \* the running pass: the CR it is `at', its next call `pc', its
            \* copy `cr' of the CR, whether the CR was written `behind' it, the
            \* organisation, the sections left `todo', whether the value it got
            \* `differs' from the spec's and a section it wrote had `drifted';
            \* history: nobody else changed anything since it began, `calm'
  changed,  \* history: <<c, what>>, others changed a value or a marker of c's
            \* organisation since c's last status was true
  moved,    \* history: CRs whose Secret was made to name another organisation
  blind,    \* history: CRs that left without credentials to clear a marker
  silent,   \* history: the last pass to begin has replaced a value that had been
            \* in sync: its generation was the observed one
  user,     \* steps the user and outsiders have left
  faults    \* faults left

kube    == <<crs, secret, missing>>
history == <<changed, moved, blind, silent>>
vars    == <<kube, live, pass, history, user, faults>>

Steps == {"idle", "auth", "autherr", "unmark", "release", "abandon", "guard",
          "refetch", "section", "put", "synced", "failed"}

Outcomes == {"ok", "lost", "failed"}
Readys == {"none", "Synced", "DriftCorrected", "AuthSecretError", "ReconcileError"}
Kinds == {"value", "marker"}

\* A stored CR; one that is not `here' does not exist.
CRType == [here: BOOLEAN, gen: Nat, obs: Nat, fin: BOOLEAN, del: BOOLEAN,
           spec: Specs, ready: Readys]

Fresh(spec) == [here |-> TRUE, gen |-> 1, obs |-> 0, fin |-> FALSE, del |-> FALSE,
                spec |-> spec, ready |-> "none"]

Gone == [Fresh(CHOOSE s \in Specs : TRUE) EXCEPT !.here = FALSE, !.gen = 0]

Settings == [value: Values, by: CRs \cup {None}]

PassType == [pc: Steps, at: CRs \cup {None}, cr: CRType, behind: BOOLEAN,
             org: Orgs \cup {None}, todo: Seq(SectionSet), differs: BOOLEAN,
             drifted: BOOLEAN, calm: BOOLEAN]

NoPass == [pc |-> "idle", at |-> None, cr |-> Gone, behind |-> FALSE, org |-> None,
           todo |-> <<>>, differs |-> FALSE, drifted |-> FALSE, calm |-> FALSE]

Init ==
  /\ crs = [c \in CRs |-> Gone]
  /\ secret \in Homes
  /\ missing = {}
  /\ \E v \in Defaults : live = [o \in Orgs |-> [s \in SectionSet |-> [value |-> v, by |-> None]]]
  /\ pass = NoPass
  /\ changed = {}
  /\ moved = {}
  /\ blind = {}
  /\ silent = FALSE
  /\ user = MaxUser
  /\ faults = MaxFaults

-----------------------------------------------------------------------------
(* Calls: answered ("ok"), taking effect without the caller learning it    *)
(* ("lost"), or failing without effect ("failed").                         *)

Call(o) ==
  /\ o = "ok" \/ faults > 0
  /\ faults' = IF o = "ok" THEN faults ELSE faults - 1
  /\ UNCHANGED <<secret, missing, moved, user>>

Applied(o) == o \in {"ok", "lost"}

\* A write of the pass's CR: refused as a conflict when the copy is behind.
Stores(o) == Applied(o) /\ ~pass.behind

Write(o, new) ==
  /\ Call(o)
  /\ crs' = IF Stores(o) THEN [crs EXCEPT ![pass.at] = new] ELSE crs
  /\ UNCHANGED live

Goto(step) == pass' = [pass EXCEPT !.pc = step]

EndPass == pass' = NoPass

\* What CRs of the organisation other than the pass's see of new settings.
Seen(o, s, new) ==
  {x \in CRs \X Kinds : secret[x[1]] = o /\ (x[2] = "value" => live[o][s].value # new.value)}

\* The settings of the pass's section are replaced, if the call takes effect.
Replace(o, new) ==
  LET s == Head(pass.todo)
  IN  /\ Call(o)
      /\ live' = IF Applied(o) THEN [live EXCEPT ![pass.org][s] = new] ELSE live
      /\ changed' = IF Applied(o) /\ new # live[pass.org][s]
                    THEN changed \cup {x \in Seen(pass.org, s, new) : x[1] # pass.at}
                    ELSE changed
      /\ UNCHANGED <<crs, blind>>

Unmarked == [live[pass.org][Head(pass.todo)] EXCEPT !.by = None]

-----------------------------------------------------------------------------
(* One Reconcile pass *)

GetCR(c) ==
  /\ pass.pc = "idle"
  /\ crs[c].here
  /\ pass' = [NoPass EXCEPT !.pc = "auth", !.at = c, !.cr = crs[c], !.calm = TRUE]
  /\ silent' = FALSE
  /\ UNCHANGED <<kube, live, changed, moved, blind, user, faults>>

ResolveThen(step) ==
  /\ pass.pc = "auth"
  /\ IF pass.cr.del /\ ~pass.cr.fin THEN EndPass
     ELSE pass' = [pass EXCEPT !.pc = step, !.org = secret[pass.at],
                     !.todo = IF step \in {"unmark", "section"} THEN Sections ELSE <<>>]
  /\ UNCHANGED <<kube, live, history, user, faults>>

\* Mutant: a CR without credentials is not let go.
ResolveAuthStrict ==
  ResolveThen(IF pass.at \in missing THEN "autherr"
              ELSE IF pass.cr.del THEN "unmark"
              ELSE IF pass.cr.fin THEN "section" ELSE "guard")

\* ResolveAuthSecret, and the branch on its error, the deletion timestamp and
\* the finalizer.
ResolveAuth ==
  ResolveThen(IF pass.cr.del THEN IF pass.at \in missing THEN "abandon" ELSE "unmark"
              ELSE IF pass.at \in missing THEN "autherr"
              ELSE IF pass.cr.fin THEN "section" ELSE "guard")

AuthSecretError(o) ==
  /\ pass.pc = "autherr"
  /\ Write(o, [pass.cr EXCEPT !.ready = "AuthSecretError"])
  /\ EndPass
  /\ UNCHANGED <<changed, blind, silent>>

\* finalizeWithoutClient: no credentials, so no marker is cleared.
FinalizeWithoutClient(o) ==
  /\ pass.pc = "abandon"
  /\ Write(o, Gone)
  /\ blind' = IF Stores(o) THEN blind \cup {pass.at} ELSE blind
  /\ EndPass
  /\ UNCHANGED <<changed, silent>>

UnmarkThen(o, goOn) ==
  /\ pass.pc = "unmark"
  /\ Replace(o, Unmarked)
  /\ IF goOn
     THEN pass' = [pass EXCEPT !.todo = Tail(@),
                     !.pc = IF Tail(pass.todo) = <<>> THEN "release" ELSE "unmark"]
     ELSE EndPass
  /\ UNCHANGED silent

\* Mutant: an error of the call is not looked at.
UnmarkUnchecked(o) == UnmarkThen(o, TRUE)

\* ReleaseManagedMarker of the finalizer, section after section.
Unmark(o) == UnmarkThen(o, o = "ok")

RemoveFinalizer(o) ==
  /\ pass.pc = "release"
  /\ Write(o, Gone)
  /\ EndPass
  /\ UNCHANGED <<changed, blind, silent>>

\* AddFinalizer and r.Update, which returns the written object in cr.
AddFinalizer(o) ==
  /\ pass.pc = "guard"
  /\ LET new == [pass.cr EXCEPT !.fin = TRUE]
     IN  /\ Write(o, new)
         /\ IF o = "ok" /\ ~pass.behind
            THEN pass' = [pass EXCEPT !.cr = new, !.pc = "refetch"]
            ELSE EndPass
  /\ UNCHANGED <<changed, blind, silent>>

Refetch ==
  /\ pass.pc = "refetch"
  /\ IF crs[pass.at].here
     THEN pass' = [pass EXCEPT !.cr = crs[pass.at], !.behind = FALSE,
                     !.pc = "section", !.todo = Sections]
     ELSE EndPass
  /\ UNCHANGED <<kube, live, history, user, faults>>

AdvanceTo(step, drift) ==
  pass' = [pass EXCEPT !.pc = step, !.todo = Tail(@), !.drifted = drift, !.differs = FALSE]

NextStep == IF Tail(pass.todo) = <<>> THEN "synced" ELSE "section"

\* Mutant: what counts is whether the last section had drifted.
AdvanceForgetful(drift) == AdvanceTo(NextStep, drift)

\* Mutant: the first section is the last.
AdvanceOnce(drift) == AdvanceTo("synced", pass.drifted \/ drift)

\* On to the next section, or to the status.
Advance(drift) == AdvanceTo(NextStep, pass.drifted \/ drift)

ReleaseAs(o, new) ==
  /\ pass.cr.spec[Head(pass.todo)] = None
  /\ Replace(o, new)
  /\ IF o = "ok" THEN Advance(FALSE) ELSE Goto("failed")
  /\ UNCHANGED silent

\* Mutant: a section the spec leaves out is left as it is.
SkipSection(o) == pass.pc = "section" /\ ReleaseAs(o, live[pass.org][Head(pass.todo)])

\* A section the spec leaves out: its marker is cleared, whoever's it is.
ReleaseSection(o) == pass.pc = "section" /\ ReleaseAs(o, Unmarked)

\* Mutant: a marker that was cleared is not restored.
KeptValue(now, want) == now.value = want

\* Get shows the spec's values under the operator's marker, whichever CR the
\* marker names.
Kept(now, want) == now.value = want /\ now.by # None

GetSection(o) ==
  /\ pass.pc = "section"
  /\ o # "lost"
  /\ Call(o)
  /\ LET now == live[pass.org][Head(pass.todo)]
         want == pass.cr.spec[Head(pass.todo)]
     IN  /\ want # None
         /\ IF o = "failed" THEN Goto("failed")
            ELSE IF Kept(now, want) THEN Advance(FALSE)
            ELSE pass' = [pass EXCEPT !.pc = "put", !.differs = (now.value # want)]
  /\ UNCHANGED <<crs, live, changed, blind, silent>>

PutAs(o, by, drift) ==
  /\ pass.pc = "put"
  /\ Replace(o, [value |-> pass.cr.spec[Head(pass.todo)], by |-> by])
  /\ silent' = (silent \/ (Applied(o) /\ pass.differs /\ pass.cr.obs = pass.cr.gen))
  /\ IF o = "ok" THEN Advance(drift) ELSE Goto("failed")

\* Mutant: the write goes without the marker's headers.
PutUnmarked(o) == PutAs(o, None, pass.differs)

\* Mutant: every write counts as drift.
PutAlarmed(o) == PutAs(o, pass.at, TRUE)

\* PasswordPolicy.Put or RateLimits.Update, with the marker's headers.
Put(o) == PutAs(o, pass.at, pass.differs)

\* The Event of a drift goes out before the status is written.
ReportSynced(o) ==
  /\ pass.pc = "synced"
  /\ Write(o, [pass.cr EXCEPT !.obs = pass.cr.gen,
                !.ready = IF pass.drifted THEN "DriftCorrected" ELSE "Synced"])
  /\ changed' = IF Stores(o) /\ pass.calm THEN {x \in changed : x[1] # pass.at} ELSE changed
  /\ EndPass
  /\ UNCHANGED <<blind, silent>>

\* The error of a section, which forgets the drift of those before it.
ReportError(o) ==
  /\ pass.pc = "failed"
  /\ Write(o, [pass.cr EXCEPT !.ready = "ReconcileError"])
  /\ EndPass
  /\ UNCHANGED <<changed, blind, silent>>

Continue ==
  \/ ResolveAuth
  \/ Refetch
  \/ \E o \in Outcomes :
       \/ AuthSecretError(o)
       \/ FinalizeWithoutClient(o)
       \/ Unmark(o)
       \/ RemoveFinalizer(o)
       \/ AddFinalizer(o)
       \/ ReleaseSection(o)
       \/ GetSection(o)
       \/ Put(o)
       \/ ReportSynced(o)
       \/ ReportError(o)

-----------------------------------------------------------------------------
(* Around the pass *)

\* The manager dies and another becomes the leader.
Crash ==
  /\ pass.pc # "idle"
  /\ faults > 0
  /\ faults' = faults - 1
  /\ EndPass
  /\ UNCHANGED <<kube, live, history, user>>

UserStep ==
  /\ user > 0
  /\ user' = user - 1
  /\ UNCHANGED <<blind, silent, faults>>

\* A write by the user leaves the pass's copy behind.
UserWrites(c, new) ==
  /\ UserStep
  /\ crs' = [crs EXCEPT ![c] = new]
  /\ pass' = [pass EXCEPT !.behind = @ \/ pass.at = c]
  /\ UNCHANGED <<secret, missing, live, changed, moved>>

Apply(c) ==
  /\ ~crs[c].here
  /\ \E spec \in Specs : UserWrites(c, Fresh(spec))

Edit(c) ==
  /\ crs[c].here
  /\ crs[c].gen < MaxGen
  /\ \E spec \in Specs \ {crs[c].spec} :
       UserWrites(c, [crs[c] EXCEPT !.spec = spec, !.gen = @ + 1])

\* kubectl delete: without the finalizer the CR goes at once.
Delete(c) ==
  /\ crs[c].here
  /\ ~crs[c].del
  /\ UserWrites(c, IF crs[c].fin THEN [crs[c] EXCEPT !.del = TRUE] ELSE Gone)

ToggleSecret(c) ==
  /\ UserStep
  /\ missing' = IF c \in missing THEN missing \ {c} ELSE missing \cup {c}
  /\ UNCHANGED <<crs, secret, live, pass, changed, moved>>

Disturb == pass' = [pass EXCEPT !.calm = FALSE]

\* Another orgId in the Secret: another organisation from the next pass on.
MoveSecret(c) ==
  /\ UserStep
  /\ Disturb
  /\ \E o \in Orgs \ {secret[c]} : secret' = [secret EXCEPT ![c] = o]
  /\ changed' = changed \cup ({c} \X Kinds)
  /\ moved' = moved \cup {c}
  /\ UNCHANGED <<crs, missing, live>>

\* clavexctl or the Admin UI changes a section's values or clears its marker.
OutsideEdit ==
  /\ UserStep
  /\ Disturb
  /\ \E o \in Orgs, s \in SectionSet, new \in Settings :
       /\ new # live[o][s]
       /\ new.by \in {None, live[o][s].by}
       /\ live' = [live EXCEPT ![o][s] = new]
       /\ changed' = changed \cup Seen(o, s, new)
  /\ UNCHANGED <<kube, moved>>

Next ==
  \/ Continue \/ Crash \/ OutsideEdit
  \/ \E c \in CRs : \/ GetCR(c) \/ Apply(c) \/ Edit(c) \/ Delete(c)
                    \/ ToggleSecret(c) \/ MoveSecret(c)

Spec == Init /\ [][Next]_vars

\* A pass goes on to its end, and every CR gets another one: its own status
\* updates and the requeue after each pass see to it, and the work queue is
\* first in, first out.  Users and faults may stop.
FairSpec == Spec /\ WF_vars(Continue) /\ \A c \in CRs : SF_vars(GetCR(c))

-----------------------------------------------------------------------------
(* Properties *)

PassOK ==
  /\ pass \in PassType
  /\ pass.at = None <=> pass.pc = "idle"
  /\ pass.org = None <=> pass.pc \in {"idle", "auth"}
  /\ pass.pc \in {"unmark", "section", "put"} => pass.todo # <<>>
  /\ pass.pc \in {"release", "synced"} => pass.todo = <<>>
  /\ pass.pc = "put" => pass.cr.spec[Head(pass.todo)] # None

\* The variables stay in their types; a pass holds sections where its step
\* works on one.
TypeOK ==
  /\ crs \in [CRs -> CRType]
  /\ secret \in [CRs -> Orgs] /\ missing \subseteq CRs
  /\ live \in [Orgs -> [SectionSet -> Settings]]
  /\ PassOK
  /\ changed \subseteq CRs \X Kinds
  /\ moved \subseteq CRs /\ blind \subseteq CRs /\ silent \in BOOLEAN
  /\ user \in Nat /\ faults \in Nat

\* The console never shows a section as managed by a CR that is not there, or
\* not held by its finalizer, through crashes, conflicts and lost replies; but
\* for a CR that left without credentials, or whose Secret moved.
NoStrayMarker ==
  \A o \in Orgs, s \in SectionSet :
    LET owner == live[o][s].by IN
      owner # None => (crs[owner].here /\ crs[owner].fin) \/ owner \in moved \cup blind

Ready(c) == crs[c].ready \in {"Synced", "DriftCorrected"} /\ crs[c].obs = crs[c].gen

\* The section is as the CR asks, and marked just where it does.
Held(c, s) ==
  LET now == live[secret[c]][s] IN
    IF crs[c].spec[s] = None THEN now.by # c
    ELSE now.value = crs[c].spec[s] /\ now.by # None

\* A status that says Ready for the current generation is true of both sections
\* and their markers, unless somebody else changed one since: a failure between
\* the two, a lost reply or an edit under way never makes it lie.
SyncedTruth ==
  \A c \in CRs :
    crs[c].here /\ ~crs[c].del /\ Ready(c) /\ (\A k \in Kinds : <<c, k>> \notin changed)
    => \A s \in SectionSet : Held(c, s)

\* Once a generation was in sync its CR reports drift only where somebody else
\* changed a value, not a marker, and never what it left undone itself.
DriftHonest ==
  pass.pc = "synced" /\ pass.drifted /\ pass.cr.obs = pass.cr.gen
  => <<pass.at, "value">> \in changed

\* A pass that comes to its end reports what it replaced of an observed
\* generation, in whichever section it was and whatever failed in the passes
\* before.
NothingSilent == pass.pc = "synced" /\ silent => pass.drifted

\* A deleted CR leaves, with its Secret or without it.
AlwaysLeaves == \A c \in CRs : crs[c].del ~> ~crs[c].del

\* No other CR of the organisation.
Alone(c) == \A d \in CRs \ {c} : crs[d].here => secret[d] # secret[c]

\* Left alone with its organisation, a CR reaches what its spec says.
Converges ==
  \A c \in CRs :
    <>[](Alone(c) /\ c \notin missing)
    => <>[](crs[c].here => Ready(c) /\ \A s \in SectionSet : Held(c, s))

\* And then stops writing.
Quiesces == \A c \in CRs : <>[]Alone(c) => <>[](pass.pc = "put" => pass.at # c)

-----------------------------------------------------------------------------
(* What the docs say and the code does not do                              *)

\* Drift is what was changed "with no corresponding spec change"
\* (docs/operator.md:308-312), "as opposed to this being the first reconcile"
\* (clavexorg_controller.go:240-242): where a pass is about to report drift,
\* somebody else has changed a value.
DriftIsOutOfBand == pass.pc = "synced" /\ pass.drifted => <<pass.at, "value">> \in changed
=============================================================================
