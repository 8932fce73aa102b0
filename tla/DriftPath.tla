------------------------------ MODULE DriftPath ------------------------------
(***************************************************************************)
(* How a change made behind the operator's back is found and undone: the   *)
(* Admin API's audit stream of one organisation, dispatch and its debounce *)
(* (internal/eventstream), the channel into controller-runtime, the work   *)
(* queue, and the pass that reads the live object.  The CRs are of one     *)
(* kind and stay; how their stream is opened and closed is EventStream's.  *)
(*                                                                         *)
(* An event names a resource type, not an object: each one is dispatched   *)
(* to every CR of the type.  Time is two facts about a moment ago: whether *)
(* it was within the debounce window (recent) and within the same second   *)
(* (stamped), because status.lastSyncedAt counts in seconds.               *)
(***************************************************************************)
EXTENDS Naturals, Sequences, FiniteSets

CONSTANTS
  Objects,    \* the CRs of one kind and organisation
  Stubborn,   \* those whose comparison with the live object never agrees
  None,
  Cap,        \* capacity of the registration's channel, 256 in the code
  Replay,     \* audit records replayed on reconnect, 50 in the code
  MaxFeed,    \* bound: events on their way to the operator
  MaxEdits,   \* bound: changes made by outsiders
  MaxFaults   \* bound: dropped connections, failed listings, failed passes, and
              \* audit records of other types, which take room in the replay

ASSUME ObjectsAssumption == Stubborn \subseteq Objects /\ None \notin Objects
ASSUME BoundsAssumption ==
  /\ {Cap, Replay, MaxFeed} \subseteq Nat \ {0}
  /\ {MaxEdits, MaxFaults} \subseteq Nat

VARIABLES
  drifted,    \* objects changed by an outsider and not yet corrected
  log,        \* the last records of the organisation's audit log
  feed,       \* events of our type sent to the connection and not yet read
  link,       \* the connection: down, reading, or dispatching an event
  todo,       \* objects the running dispatch has still to look at
  recent,     \* objects whose lastEnqueue is within the debounce window
  chan,       \* the registration's channel
  queue,      \* the controller's work queue, the dirty set included
  busy, pc,   \* the object under reconciliation, and the next call of the pass
  stamped,    \* objects whose lastSyncedAt is the current second
  swallowed,  \* history: drifted objects of which the debounce dropped an event
  missed,     \* history: drifted objects whose event was lost on the way
  edits, faults

api     == <<drifted, log, feed, missed>>
reader  == <<link, todo, recent, chan>>
worker  == <<queue, busy, pc, stamped>>
budgets == <<edits, faults>>
vars    == <<api, reader, worker, swallowed, budgets>>

Records == {"ours", "other"}

\* All CRs are queued at the start: the informer reports each as created.
Init ==
  /\ drifted = {}
  /\ log = <<>>
  /\ feed = 0
  /\ link = "down"
  /\ todo = {}
  /\ recent = {}
  /\ chan = <<>>
  /\ queue = Objects
  /\ busy = None
  /\ pc = "idle"
  /\ stamped = {}
  /\ swallowed = {}
  /\ missed = {}
  /\ edits = MaxEdits
  /\ faults = MaxFaults

Holds(records, r) == \E i \in 1..Len(records) : records[i] = r

\* Something goes against the path; MaxFaults says what.
Fault ==
  /\ faults > 0
  /\ faults' = faults - 1

-----------------------------------------------------------------------------
(* The Admin API *)

\* The log with one more record; the replay reaches back Replay records.
Logged(r) ==
  IF Len(log) < Replay THEN Append(log, r) ELSE Append(Tail(log), r)

\* A record is appended, and sent where it matters to this operator.
Emit(r) ==
  /\ log' = Logged(r)
  /\ IF link # "down" /\ r = "ours"
     THEN feed < MaxFeed /\ feed' = feed + 1
     ELSE UNCHANGED feed

\* What stays unheard if the replay no longer reaches back to it.
Forgotten(records) == IF Holds(records, "ours") THEN {} ELSE drifted

OutsideEdit(o) ==
  /\ edits > 0
  /\ edits' = edits - 1
  /\ drifted' = drifted \cup {o}
  /\ Emit("ours")
  /\ UNCHANGED <<missed, reader, worker, swallowed, faults>>

\* A record of another resource type, which may push one of ours out of what the
\* replay still brings.
Noise ==
  /\ Fault
  /\ Emit("other")
  /\ missed' = IF link = "down" THEN missed \cup Forgotten(log') ELSE missed
  /\ UNCHANGED <<drifted, reader, worker, swallowed, edits>>

-----------------------------------------------------------------------------
(* The connection *)

\* Mutant: the stream is opened without the replay parameter.
ConnectWithoutReplay ==
  /\ link = "down"
  /\ link' = "read"
  /\ feed' = 0
  /\ UNCHANGED <<drifted, log, missed, todo, recent, chan, worker, swallowed, budgets>>

\* connectAndRead dials with replay=50: each of the last records comes again.
Connect ==
  /\ link = "down"
  /\ link' = "read"
  /\ feed' = LET ours == Cardinality({i \in 1..Len(log) : log[i] = "ours"})
             IN  IF ours <= MaxFeed THEN ours ELSE MaxFeed
  /\ UNCHANGED <<drifted, log, missed, todo, recent, chan, worker, swallowed, budgets>>

\* ReadMessage fails; what was on its way is gone.
Drop ==
  /\ link = "read"
  /\ Fault
  /\ link' = "down"
  /\ feed' = 0
  /\ missed' = missed \cup Forgotten(log)
  /\ UNCHANGED <<drifted, log, todo, recent, chan, worker, swallowed, edits>>

\* handleMessage: an event of our type goes to dispatch, which lists the CRs.
Receive ==
  /\ link = "read"
  /\ feed > 0
  /\ feed' = feed - 1
  /\ \/ /\ link' = "dispatch"
        /\ todo' = Objects
        /\ UNCHANGED <<missed, faults>>
     \/ /\ Fault
        /\ missed' = missed \cup drifted
        /\ UNCHANGED <<link, todo>>
  /\ UNCHANGED <<drifted, log, recent, chan, worker, swallowed, edits>>

\* Mutant: the debounce is not looked at.
DispatchEager(o) ==
  /\ o \in todo
  /\ todo' = todo \ {o}
  /\ recent' = recent \cup {o}
  /\ IF Len(chan) < Cap
     THEN chan' = Append(chan, o) /\ UNCHANGED missed
     ELSE UNCHANGED chan /\ missed' = missed \cup ({o} \cap drifted)
  /\ UNCHANGED <<drifted, log, feed, link, swallowed, worker, budgets>>

\* Mutant: the capacity of the channel is not looked at.
DispatchUnbounded(o) ==
  /\ o \in todo
  /\ todo' = todo \ {o}
  /\ recent' = recent \cup {o}
  /\ chan' = Append(chan, o)
  /\ UNCHANGED <<api, link, swallowed, worker, budgets>>

\* One turn of dispatch's loop: an object within its window is skipped, any
\* other is stamped and then sent, or dropped where the channel is full.
Dispatch(o) ==
  /\ o \in todo
  /\ todo' = todo \ {o}
  /\ recent' = recent \cup {o}
  /\ \/ /\ o \in recent
        /\ swallowed' = swallowed \cup ({o} \cap drifted)
        /\ UNCHANGED <<chan, missed>>
     \/ /\ o \notin recent
        /\ Len(chan) < Cap
        /\ chan' = Append(chan, o)
        /\ UNCHANGED <<swallowed, missed>>
     \/ /\ o \notin recent
        /\ Len(chan) = Cap
        /\ missed' = missed \cup ({o} \cap drifted)
        /\ UNCHANGED <<chan, swallowed>>
  /\ UNCHANGED <<drifted, log, feed, link, worker, budgets>>

Dispatched ==
  /\ link = "dispatch"
  /\ todo = {}
  /\ link' = "read"
  /\ UNCHANGED <<api, todo, recent, chan, worker, swallowed, budgets>>

Reader == Connect \/ Receive \/ Dispatched \/ \E o \in Objects : Dispatch(o)

-----------------------------------------------------------------------------
(* controller-runtime: the channel source, the work queue, one worker *)

\* source.Channel and EnqueueRequestForObject; the queue holds a key once.
Deliver ==
  /\ chan # <<>>
  /\ chan' = Tail(chan)
  /\ queue' = queue \cup {Head(chan)}
  /\ UNCHANGED <<api, link, todo, recent, busy, pc, stamped, swallowed, budgets>>

\* A key added while its object is under reconciliation waits for the end.
Take(o) ==
  /\ busy = None
  /\ o \in queue
  /\ queue' = queue \ {o}
  /\ busy' = o
  /\ pc' = "fetch"
  /\ UNCHANGED <<api, reader, stamped, swallowed, budgets>>

\* Mutant: the comparison leaves out the field that was changed.
FetchBlind ==
  /\ pc = "fetch"
  /\ pc' = IF busy \in Stubborn THEN "patch" ELSE "status"
  /\ UNCHANGED <<drifted, log, feed, missed, swallowed, reader, queue, busy, stamped, budgets>>

\* The pass reads the live object and compares.
Fetch ==
  /\ pc = "fetch"
  /\ pc' = IF busy \in drifted \cup Stubborn THEN "patch" ELSE "status"
  /\ swallowed' = swallowed \ {busy}
  /\ missed' = missed \ {busy}
  /\ UNCHANGED <<drifted, log, feed, reader, queue, busy, stamped, budgets>>

\* The corrective write, which the stream echoes back.
Patch ==
  /\ pc = "patch"
  /\ drifted' = drifted \ {busy}
  /\ swallowed' = swallowed \ {busy}
  /\ missed' = missed \ {busy}
  /\ Emit("ours")
  /\ pc' = "status"
  /\ UNCHANGED <<reader, queue, busy, stamped, budgets>>

\* Mutant: a key added during the pass is forgotten at its end.
WriteStatusForgetful ==
  /\ pc = "status"
  /\ queue' = IF busy \in stamped THEN queue \ {busy} ELSE queue \cup {busy}
  /\ stamped' = stamped \cup {busy}
  /\ busy' = None
  /\ pc' = "idle"
  /\ UNCHANGED <<api, reader, swallowed, budgets>>

\* Every pass sets lastSyncedAt: in a new second the CR changes, and the watch
\* of its own kind, which has no predicate, queues it once more.  (So does the
\* change of the condition's reason in the pass after a correction, left out.)
WriteStatus ==
  /\ pc = "status"
  /\ queue' = IF busy \in stamped THEN queue ELSE queue \cup {busy}
  /\ stamped' = stamped \cup {busy}
  /\ busy' = None
  /\ pc' = "idle"
  /\ UNCHANGED <<api, reader, swallowed, budgets>>

\* A call fails, the status update included: the pass returns the error and the
\* key is queued again.
FailPass ==
  /\ pc # "idle"
  /\ Fault
  /\ queue' = queue \cup {busy}
  /\ busy' = None
  /\ pc' = "idle"
  /\ UNCHANGED <<api, reader, stamped, swallowed, edits>>

Worker == Fetch \/ Patch \/ WriteStatus

\* The 15-minute requeue of the last pass.
Poll(o) ==
  /\ queue' = queue \cup {o}
  /\ UNCHANGED <<api, reader, busy, pc, stamped, swallowed, budgets>>

AnyPoll == \E o \in Objects : Poll(o)

-----------------------------------------------------------------------------
(* Time *)

\* The second and the debounce window end whenever they do: within a pass whose
\* calls take long, while other keys are before this one in the queue, with an
\* echo on its way.
SecondEnds ==
  /\ stamped # {}
  /\ stamped' = {}
  /\ UNCHANGED <<api, reader, queue, busy, pc, swallowed, budgets>>

WindowEnds(o) ==
  /\ o \in recent
  /\ recent' = recent \ {o}
  /\ UNCHANGED <<api, link, todo, chan, worker, swallowed, budgets>>

Clock == SecondEnds \/ \E o \in Objects : WindowEnds(o)

Next ==
  \/ Reader \/ Deliver \/ Worker \/ Clock \/ AnyPoll
  \/ \E o \in Objects : OutsideEdit(o) \/ Take(o)
  \/ Noise \/ Drop \/ FailPass

Spec == Init /\ [][Next]_vars

\* The connection, the channel source and the worker are goroutines of their
\* own, and none waits for ever for the others; the work queue is first in, first
\* out, so that no key does.  Polls, outsiders, other records and faults may
\* stop, and nothing is assumed of how fast time goes by.
FairSpec ==
  /\ Spec
  /\ WF_vars(Reader) /\ WF_vars(Deliver) /\ WF_vars(Worker)
  /\ \A o \in Objects : SF_vars(Take(o))

-----------------------------------------------------------------------------
(* Properties *)

\* The variables stay in their types, the channel in its capacity.
TypeOK ==
  /\ drifted \subseteq Objects
  /\ log \in Seq(Records) /\ Len(log) <= Replay
  /\ feed \in 0..MaxFeed
  /\ link \in {"down", "read", "dispatch"}
  /\ todo \subseteq Objects
  /\ todo # {} => link = "dispatch"
  /\ recent \subseteq Objects
  /\ chan \in Seq(Objects) /\ Len(chan) <= Cap
  /\ queue \subseteq Objects
  /\ busy \in Objects \cup {None}
  /\ pc \in {"idle", "fetch", "patch", "status"}
  /\ (pc = "idle") = (busy = None)
  /\ stamped \subseteq Objects
  /\ swallowed \subseteq drifted
  /\ missed \subseteq drifted
  /\ edits \in Nat /\ faults \in Nat

\* The change of o is still on its way to a pass that will read it.
Heard(o) ==
  \/ IF link = "down" THEN Holds(log, "ours") ELSE feed > 0
  \/ o \in todo \cup queue
  \/ Holds(chan, o)
  \/ busy = o /\ pc \in {"fetch", "patch"}

\* Between the edit and its correction the change is always on its way through
\* stream, channel, queue or pass, unless the debounce swallowed an event of the
\* object, or one was lost where a comment says so: the channel was full, a
\* listing failed, the replay did not reach back.
NothingLost == \A o \in drifted : Heard(o) \/ o \in swallowed \cup missed

\* Nor does it stay on its way: time and again an object is as its spec says, or its
\* change is one of those lost, without any poll.
Corrected == \A o \in Objects : []<>(o \notin drifted \/ o \in swallowed \cup missed)

\* Something is under way that will, or may, enqueue o or run its pass.
Pending(o) == feed > 0 \/ o \in todo \cup queue \/ Holds(chan, o) \/ busy = o

\* From some time on the clock ticks between the passes: no second ends while one
\* is queued or running, and no window before its echoes are in.
Swift ==
  <>[][/\ SecondEnds => queue = {} /\ busy = None
       /\ \A o \in Objects : WindowEnds(o) => ~Pending(o)]_vars

Hammering == []<>(pc = "patch")
Polled == []<><<AnyPoll>>_vars

\* What a comparison that never agrees costs while passes are swift: writes go on
\* for ever only if polls do.  The echoes of its own writes, the watch of the
\* operator's own status updates and what the two queue together all die out.
\* Neither half of Swift can be left out: each loop keeps itself up alone.
SwiftCadence == Swift /\ Hammering => Polled

\* The poll is a backstop for everything the stream may lose.
Backstop ==
  (\A o \in Objects : []<><<Poll(o)>>_vars) => <>[](drifted = {})

-----------------------------------------------------------------------------
(* What a comment of the code says and the code does not do                *)

\* "Safe because each reconcile re-reads the full live state, so collapsing N
\* events into one loses nothing" (eventstream.go:110-112): with the debounce,
\* too, a change is on its way until it is corrected, be it by the pass that the
\* operator's own status update will cause.
CollapsingLosesNothing ==
  \A o \in drifted : Heard(o) \/ o \in missed \/ (busy = o /\ o \notin stamped)

\* "a drift-comparison that fails to converge degrades to the periodic poll's
\* cadence instead of hammering the Admin API" (eventstream.go:108-110): writes
\* go on for ever only if polls do, however long a pass takes.
PollCadence == Hammering => Polled
=============================================================================
