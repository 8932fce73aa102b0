----------------------------- MODULE EventStream ----------------------------
(***************************************************************************)
(* The event-stream Manager and its per-organisation connections           *)
(* (internal/eventstream/eventstream.go and conn.go): the discovery loop,  *)
(* the goroutine of every connection, the controllers that open one on     *)
(* demand, and shutdown.  What is enqueued is not modelled here.           *)
(*                                                                         *)
(* m.mu: every critical section but two does nothing that can block and is *)
(* one action, taken while the mutex is free.  reconcileConns and shutdown *)
(* hold it across calls of conn.stop, which waits for a goroutine: `held'  *)
(* says that one of them does.                                             *)
(***************************************************************************)
EXTENDS Naturals, FiniteSets

CONSTANTS
  Kinds,      \* the registered resource types, each with its lister
  Slugs,      \* organisations
  ConnIds,    \* conn structs; one is used again once nothing refers to it
  None,
  MaxUser,    \* bound: creations and deletions of CRs
  MaxFaults   \* bound: failed listings and key resolutions

ASSUME NoneAssumption == None \notin ConnIds \cup Slugs
ASSUME BoundsAssumption == MaxUser \in Nat /\ MaxFaults \in Nat

VARIABLES
  crs,        \* <<kind, slug>> of which some CR exists
  held,       \* m.mu is held by reconcileConns or shutdown
  stopping,   \* the context of Start is cancelled
  conns,      \* m.conns, None where there is no entry
  owner,      \* slug of each conn struct in use
  cpc,        \* where the goroutine of each conn is
  cancelled,  \* conns whose own context was cancelled
  closed,     \* conns whose socket was closed by the watcher goroutine
  mpc,        \* where Start is
  todo,       \* kinds left to list
  desired,    \* slugs discovered
  left,       \* desired slugs left to look at in the opening loop
  waits,      \* conn that stop waits for
  wanted,     \* slugs that passes of the controllers are about to ensure
  steady,     \* history: <<kind, slug>> that had a CR ever since discovery
              \* began, the kinds whose lister failed taken out
  user, faults

env     == <<crs, steady, user>>
conn    == <<owner, cpc, cancelled, closed>>
manager == <<held, mpc, todo, desired, left, waits>>
vars    == <<env, stopping, conns, conn, manager, wanted, faults>>

ConnSteps == {"unused", "spawned", "check", "dial", "read", "dispatch", "list",
              "backoff", "exited"}
ManagerSteps == {"new", "discover", "list", "lock", "open", "close", "wait",
                 "tick", "shutlock", "shutdown", "shutwait", "done"}

Init ==
  /\ crs = {}
  /\ held = FALSE
  /\ stopping = FALSE
  /\ conns = [s \in Slugs |-> None]
  /\ owner = [c \in ConnIds |-> None]
  /\ cpc = [c \in ConnIds |-> "unused"]
  /\ cancelled = {}
  /\ closed = {}
  /\ mpc = "new"
  /\ todo = {}
  /\ desired = {}
  /\ left = {}
  /\ waits = None
  /\ wanted = {}
  /\ steady = {}
  /\ user = MaxUser
  /\ faults = MaxFaults

\* The goroutine of c may still run.
Running(c) == cpc[c] \notin {"unused", "exited"}

\* ctx.Err() of a conn: its own context, or the one of Start it derives from.
Done(c) == c \in cancelled \/ stopping

-----------------------------------------------------------------------------
(* The map of connections *)

\* A struct nothing refers to any more.
Free(c) == ~Running(c) /\ \A s \in Slugs : conns[s] # c

\* newConn, the entry of the map, and `go c.run'.
Open(s) ==
  LET c == CHOOSE d \in ConnIds : Free(d)
  IN  /\ \E d \in ConnIds : Free(d)
      /\ conns' = [conns EXCEPT ![s] = c]
      /\ owner' = [owner EXCEPT ![c] = s]
      /\ cpc' = [cpc EXCEPT ![c] = "spawned"]
      /\ cancelled' = cancelled \ {c}
      /\ closed' = closed \ {c}

\* conn.stop up to the wait for c.done: run has not set c.cancel before its
\* first statement, and a nil cancel is not called.  The field is read without
\* synchronisation; a store stop does not see yet is a goroutine still spawned.
Stop(s, step) ==
  LET c == conns[s]
  IN  /\ cancelled' = IF cpc[c] = "spawned" THEN cancelled ELSE cancelled \cup {c}
      /\ waits' = c
      /\ mpc' = step

\* Mutant: stop does not wait for the goroutine.
StoppedEarly(step) ==
  /\ conns' = [conns EXCEPT ![owner[waits]] = None]
  /\ waits' = None
  /\ mpc' = step
  /\ UNCHANGED conn

\* c.done is closed: stop returns, the entry is deleted and the struct with it.
Stopped(step) ==
  /\ cpc[waits] = "exited"
  /\ conns' = [conns EXCEPT ![owner[waits]] = None]
  /\ owner' = [owner EXCEPT ![waits] = None]
  /\ cpc' = [cpc EXCEPT ![waits] = "unused"]
  /\ cancelled' = cancelled \ {waits}
  /\ closed' = closed \ {waits}
  /\ waits' = None
  /\ mpc' = step

-----------------------------------------------------------------------------
(* Manager.Start *)

Fails ==
  /\ faults > 0
  /\ faults' = faults - 1

\* runCtx is published; from now on EnsureOrgWithKey opens connections.
Start ==
  /\ mpc = "new"
  /\ mpc' = "discover"
  /\ UNCHANGED <<env, stopping, conns, conn, held, todo, desired, left, waits, wanted, faults>>

\* discover copies the registrations under m.mu, then lists without it.
Discover ==
  /\ mpc = "discover"
  /\ ~held
  /\ mpc' = "list"
  /\ todo' = Kinds
  /\ desired' = {}
  /\ steady' = crs
  /\ UNCHANGED <<crs, user, stopping, conns, conn, held, left, waits, wanted, faults>>

\* One lister; an error only skips its kind.
ListKind(k) ==
  /\ mpc = "list"
  /\ k \in todo
  /\ todo' = todo \ {k}
  /\ \/ /\ desired' = desired \cup {s \in Slugs : <<k, s>> \in crs}
        /\ UNCHANGED faults
        /\ UNCHANGED steady
     \/ /\ Fails
        /\ steady' = steady \ ({k} \X Slugs)
        /\ UNCHANGED desired
  /\ UNCHANGED <<crs, user, stopping, conns, conn, held, mpc, left, waits, wanted>>

LockConns ==
  /\ mpc = "list"
  /\ todo = {}
  /\ ~held
  /\ held' = TRUE
  /\ mpc' = "open"
  /\ left' = desired
  /\ UNCHANGED <<env, stopping, conns, conn, todo, desired, waits, wanted, faults>>

\* One turn of the first loop of reconcileConns; a key that does not resolve
\* leaves the organisation for the next round.
OpenDesired(s) ==
  /\ mpc = "open"
  /\ s \in left
  /\ left' = left \ {s}
  /\ \/ /\ conns[s] # None
        /\ UNCHANGED <<conns, conn, faults>>
     \/ /\ conns[s] = None
        /\ Open(s)
        /\ UNCHANGED faults
     \/ /\ conns[s] = None
        /\ Fails
        /\ UNCHANGED <<conns, conn>>
  /\ UNCHANGED <<env, stopping, held, mpc, todo, desired, waits, wanted>>

StartClosing ==
  /\ mpc = "open"
  /\ left = {}
  /\ mpc' = "close"
  /\ UNCHANGED <<env, stopping, conns, conn, held, todo, desired, left, waits, wanted, faults>>

\* Mutant: every connection is closed, desired or not.
CloseAny(s) ==
  /\ mpc = "close"
  /\ conns[s] # None
  /\ Stop(s, "wait")
  /\ UNCHANGED <<env, stopping, conns, owner, cpc, closed, held, todo, desired, left, wanted, faults>>

\* One turn of the second loop: stop, wait, delete.
CloseUndesired(s) ==
  /\ mpc = "close"
  /\ conns[s] # None
  /\ s \notin desired
  /\ Stop(s, "wait")
  /\ UNCHANGED <<env, stopping, conns, owner, cpc, closed, held, todo, desired, left, wanted, faults>>

CloseReturns ==
  /\ mpc = "wait"
  /\ Stopped("close")
  /\ UNCHANGED <<env, stopping, held, todo, desired, left, wanted, faults>>

\* Mutant: m.mu is not unlocked at the end of the round.
UnlockForgotten ==
  /\ mpc = "close"
  /\ \A s \in Slugs : conns[s] # None => s \in desired
  /\ mpc' = "tick"
  /\ UNCHANGED <<env, stopping, conns, conn, held, todo, desired, left, waits, wanted, faults>>

UnlockConns ==
  /\ mpc = "close"
  /\ \A s \in Slugs : conns[s] # None => s \in desired
  /\ held' = FALSE
  /\ mpc' = "tick"
  /\ UNCHANGED <<env, stopping, conns, conn, todo, desired, left, waits, wanted, faults>>

\* Mutant: the ticker does not start another round.
TickIgnored ==
  /\ mpc = "tick"
  /\ UNCHANGED vars

\* The select of Start: the ticker, or the end of the context.
Tick ==
  /\ mpc = "tick"
  /\ mpc' = "discover"
  /\ UNCHANGED <<env, stopping, conns, conn, held, todo, desired, left, waits, wanted, faults>>

Finish ==
  /\ mpc = "tick"
  /\ stopping
  /\ ~held
  /\ held' = TRUE
  /\ mpc' = "shutdown"
  /\ UNCHANGED <<env, stopping, conns, conn, todo, desired, left, waits, wanted, faults>>

\* shutdown: every connection, one after the other, then Start returns.
ShutConn(s) ==
  /\ mpc = "shutdown"
  /\ conns[s] # None
  /\ Stop(s, "shutwait")
  /\ UNCHANGED <<env, stopping, conns, owner, cpc, closed, held, todo, desired, left, wanted, faults>>

ShutReturns ==
  /\ mpc = "shutwait"
  /\ Stopped("shutdown")
  /\ UNCHANGED <<env, stopping, held, todo, desired, left, wanted, faults>>

Shut ==
  /\ mpc = "shutdown"
  /\ \A s \in Slugs : conns[s] = None
  /\ held' = FALSE
  /\ mpc' = "done"
  /\ UNCHANGED <<env, stopping, conns, conn, todo, desired, left, waits, wanted, faults>>

Manage ==
  \/ Start \/ Discover \/ LockConns \/ StartClosing \/ CloseReturns
  \/ UnlockConns \/ Tick \/ Finish \/ ShutReturns \/ Shut
  \/ \E k \in Kinds : ListKind(k)
  \/ \E s \in Slugs : OpenDesired(s) \/ CloseUndesired(s) \/ ShutConn(s)

-----------------------------------------------------------------------------
(* A connection: conn.run and connectAndRead *)

Move(c, from, to) ==
  /\ cpc[c] = from
  /\ cpc' = [cpc EXCEPT ![c] = to]
  /\ UNCHANGED <<env, stopping, conns, owner, cancelled, manager, wanted, faults>>

\* context.WithCancel and the assignment of c.cancel.
Run(c) ==
  /\ Move(c, "spawned", "check")
  /\ UNCHANGED closed

\* Mutant: the loop dials without looking at its context.
CheckForgotten(c) ==
  /\ Move(c, "check", "dial")
  /\ UNCHANGED closed

\* The loop returns where it finds its context done: before dialling, after a
\* failed or dropped connection, and instead of the backoff.
CheckContext(c) ==
  /\ \/ Done(c) /\ Move(c, "check", "exited")
     \/ ~Done(c) /\ Move(c, "check", "dial")
  /\ UNCHANGED closed

\* DialContext: connected, or failed (always so when the context is done).
Dial(c) ==
  /\ \/ ~Done(c) /\ Move(c, "dial", "read")
     \/ Move(c, "dial", "backoff")
  /\ closed' = closed \ {c}

\* ReadMessage returns an event of a managed type ...
Receive(c) ==
  /\ c \notin closed
  /\ Move(c, "read", "dispatch")
  /\ UNCHANGED closed

\* ... or fails: the server dropped the connection, or the watcher closed it.
Drop(c) ==
  /\ Move(c, "read", "backoff")
  /\ UNCHANGED closed

\* Mutant: the watcher goroutine does not close the socket.
SocketLeftOpen(c) ==
  /\ Done(c)
  /\ cpc[c] \in {"read", "dispatch", "list"}
  /\ UNCHANGED vars

\* The goroutine that closes the socket when the context is done.
CloseSocket(c) ==
  /\ Done(c)
  /\ cpc[c] \in {"read", "dispatch", "list"}
  /\ c \notin closed
  /\ closed' = closed \cup {c}
  /\ UNCHANGED <<env, stopping, conns, owner, cpc, cancelled, manager, wanted, faults>>

\* dispatch takes m.mu to look the registration up ...
DispatchLock(c) ==
  /\ ~held
  /\ Move(c, "dispatch", "list")
  /\ UNCHANGED closed

\* ... and lists and enqueues without it.
DispatchList(c) ==
  /\ Move(c, "list", "read")
  /\ UNCHANGED closed

\* The disconnected loop: the context is done, or the backoff is over.
Backoff(c) ==
  /\ \/ Done(c) /\ Move(c, "backoff", "exited")
     \/ Move(c, "backoff", "check")
  /\ UNCHANGED closed

Connection(c) ==
  \/ Run(c) \/ CheckContext(c) \/ Dial(c) \/ Receive(c) \/ Drop(c)
  \/ CloseSocket(c) \/ DispatchLock(c) \/ DispatchList(c) \/ Backoff(c)

-----------------------------------------------------------------------------
(* Controllers, users and the end of the process *)

\* A pass reads a CR from the cache and resolves its key.
StartPass(s) ==
  /\ s \notin wanted
  /\ \E k \in Kinds : <<k, s>> \in crs
  /\ wanted' = wanted \cup {s}
  /\ UNCHANGED <<env, stopping, conns, conn, manager, faults>>

\* EnsureOrgWithKey: nothing before Start, nothing for an org with a conn.
EnsureOrgWithKey(s) ==
  /\ s \in wanted
  /\ ~held
  /\ IF mpc # "new" /\ conns[s] = None
     THEN Open(s)
     ELSE UNCHANGED <<conns, conn>>
  /\ wanted' = wanted \ {s}
  /\ UNCHANGED <<env, stopping, manager, faults>>

CreateCR(k, s) ==
  /\ <<k, s>> \notin crs
  /\ crs' = crs \cup {<<k, s>>}
  /\ UNCHANGED steady

DeleteCR(k, s) ==
  /\ <<k, s>> \in crs
  /\ crs' = crs \ {<<k, s>>}
  /\ steady' = steady \ {<<k, s>>}

User ==
  /\ user > 0
  /\ user' = user - 1
  /\ \E k \in Kinds, s \in Slugs : CreateCR(k, s) \/ DeleteCR(k, s)
  /\ UNCHANGED <<stopping, conns, conn, manager, wanted, faults>>

\* SIGTERM or a lost lease: the context of the whole manager ends.
Terminate ==
  /\ ~stopping
  /\ mpc # "new"
  /\ stopping' = TRUE
  /\ UNCHANGED <<env, conns, conn, manager, wanted, faults>>

Next ==
  \/ Manage
  \/ \E c \in ConnIds : Connection(c)
  \/ \E s \in Slugs : StartPass(s) \/ EnsureOrgWithKey(s)
  \/ User
  \/ Terminate

Spec == Init /\ [][Next]_vars

\* What a goroutine does on its own: everything but waiting for the server.
Progress(c) ==
  \/ Run(c) \/ CheckContext(c) \/ Dial(c) \/ DispatchList(c) \/ Backoff(c)
  \/ c \in closed /\ Drop(c)

\* Goroutines run; a dial ends within HandshakeTimeout.  A sync.Mutex is not
\* kept from a waiter for ever (starvation mode), and a select whose Done case
\* stays ready takes it some time: strong fairness.  Nothing makes the server
\* send or drop, nor users, faults or a termination happen.
FairSpec ==
  /\ Spec
  /\ WF_vars(Manage)
  /\ SF_vars(Finish)
  /\ \A c \in ConnIds :
       /\ WF_vars(Progress(c))
       /\ WF_vars(CloseSocket(c))
       /\ SF_vars(DispatchLock(c))
  /\ \A s \in Slugs : SF_vars(EnsureOrgWithKey(s))

-----------------------------------------------------------------------------
(* Properties *)

\* The variables stay in their types, and m.mu is held where the code holds it.
TypeOK ==
  /\ crs \subseteq Kinds \X Slugs
  /\ steady \subseteq crs
  /\ stopping \in BOOLEAN
  /\ conns \in [Slugs -> ConnIds \cup {None}]
  /\ owner \in [ConnIds -> Slugs \cup {None}]
  /\ cpc \in [ConnIds -> ConnSteps]
  /\ cancelled \subseteq ConnIds
  /\ closed \subseteq ConnIds
  /\ mpc \in ManagerSteps
  /\ held = (mpc \in {"open", "close", "wait", "shutdown", "shutwait"})
  /\ todo \subseteq Kinds
  /\ desired \subseteq Slugs
  /\ left \subseteq desired
  /\ waits \in ConnIds \cup {None}
  /\ wanted \subseteq Slugs
  /\ user \in Nat
  /\ faults \in Nat

\* A running goroutine is the one the map names for its organisation: never
\* two streams for one organisation, and none that the Manager lost track of,
\* however discovery, passes on demand and stops interleave.
NoLeak == \A c \in ConnIds : Running(c) => conns[owner[c]] = c

Closes(s) == mpc = "close" /\ mpc' = "wait" /\ waits' = conns[s]

\* A round closes no stream of an organisation of which some CR was there from
\* the start of the round to the close, unless the lister of its kind failed.
ClosesOnlyVanished ==
  [][\A s \in Slugs : Closes(s) => \A k \in Kinds : <<k, s>> \notin steady]_vars

\* The two ways conn.stop never returns: the goroutine waits for the m.mu that
\* stop's caller holds, or its context was not cancelled.
Wedged ==
  /\ mpc \in {"wait", "shutwait"}
  /\ cpc[waits] = "dispatch" \/ ~Done(waits)

\* There is no third way: every other stop returns.
OnlyTwoWedges == mpc \in {"wait", "shutwait"} ~> mpc \notin {"wait", "shutwait"} \/ Wedged

\* An organisation that keeps a CR gets its stream and keeps it, unless the
\* Manager is wedged or told to stop.
Opens ==
  \A s \in Slugs :
    <>[](\E k \in Kinds : <<k, s>> \in crs) /\ []~Wedged /\ []~stopping
      => <>[](conns[s] # None)

\* No pass of a controller hangs in EnsureOrgWithKey, unless wedged.
EnsureReturns == \A s \in Slugs : s \in wanted ~> s \notin wanted \/ Wedged

\* After the context ended every goroutine exits, unless wedged, those opened
\* by a late pass included.
AllExit ==
  [](stopping => <>(Wedged \/ [](\A c \in ConnIds : cpc[c] \in {"unused", "spawned", "check", "exited"})))

-----------------------------------------------------------------------------
(* What a comment of the code says and the code does not do                *)

\* "ReadMessage blocks and does not observe ctx; closing the socket when ctx is
\* cancelled unblocks it so the connection can shut down promptly"
\* (conn.go:104-105): the goroutine of a cancelled connection ends.
ShutsDown == \A c \in ConnIds : Running(c) /\ Done(c) ~> ~Running(c)
=============================================================================
