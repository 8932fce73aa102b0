-------------------------- MODULE EventStreamProofs --------------------------
(***************************************************************************)
(* Safety of the event-stream Manager, for any sets of resource types,     *)
(* organisations and conn structs and any number of faults: its types, at  *)
(* most one goroutine per organisation and none forgotten, and no stream   *)
(* closed under an organisation whose CRs were there all along.            *)
(***************************************************************************)
EXTENDS EventStream, TLAPS

\* What is left to open belongs to the opening loop.
LeftWhenOpening == left # {} => mpc = "open"

\* An entry of m.conns is a struct that knows its organisation.
Entries == \A s \in Slugs : conns[s] # None => owner[conns[s]] = s

\* The struct a stop waits for is still an entry.
Awaited == mpc \in {"wait", "shutwait"} => \E s \in Slugs : conns[s] = waits /\ waits # None

\* Who had a CR all along is discovered, or its kind is still to be listed.
Covered ==
  \A k \in Kinds, s \in Slugs :
    <<k, s>> \in steady => s \in desired \/ (mpc = "list" /\ k \in todo)

IInv == TypeOK /\ LeftWhenOpening /\ Entries /\ Awaited /\ NoLeak /\ Covered

-----------------------------------------------------------------------------
\* What Open makes of the map and the structs: a free struct runs for s.
LEMMA OpenFacts ==
  ASSUME NEW s \in Slugs, IInv, conns[s] = None, Open(s)
  PROVE  \E c \in ConnIds :
           /\ Free(c)
           /\ conns' = [conns EXCEPT ![s] = c]
           /\ owner' = [owner EXCEPT ![c] = s]
           /\ cpc' = [cpc EXCEPT ![c] = "spawned"]
           /\ cancelled' = cancelled \ {c}
           /\ closed' = closed \ {c}
<1> DEFINE c == CHOOSE d \in ConnIds : Free(d)
<1>1. c \in ConnIds /\ Free(c)
  BY DEF Open
<1> QED
  BY <1>1 DEF Open

\* An opening keeps the map's types, its entries, and what is known of the
\* running goroutines.
LEMMA OpenKeeps ==
  ASSUME NEW s \in Slugs, IInv, conns[s] = None, Open(s)
  PROVE  /\ conns' \in [Slugs -> ConnIds \cup {None}]
         /\ owner' \in [ConnIds -> Slugs \cup {None}]
         /\ cpc' \in [ConnIds -> ConnSteps]
         /\ cancelled' \subseteq ConnIds /\ closed' \subseteq ConnIds
         /\ Entries' /\ NoLeak'
<1>1. PICK c \in ConnIds :
        /\ Free(c)
        /\ conns' = [conns EXCEPT ![s] = c]
        /\ owner' = [owner EXCEPT ![c] = s]
        /\ cpc' = [cpc EXCEPT ![c] = "spawned"]
        /\ cancelled' = cancelled \ {c}
        /\ closed' = closed \ {c}
  BY OpenFacts
<1>2. TypeOK
  BY DEF IInv
<1>3. Entries'
  BY <1>1, <1>2, NoneAssumption DEF IInv, Entries, Free, TypeOK
<1>4. NoLeak'
  <2> SUFFICES ASSUME NEW d \in ConnIds, Running(d)'
               PROVE  conns'[owner'[d]] = d
    BY DEF NoLeak
  <2>1. CASE d = c
    BY <1>1, <1>2, <2>1 DEF TypeOK
  <2>2. CASE d # c
    <3>1. Running(d) /\ owner'[d] = owner[d]
      BY <1>1, <1>2, <2>2 DEF TypeOK, Running
    <3>2. conns[owner[d]] = d
      BY <3>1 DEF IInv, NoLeak
    <3>3. owner[d] # s
      BY <3>2, NoneAssumption
    <3> QED
      BY <1>1, <1>2, <3>1, <3>2, <3>3 DEF TypeOK
  <2> QED
    BY <2>1, <2>2
<1> QED
  BY <1>1, <1>2, <1>3, <1>4 DEF TypeOK, ConnSteps

\* A step of a connection leaves the map alone and starts no goroutine.
LEMMA ConnectionKeeps ==
  ASSUME NEW c \in ConnIds, IInv, Connection(c)
  PROVE  IInv'
<1>1. /\ UNCHANGED <<env, stopping, conns, owner, cancelled, manager, wanted, faults>>
      /\ cpc' \in [ConnIds -> ConnSteps]
      /\ closed' \subseteq ConnIds
      /\ \A d \in ConnIds : Running(d)' => Running(d)
  BY DEF IInv, TypeOK, Connection, Run, CheckContext, Dial, Receive, Drop, CloseSocket,
         DispatchLock, DispatchList, Backoff, Move, Running, ConnSteps
<1>2. UNCHANGED <<crs, steady, user, held, mpc, todo, desired, left, waits>>
  BY <1>1 DEF env, manager
<1> QED
  BY <1>1, <1>2
     DEF IInv, TypeOK, LeftWhenOpening, Entries, Awaited, NoLeak, Covered

\* The end of a stop takes one entry and its struct.
LEMMA StoppedKeeps ==
  ASSUME IInv, NEW step, Stopped(step), mpc \in {"wait", "shutwait"}
  PROVE  /\ conns' \in [Slugs -> ConnIds \cup {None}]
         /\ owner' \in [ConnIds -> Slugs \cup {None}]
         /\ cpc' \in [ConnIds -> ConnSteps]
         /\ cancelled' \subseteq ConnIds /\ closed' \subseteq ConnIds
         /\ Entries' /\ NoLeak'
<1>1. TypeOK
  BY DEF IInv
<1>2. PICK s \in Slugs : conns[s] = waits /\ waits # None /\ owner[waits] = s
  BY DEF IInv, Awaited, Entries
<1>3. waits \in ConnIds
  BY <1>1, <1>2 DEF TypeOK
<1>4. /\ conns' = [conns EXCEPT ![s] = None]
      /\ owner' = [owner EXCEPT ![waits] = None]
      /\ cpc' = [cpc EXCEPT ![waits] = "unused"]
      /\ cancelled' = cancelled \ {waits}
      /\ closed' = closed \ {waits}
  BY <1>2 DEF Stopped
<1>5. Entries'
  BY <1>1, <1>2, <1>3, <1>4, NoneAssumption DEF IInv, Entries, TypeOK
<1>6. NoLeak'
  <2> SUFFICES ASSUME NEW d \in ConnIds, Running(d)'
               PROVE  conns'[owner'[d]] = d
    BY DEF NoLeak
  <2>1. d # waits /\ Running(d) /\ owner'[d] = owner[d]
    BY <1>1, <1>3, <1>4 DEF TypeOK, Running
  <2>2. conns[owner[d]] = d
    BY <2>1 DEF IInv, NoLeak
  <2>3. owner[d] # s
    BY <1>2, <2>1, <2>2
  <2> QED
    BY <1>1, <1>4, <2>1, <2>2, <2>3 DEF TypeOK
<1> QED
  BY <1>1, <1>3, <1>4, <1>5, <1>6 DEF TypeOK, ConnSteps

-----------------------------------------------------------------------------
\* m.mu is held over these steps of Start and no other.
Holding == {"open", "close", "wait", "shutdown", "shutwait"}

\* Between two critical sections the mutex is not held.
LEMMA NotHolding == \A step \in {"new", "tick", "done"} : FALSE = (step \in Holding)
<1> SUFFICES ASSUME NEW step \in {"new", "tick", "done"}, step \in Holding
             PROVE  FALSE
  OBVIOUS
<1> QED
  BY DEF Holding

\* The invariant holds when the manager starts.
LEMMA InitIInv == Init => IInv
  BY BoundsAssumption, NotHolding
     DEF Holding, Init, IInv, TypeOK, LeftWhenOpening, Entries, Awaited, NoLeak, Covered, Running,
         ConnSteps, ManagerSteps

\* Steps that touch neither the map nor a struct.
LEMMA QuietKeeps ==
  ASSUME IInv, UNCHANGED <<conns, conn>>, TypeOK', LeftWhenOpening', Awaited', Covered'
  PROVE  IInv'
  BY DEF IInv, conn, Entries, NoLeak, Running

\* The steps of Manager.Start that list, lock, unlock and wait.
LEMMA RoundKeeps ==
  ASSUME IInv,
         \/ Start \/ Discover \/ LockConns \/ StartClosing \/ UnlockConns
         \/ Tick \/ Finish \/ Shut \/ \E k \in Kinds : ListKind(k)
  PROVE  IInv'
<1> USE DEF env, conn, manager, TypeOK, LeftWhenOpening, Awaited, Covered, ManagerSteps
<1>1. CASE Start
  BY <1>1, QuietKeeps DEF IInv, Start
<1>2. CASE Discover
  BY <1>2, QuietKeeps DEF IInv, Discover
<1>3. CASE LockConns
  BY <1>3, QuietKeeps DEF IInv, LockConns
<1>4. CASE StartClosing
  BY <1>4, QuietKeeps DEF IInv, StartClosing
<1>5. CASE UnlockConns
  BY <1>5, QuietKeeps, NotHolding DEF IInv, UnlockConns, Holding
<1>6. CASE Tick
  BY <1>6, QuietKeeps DEF IInv, Tick
<1>7. CASE Finish
  BY <1>7, QuietKeeps DEF IInv, Finish
<1>8. CASE Shut
  BY <1>8, QuietKeeps, NotHolding DEF IInv, Shut, Holding
<1>9. CASE \E k \in Kinds : ListKind(k)
  <2>1. PICK k \in Kinds : ListKind(k)
    BY <1>9
  <2>2. /\ UNCHANGED <<crs, user, stopping, conns, conn, held, mpc, left, waits, wanted>>
        /\ mpc = "list" /\ todo' = todo \ {k}
        /\ desired \subseteq desired' /\ desired' \subseteq Slugs
        /\ steady' \subseteq steady /\ faults' \in Nat
        /\ \A s \in Slugs : <<k, s>> \in steady' => s \in desired'
    <3>1. /\ UNCHANGED <<crs, user, stopping, conns, conn, held, mpc, left, waits, wanted>>
          /\ mpc = "list" /\ todo' = todo \ {k}
      BY <2>1 DEF ListKind
    <3>2. CASE /\ desired' = desired \cup {s \in Slugs : <<k, s>> \in crs}
               /\ UNCHANGED <<faults, steady>>
      BY <3>1, <3>2 DEF IInv
    <3>3. CASE Fails /\ steady' = steady \ ({k} \X Slugs) /\ UNCHANGED desired
      BY <3>1, <3>3 DEF IInv, Fails
    <3> QED
      BY <2>1, <3>1, <3>2, <3>3 DEF ListKind
  <2> QED
    BY <2>2, QuietKeeps DEF IInv
<1> QED
  BY <1>1, <1>2, <1>3, <1>4, <1>5, <1>6, <1>7, <1>8, <1>9

\* No step of the manager's rounds and of its shutdown breaks it,
LEMMA ManageKeeps ==
  ASSUME IInv, Manage
  PROVE  IInv'
<1> USE DEF env, conn, manager
<1>1. TypeOK
  BY DEF IInv
<1>2. CASE CloseReturns
  <2>1. UNCHANGED <<crs, steady, user, stopping, held, todo, desired, left, wanted, faults>>
    BY <1>2 DEF CloseReturns
  <2>2. mpc = "wait" /\ mpc' = "close" /\ waits' = None /\ Stopped("close")
    BY <1>2 DEF CloseReturns, Stopped
  <2> QED
    BY <1>1, <2>1, <2>2, StoppedKeeps
       DEF IInv, TypeOK, LeftWhenOpening, Awaited, Covered, ManagerSteps
<1>3. CASE ShutReturns
  <2>1. UNCHANGED <<crs, steady, user, stopping, held, todo, desired, left, wanted, faults>>
    BY <1>3 DEF ShutReturns
  <2>2. mpc = "shutwait" /\ mpc' = "shutdown" /\ waits' = None /\ Stopped("shutdown")
    BY <1>3 DEF ShutReturns, Stopped
  <2> QED
    BY <1>1, <2>1, <2>2, StoppedKeeps
       DEF IInv, TypeOK, LeftWhenOpening, Awaited, Covered, ManagerSteps
<1>4. ASSUME NEW s \in Slugs, OpenDesired(s) PROVE IInv'
  <2>1. UNCHANGED <<crs, steady, user, stopping, held, mpc, todo, desired, waits, wanted>>
        /\ mpc = "open" /\ left' = left \ {s}
    BY <1>4 DEF OpenDesired
  <2>2. faults' \in Nat
    BY <1>1, <1>4 DEF OpenDesired, Fails, TypeOK
  <2>3. CASE UNCHANGED <<conns, conn>>
    BY <1>1, <2>1, <2>2, <2>3, QuietKeeps
       DEF IInv, TypeOK, LeftWhenOpening, Awaited, Covered
  <2>4. CASE conns[s] = None /\ Open(s)
    BY <1>1, <2>1, <2>2, <2>4, OpenKeeps
       DEF IInv, TypeOK, LeftWhenOpening, Awaited, Covered
  <2> QED
    BY <1>4, <2>3, <2>4 DEF OpenDesired
<1>5. ASSUME NEW s \in Slugs, CloseUndesired(s) \/ ShutConn(s) PROVE IInv'
  <2>1. /\ UNCHANGED <<crs, steady, user, stopping, conns, owner, cpc, closed>>
        /\ UNCHANGED <<held, todo, desired, left, wanted, faults>>
        /\ (mpc = "close" /\ mpc' = "wait") \/ (mpc = "shutdown" /\ mpc' = "shutwait")
        /\ conns[s] # None /\ waits' = conns[s]
        /\ cancelled' \subseteq ConnIds
    BY <1>1, <1>5 DEF CloseUndesired, ShutConn, Stop, TypeOK
  <2> QED
    BY <1>1, <2>1
       DEF IInv, TypeOK, LeftWhenOpening, Entries, Awaited, NoLeak, Covered, Running, ManagerSteps
<1> QED
  BY <1>2, <1>3, <1>4, <1>5, RoundKeeps DEF Manage

\* nor does a pass that wants a stream, a user, or the signal to stop,
LEMMA OthersKeep ==
  ASSUME IInv,
         \/ \E s \in Slugs : StartPass(s) \/ EnsureOrgWithKey(s)
         \/ User \/ Terminate
  PROVE  IInv'
<1> USE DEF env, conn, manager
<1>1. TypeOK
  BY DEF IInv
<1>2. ASSUME NEW s \in Slugs, StartPass(s) PROVE IInv'
  BY <1>1, <1>2, QuietKeeps DEF IInv, StartPass, TypeOK, LeftWhenOpening, Awaited, Covered
<1>3. ASSUME NEW s \in Slugs, EnsureOrgWithKey(s) PROVE IInv'
  <2>1. /\ UNCHANGED <<crs, steady, user, stopping, held, mpc, todo, desired, left, waits, faults>>
        /\ wanted' = wanted \ {s} /\ ~held
    BY <1>3 DEF EnsureOrgWithKey
  <2>2. CASE UNCHANGED <<conns, conn>>
    BY <1>1, <2>1, <2>2, QuietKeeps
       DEF IInv, TypeOK, LeftWhenOpening, Awaited, Covered
  <2>3. CASE conns[s] = None /\ Open(s)
    BY <1>1, <2>1, <2>3, OpenKeeps
       DEF IInv, TypeOK, LeftWhenOpening, Awaited, Covered
  <2> QED
    BY <1>3, <2>2, <2>3 DEF EnsureOrgWithKey
<1>4. CASE User
  <2>1. PICK k \in Kinds, s \in Slugs : CreateCR(k, s) \/ DeleteCR(k, s)
    BY <1>4 DEF User
  <2>2. /\ crs' \subseteq Kinds \X Slugs /\ steady' \subseteq crs' /\ steady' \subseteq steady
        /\ user' \in Nat
        /\ UNCHANGED <<stopping, conns, conn, manager, wanted, faults>>
    BY <1>1, <1>4, <2>1 DEF User, CreateCR, DeleteCR, TypeOK
  <2> QED
    BY <1>1, <2>2, QuietKeeps DEF IInv, TypeOK, LeftWhenOpening, Awaited, Covered
<1>5. CASE Terminate
  BY <1>1, <1>5, QuietKeeps DEF IInv, Terminate, TypeOK, LeftWhenOpening, Awaited, Covered
<1> QED
  BY <1>2, <1>3, <1>4, <1>5

\* nor a step in which nothing happens.
LEMMA StutterKeeps == IInv /\ UNCHANGED vars => IInv'
  BY DEF vars, env, conn, manager, IInv, TypeOK, LeftWhenOpening, Entries, Awaited, NoLeak,
         Covered, Running

\* The strengthened invariant holds in every state.
THEOREM Inductive == Spec => []IInv
<1>1. IInv /\ [Next]_vars => IInv'
  BY ManageKeeps, ConnectionKeeps, OthersKeep, StutterKeeps DEF Next
<1> QED
  BY InitIInv, <1>1, PTL DEF Spec

\* The variables stay in their types, and m.mu is held just where the code
\* holds it across calls.
THEOREM TypeCorrect == Spec => []TypeOK
<1>1. IInv => TypeOK
  BY DEF IInv
<1> QED
  BY Inductive, <1>1, PTL

\* Never two goroutines for one organisation and none the map has forgotten,
\* for any number of organisations, passes and rounds.
THEOREM LeakFree == Spec => []NoLeak
<1>1. IInv => NoLeak
  BY DEF IInv
<1> QED
  BY Inductive, <1>1, PTL

\* A round closes no stream of an organisation with a CR that was there from
\* its start, unless the lister of the kind failed.
THEOREM VanishedOnly == Spec => ClosesOnlyVanished
<1>1. IInv /\ [Next]_vars
      => [\A s \in Slugs : Closes(s) => \A k \in Kinds : <<k, s>> \notin steady]_vars
  <2> SUFFICES ASSUME IInv, Next, NEW s \in Slugs, Closes(s)
               PROVE  \A k \in Kinds : <<k, s>> \notin steady
    OBVIOUS
  <2>1. mpc = "close" /\ mpc' = "wait" /\ waits' = conns[s]
    BY DEF Closes
  <2>2. PICK z \in Slugs : CloseUndesired(z)
    <3>1. ~\E c \in ConnIds : Connection(c)
      BY <2>1 DEF Connection, Run, CheckContext, Dial, Receive, Drop, CloseSocket, DispatchLock,
                  DispatchList, Backoff, Move, manager
    <3>2. ~(User \/ Terminate \/ \E z \in Slugs : StartPass(z) \/ EnsureOrgWithKey(z))
      BY <2>1 DEF User, Terminate, StartPass, EnsureOrgWithKey, manager
    <3> QED
      BY <2>1, <3>1, <3>2
         DEF Next, Manage, Start, Discover, LockConns, StartClosing, CloseReturns, UnlockConns,
             Tick, Finish, ShutReturns, Shut, ListKind, OpenDesired, ShutConn, Stopped
  <2>3. conns[z] # None /\ z \notin desired /\ waits' = conns[z]
    BY <2>2 DEF CloseUndesired, Stop
  <2>4. s = z
    BY <2>1, <2>3 DEF IInv, Entries
  <2> QED
    BY <2>1, <2>3, <2>4 DEF IInv, Covered
<1> QED
  BY Inductive, <1>1, PTL DEF Spec, ClosesOnlyVanished
=============================================================================
