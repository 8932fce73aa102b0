--------------------------- MODULE DriftPathProofs ---------------------------
(***************************************************************************)
(* Type correctness of DriftPath and its main safety property, for every   *)
(* set of CRs, every capacity of the channel, every length of the replay   *)
(* and every bound of the environment.  NothingLost is inductive with the  *)
(* type invariant: each step that takes a change out of one place puts it  *)
(* into the next one or records in swallowed or missed why it does not.    *)
(***************************************************************************)
EXTENDS DriftPath, FiniteSetTheorems, TLAPS

-----------------------------------------------------------------------------
(* Sequences *)

\* Append to a log of the last Replay records keeps it one.
LEMMA LoggedType ==
  ASSUME NEW r \in Records, log \in Seq(Records), Len(log) <= Replay
  PROVE  Logged(r) \in Seq(Records) /\ Len(Logged(r)) <= Replay
<1>1. Replay \in Nat \ {0}
  BY BoundsAssumption
<1>2. CASE Len(log) < Replay
  BY <1>1, <1>2 DEF Logged
<1>3. CASE ~(Len(log) < Replay)
  <2>1. log # <<>> /\ Len(log) = Replay
    BY <1>1, <1>3
  <2>2. Tail(log) \in Seq(Records) /\ Len(Tail(log)) = Replay - 1
    BY <1>1, <2>1
  <2>3. QED
    BY <1>1, <1>3, <2>2 DEF Logged
<1>4. QED
  BY <1>2, <1>3

\* The appended element is in the sequence.
LEMMA AppendHolds ==
  ASSUME NEW S, NEW s \in Seq(S), NEW e \in S
  PROVE  Holds(Append(s, e), e)
<1>1. Len(s) + 1 \in 1..Len(Append(s, e)) /\ Append(s, e)[Len(s) + 1] = e
  OBVIOUS
<1>2. QED
  BY <1>1 DEF Holds

\* Append leaves what a sequence holds in it.
LEMMA AppendKeeps ==
  ASSUME NEW S, NEW s \in Seq(S), NEW e \in S, NEW f, Holds(s, f)
  PROVE  Holds(Append(s, e), f)
<1>1. PICK i \in 1..Len(s) : s[i] = f
  BY DEF Holds
<1>2. i \in 1..Len(Append(s, e)) /\ Append(s, e)[i] = f
  BY <1>1
<1>3. QED
  BY <1>2 DEF Holds

\* What a sequence holds is its head or in its tail.
LEMMA HeadOrTail ==
  ASSUME NEW S, NEW s \in Seq(S), s # <<>>, NEW e, Holds(s, e)
  PROVE  e = Head(s) \/ Holds(Tail(s), e)
<1>1. PICK i \in 1..Len(s) : s[i] = e
  BY DEF Holds
<1>2. CASE i = 1
  BY <1>1, <1>2
<1>3. CASE i # 1
  <2>1. i - 1 \in 1..Len(Tail(s)) /\ Tail(s)[i - 1] = e
    BY <1>1, <1>3
  <2>2. QED
    BY <2>1 DEF Holds
<1>4. QED
  BY <1>2, <1>3

\* A record of ours just logged is within the reach of the replay.
LEMMA OursLogged ==
  ASSUME log \in Seq(Records), Len(log) <= Replay
  PROVE  Holds(Logged("ours"), "ours")
<1>1. Replay \in Nat \ {0}
  BY BoundsAssumption
<1>2. CASE Len(log) < Replay
  BY <1>2, AppendHolds DEF Logged, Records
<1>3. CASE ~(Len(log) < Replay)
  <2>1. Tail(log) \in Seq(Records)
    BY <1>1, <1>3
  <2>2. QED
    BY <1>3, <2>1, AppendHolds DEF Logged, Records
<1>4. QED
  BY <1>2, <1>3

-----------------------------------------------------------------------------
(* Type correctness *)

\* The bounds are natural numbers, the channel and the replay hold something.
LEMMA Bounds ==
  /\ Cap \in Nat /\ Cap > 0 /\ Replay \in Nat /\ Replay > 0
  /\ MaxFeed \in Nat /\ MaxFeed > 0
  /\ MaxEdits \in Nat /\ MaxFaults \in Nat
BY BoundsAssumption

\* Emit keeps the types of the two variables it writes.
LEMMA EmitType ==
  ASSUME NEW r \in Records, TypeOK, Emit(r)
  PROVE  /\ log' \in Seq(Records) /\ Len(log') <= Replay
         /\ feed' \in 0..MaxFeed
BY Bounds, LoggedType DEF Emit, TypeOK

\* The replay is within its bound, and brings something where the log holds a
\* record of ours.
LEMMA Replayed ==
  ASSUME TypeOK, Connect
  PROVE  feed' \in 0..MaxFeed /\ (Holds(log, "ours") => feed' > 0)
<1> DEFINE ours == {i \in 1..Len(log) : log[i] = "ours"}
<1>1. Len(log) \in Nat
  BY DEF TypeOK
<1>2. IsFiniteSet(ours)
  <2>1. IsFiniteSet(1..Len(log)) /\ ours \in SUBSET (1..Len(log))
    BY <1>1, FS_Interval
  <2> HIDE DEF ours
  <2>2. QED
    BY <2>1, FS_Subset
<1>3. Cardinality(ours) \in Nat
  BY <1>2, FS_CardinalityType
<1>4. Holds(log, "ours") => Cardinality(ours) # 0
  BY <1>2, FS_EmptySet DEF Holds
<1>5. feed' = IF Cardinality(ours) <= MaxFeed THEN Cardinality(ours) ELSE MaxFeed
  BY DEF Connect
<1>6. QED
  BY <1>3, <1>4, <1>5, Bounds

\* dispatch sends the event where there is room, and accounts for it elsewhere.
LEMMA SentOrNot ==
  ASSUME NEW p \in Objects, Dispatch(p)
  PROVE  \/ Len(chan) < Cap /\ chan' = Append(chan, p)
         \/ UNCHANGED chan /\ (p \in drifted => p \in swallowed' \cup missed')
BY DEF Dispatch

\* TypeOK is inductive.
LEMMA TypeStep == TypeOK /\ [Next]_vars => TypeOK'
<1> SUFFICES ASSUME TypeOK, [Next]_vars PROVE TypeOK'
  OBVIOUS
<1> USE Bounds, ObjectsAssumption
<1>1. CASE Connect
  BY <1>1, Replayed DEF TypeOK, Connect, worker, budgets
<1>2. CASE Receive
  BY <1>2 DEF TypeOK, Receive, Fault, worker
<1>3. CASE Dispatched
  BY <1>3 DEF TypeOK, Dispatched, api, worker, budgets
<1>4. ASSUME NEW o \in Objects, Dispatch(o) PROVE TypeOK'
  <2>1. chan' \in Seq(Objects) /\ Len(chan') <= Cap
    <3>1. chan \in Seq(Objects) /\ Len(chan) <= Cap
      BY DEF TypeOK
    <3>2. UNCHANGED chan \/ (Len(chan) < Cap /\ chan' = Append(chan, o))
      BY <1>4, SentOrNot
    <3>3. CASE UNCHANGED chan
      BY <3>1, <3>3
    <3>4. CASE Len(chan) < Cap /\ chan' = Append(chan, o)
      BY <3>1, <3>4
    <3> QED
      BY <3>2, <3>3, <3>4
  <2>2. QED
    BY <1>4, <2>1 DEF TypeOK, Dispatch, worker, budgets
<1>5. CASE Deliver
  <2>1. /\ chan' \in Seq(Objects) /\ Len(chan') <= Cap
        /\ Head(chan) \in Objects
    BY <1>5 DEF TypeOK, Deliver
  <2>2. QED
    BY <1>5, <2>1 DEF TypeOK, Deliver, api, budgets
<1>6. CASE Fetch
  BY <1>6 DEF TypeOK, Fetch, reader, budgets
<1>7. CASE Patch
  <2>1. Emit("ours")
    BY <1>7 DEF Patch
  <2>2. log' \in Seq(Records) /\ Len(log') <= Replay /\ feed' \in 0..MaxFeed
    BY <2>1, EmitType DEF Records
  <2>3. QED
    BY <1>7, <2>2 DEF TypeOK, Patch, reader, budgets
<1>8. CASE WriteStatus
  BY <1>8 DEF TypeOK, WriteStatus, api, reader, budgets
<1>9. CASE SecondEnds
  BY <1>9 DEF TypeOK, SecondEnds, api, reader, budgets
<1>10. ASSUME NEW o \in Objects, WindowEnds(o) PROVE TypeOK'
  BY <1>10 DEF TypeOK, WindowEnds, api, worker, budgets
<1>11. ASSUME NEW o \in Objects, Poll(o) PROVE TypeOK'
  BY <1>11 DEF TypeOK, Poll, api, reader, budgets
<1>12. ASSUME NEW o \in Objects, OutsideEdit(o) PROVE TypeOK'
  <2>1. Emit("ours")
    BY <1>12 DEF OutsideEdit
  <2>2. log' \in Seq(Records) /\ Len(log') <= Replay /\ feed' \in 0..MaxFeed
    BY <2>1, EmitType DEF Records
  <2>3. QED
    BY <1>12, <2>2 DEF TypeOK, OutsideEdit, reader, worker
<1>13. ASSUME NEW o \in Objects, Take(o) PROVE TypeOK'
  BY <1>13 DEF TypeOK, Take, api, reader, budgets
<1>14. CASE Noise
  <2>1. Emit("other")
    BY <1>14 DEF Noise
  <2>2. log' \in Seq(Records) /\ Len(log') <= Replay /\ feed' \in 0..MaxFeed
    BY <2>1, EmitType DEF Records
  <2>3. missed' \subseteq drifted
    BY <1>14 DEF TypeOK, Noise, Forgotten
  <2>4. QED
    BY <1>14, <2>2, <2>3 DEF TypeOK, Noise, Fault, reader, worker
<1>15. CASE Drop
  <2>1. missed' \subseteq drifted
    BY <1>15 DEF TypeOK, Drop, Forgotten
  <2>2. QED
    BY <1>15, <2>1 DEF TypeOK, Drop, Fault, worker
<1>16. CASE FailPass
  BY <1>16 DEF TypeOK, FailPass, Fault, api, reader
<1>17. CASE UNCHANGED vars
  BY <1>17 DEF TypeOK, vars, api, reader, worker, budgets
<1>18. QED
  BY <1>1, <1>2, <1>3, <1>4, <1>5, <1>6, <1>7, <1>8, <1>9, <1>10, <1>11, <1>12,
     <1>13, <1>14, <1>15, <1>16, <1>17
     DEF Next, Reader, Worker, Clock, AnyPoll

\* TypeOK holds at the start.
LEMMA TypeInit == Init => TypeOK
BY Bounds, ObjectsAssumption DEF Init, TypeOK

\* Every variable keeps its type, and the channel its capacity: dispatch never
\* blocks the read loop, it drops the event.
THEOREM TypeCorrect == Spec => []TypeOK
BY TypeInit, TypeStep, PTL DEF Spec

-----------------------------------------------------------------------------
(* A change is on its way or its loss is recorded *)

\* The property for one object.
Kept(o) == Heard(o) \/ o \in swallowed \cup missed

\* A record of ours keeps every change heard that was heard on the stream.
LEMMA EmitOurs ==
  ASSUME TypeOK, Emit("ours"), UNCHANGED link
  PROVE  IF link' = "down" THEN Holds(log', "ours") ELSE feed' > 0
BY OursLogged DEF TypeOK, Emit

\* NothingLost is kept by every step from a state of its type.
LEMMA LossStep == TypeOK /\ NothingLost /\ [Next]_vars => NothingLost'
<1> SUFFICES ASSUME TypeOK, NothingLost, [Next]_vars, NEW o \in drifted'
             PROVE  Kept(o)'
  BY DEF NothingLost, Kept
<1>0. o \in drifted => Kept(o)
  BY DEF NothingLost, Kept
<1>1. CASE Connect
  BY <1>0, <1>1, Replayed DEF Connect, Kept, Heard, worker
<1>2. CASE Receive
  <2>1. o \in Objects
    BY <1>2 DEF Receive, TypeOK
  <2>2. QED
    BY <1>0, <1>2, <2>1 DEF Receive, Kept, Heard, worker
<1>3. CASE Dispatched
  BY <1>0, <1>3 DEF Dispatched, Kept, Heard, api, worker
<1>4. ASSUME NEW p \in Objects, Dispatch(p) PROVE Kept(o)'
  <2>1. o \in drifted /\ Kept(o)
    BY <1>0, <1>4 DEF Dispatch
  <2>2. chan \in Seq(Objects) /\ o \in Objects
    BY <2>1 DEF TypeOK
  <2>3. Holds(chan, o) => Holds(chan', o)
    BY <1>4, <2>2, SentOrNot, AppendKeeps
  <2>4. o = p => Holds(chan', o) \/ o \in swallowed' \cup missed'
    BY <1>4, <2>1, <2>2, SentOrNot, AppendHolds
  <2>5. QED
    BY <1>4, <2>1, <2>3, <2>4 DEF Dispatch, Kept, Heard, worker
<1>5. CASE Deliver
  <2>1. Holds(chan, o) => o \in queue' \/ Holds(chan', o)
    BY <1>5, HeadOrTail DEF Deliver, TypeOK
  <2>2. QED
    BY <1>0, <1>5, <2>1 DEF Deliver, Kept, Heard, api
<1>6. CASE Fetch
  BY <1>0, <1>6 DEF Fetch, Kept, Heard, reader, TypeOK
<1>7. CASE Patch
  <2>1. o # busy /\ Emit("ours") /\ UNCHANGED link
    BY <1>7 DEF Patch, reader
  <2>2. QED
    BY <2>1, EmitOurs DEF Kept, Heard
<1>8. CASE WriteStatus
  BY <1>0, <1>8 DEF WriteStatus, Kept, Heard, api, reader
<1>9. CASE SecondEnds
  BY <1>0, <1>9 DEF SecondEnds, Kept, Heard, api, reader
<1>10. ASSUME NEW p \in Objects, WindowEnds(p) PROVE Kept(o)'
  BY <1>0, <1>10 DEF WindowEnds, Kept, Heard, api, worker
<1>11. ASSUME NEW p \in Objects, Poll(p) PROVE Kept(o)'
  BY <1>0, <1>11 DEF Poll, Kept, Heard, api, reader
<1>12. ASSUME NEW p \in Objects, OutsideEdit(p) PROVE Kept(o)'
  <2>1. Emit("ours") /\ UNCHANGED link
    BY <1>12 DEF OutsideEdit, reader
  <2>2. QED
    BY <2>1, EmitOurs DEF Kept, Heard
<1>13. ASSUME NEW p \in Objects, Take(p) PROVE Kept(o)'
  BY <1>0, <1>13 DEF Take, Kept, Heard, api, reader, TypeOK
<1>14. CASE Noise
  <2>1. o \in drifted /\ UNCHANGED <<link, todo, chan, queue, busy, pc, swallowed>>
    BY <1>14 DEF Noise, reader, worker
  <2>2. CASE link = "down"
    <3>1. o \in missed' \/ Holds(log', "ours")
      BY <1>14, <2>1, <2>2 DEF Noise, Forgotten
    <3>2. QED
      BY <2>1, <2>2, <3>1 DEF Kept, Heard
  <2>3. CASE link # "down"
    <3>1. feed' = feed /\ missed' = missed
      BY <1>14, <2>3 DEF Noise, Emit
    <3>2. QED
      BY <1>0, <2>1, <2>3, <3>1 DEF Kept, Heard
  <2>4. QED
    BY <2>2, <2>3
<1>15. CASE Drop
  <2>1. o \in missed' \/ Holds(log', "ours")
    BY <1>15 DEF Drop, Forgotten
  <2>2. QED
    BY <1>15, <2>1 DEF Drop, Kept, Heard
<1>16. CASE FailPass
  BY <1>0, <1>16 DEF FailPass, Kept, Heard, api, reader
<1>17. CASE UNCHANGED vars
  BY <1>0, <1>17 DEF Kept, Heard, Holds, vars, api, reader, worker
<1>18. QED
  BY <1>1, <1>2, <1>3, <1>4, <1>5, <1>6, <1>7, <1>8, <1>9, <1>10, <1>11, <1>12,
     <1>13, <1>14, <1>15, <1>16, <1>17
     DEF Next, Reader, Worker, Clock, AnyPoll

\* Between an outside edit and its correction the change is in the stream, the
\* replay, the channel, the work queue or the pass, unless its loss is one of
\* those the comments name or one of the debounce's.
THEOREM ChangesKept == Spec => []NothingLost
<1>1. Init => NothingLost
  BY DEF Init, NothingLost
<1>2. QED
  BY <1>1, TypeInit, TypeStep, LossStep, PTL DEF Spec
=============================================================================
