----------------------------- MODULE LockOrder -----------------------------
(***************************************************************************)
(* The locks of one charger and of what it shares with the others: the     *)
(* manager's, the charger's, writeMu, the meter's and the hub's.  A method *)
(* is the sequence of what it does to them; a goroutine is a task that     *)
(* runs methods of its own, one after the other.                           *)
(*                                                                         *)
(* The locks are Go's: a writer that waits for the readers inside keeps    *)
(* new readers out.  writeMu is a mutex, that is, a lock without readers.  *)
(***************************************************************************)
EXTENDS Naturals, Sequences

CONSTANTS
    Tasks,
    Calls,   \* the methods a task runs
    NoTask,
    Idle     \* between two methods

Locks == {"manager", "charger", "write", "meter", "hub"}
Rank == [manager |-> 1, charger |-> 2, write |-> 3, meter |-> 4, hub |-> 5]

Operations == [op : {"lock", "rlock", "unlock", "runlock", "send"}, on : Locks]

ASSUME NilAssumption == NoTask \notin Tasks

-----------------------------------------------------------------------------
(* The methods. *)

Do(op, l) == <<[op |-> op, on |-> l]>>
Locked(l, body) == Do("lock", l) \o body \o Do("unlock", l)
RLocked(l, body) == Do("rlock", l) \o body \o Do("runlock", l)

\* emitEvent, emitStateChange and emitTelemetry call the hub, once or in a row.
Emit == Locked("hub", <<>>)
SetMeter == Locked("meter", <<>>)
ReadMeter == RLocked("meter", <<>>)

\* conn is closed under writeMu.
CloseConn == Locked("write", <<>>)

\* A change of the charger that is reported: Connect, Start, SetFault,
\* ClearFault, SetProfile, the results of a dial and of a request.
Change == Locked("charger", Emit)
Disconnect == Locked("charger", CloseConn \o Emit)
ReadError == Locked("charger", Emit \o CloseConn)
Stop == Locked("charger", ReadMeter \o Emit \o SetMeter \o Emit)
SetTargetCurrent == Locked("charger", SetMeter \o Emit \o SetMeter \o Emit)
SetSOC == Locked("charger", ReadMeter \o Emit)
sendStartTransaction == Locked("charger", SetMeter \o ReadMeter \o Emit)
Snapshot == RLocked("charger", ReadMeter)

\* Seeded fault: the tick calls Snapshot with the lock held.
TickSnapshots == Locked("charger", SetMeter \o ReadMeter \o SetMeter \o Snapshot) \o Emit

\* The update tick; its telemetry is handed over after the unlock.
Tick == Locked("charger", SetMeter \o ReadMeter \o SetMeter) \o Emit

Receive == RLocked("charger", <<>>) \o Emit
GetCharger == RLocked("manager", <<>>)
AllChargers == RLocked("manager", <<>>)

\* Web handlers look a charger up, let go of the manager's lock, and call it;
\* so do the manager's loops.
handleStart == GetCharger \o Change
handleDisconnect == GetCharger \o Disconnect
handleStop == GetCharger \o Stop
handleTargetCurrent == GetCharger \o SetTargetCurrent
handleFault == GetCharger \o Change
handleSetSOC == GetCharger \o SetSOC
StopAll == AllChargers \o Disconnect
handleState == GetCharger \o RLocked("charger", <<>>) \o RLocked("hub", <<>>) \o Snapshot

\* Seeded fault: the hub looks the charger up with its lock held.
SubscribeLooksUp == Locked("hub", GetCharger)

Subscribe == Locked("hub", <<>>)

\* Seeded fault: the write returns on an error without the unlock.
WriteFrameKeepsLock == Do("lock", "write") \o Do("send", "write")

WriteFrame == Locked("write", Do("send", "write"))

\* The manager's lock is held while every charger is told.
SetEndpoint == Locked("manager", Change)

Methods == [
    Change |-> Change, Disconnect |-> Disconnect, ReadError |-> ReadError,
    Stop |-> Stop, SetTargetCurrent |-> SetTargetCurrent, SetSOC |-> SetSOC,
    sendStartTransaction |-> sendStartTransaction, Tick |-> Tick,
    Receive |-> Receive, WriteFrame |-> WriteFrame, Subscribe |-> Subscribe,
    handleStart |-> handleStart, handleDisconnect |-> handleDisconnect,
    handleStop |-> handleStop, handleTargetCurrent |-> handleTargetCurrent,
    handleFault |-> handleFault, handleSetSOC |-> handleSetSOC, StopAll |-> StopAll,
    handleState |-> handleState, SetEndpoint |-> SetEndpoint]

Names == DOMAIN Methods

ASSUME CallAssumption == Idle \notin Names /\ Calls \in [Tasks -> SUBSET Names]

-----------------------------------------------------------------------------

VARIABLES
    method,    \* the method a task runs
    next,      \* its next operation
    announced, \* the writer that waits for the readers of a lock to leave
    owner,     \* the writer inside
    readers    \* the readers inside

lockVars == <<announced, owner, readers>>
taskVars == <<method, next>>
orderVars == <<taskVars, lockVars>>

\* The types, which the proofs use.
TypeOK ==
    /\ method \in [Tasks -> Names \union {Idle}]
    /\ next \in [Tasks -> Nat \ {0}]
    /\ announced \in [Locks -> Tasks \union {NoTask}]
    /\ owner \in [Locks -> Tasks \union {NoTask}]
    /\ readers \in [Locks -> SUBSET Tasks]

Init ==
    /\ method = [t \in Tasks |-> Idle]
    /\ next = [t \in Tasks |-> 1]
    /\ announced = [l \in Locks |-> NoTask]
    /\ owner = [l \in Locks |-> NoTask]
    /\ readers = [l \in Locks |-> {}]

AtOp(t, op, l) ==
    /\ method[t] # Idle
    /\ next[t] <= Len(Methods[method[t]])
    /\ Methods[method[t]][next[t]] = [op |-> op, on |-> l]

Advance(t) ==
    /\ next' = [next EXCEPT ![t] = next[t] + 1]
    /\ UNCHANGED method

Call(t) ==
    /\ method[t] = Idle
    /\ \E m \in Calls[t] : method' = [method EXCEPT ![t] = m]
    /\ next' = [next EXCEPT ![t] = 1]
    /\ UNCHANGED lockVars

Return(t) ==
    /\ method[t] # Idle
    /\ next[t] > Len(Methods[method[t]])
    /\ method' = [method EXCEPT ![t] = Idle]
    /\ next' = [next EXCEPT ![t] = 1]
    /\ UNCHANGED lockVars

\* A writer that finds readers inside keeps others out while it waits.
Announce(t, l) ==
    /\ AtOp(t, "lock", l)
    /\ announced[l] = NoTask /\ readers[l] # {}
    /\ announced' = [announced EXCEPT ![l] = t]
    /\ UNCHANGED <<taskVars, owner, readers>>

Lock(t, l) ==
    /\ AtOp(t, "lock", l)
    /\ owner[l] = NoTask /\ readers[l] = {}
    /\ announced[l] \in {t, NoTask}
    /\ owner' = [owner EXCEPT ![l] = t]
    /\ announced' = [announced EXCEPT ![l] = NoTask]
    /\ Advance(t)
    /\ UNCHANGED readers

Unlock(t, l) ==
    /\ AtOp(t, "unlock", l)
    /\ owner' = [owner EXCEPT ![l] = NoTask]
    /\ Advance(t)
    /\ UNCHANGED <<announced, readers>>

RLock(t, l) ==
    /\ AtOp(t, "rlock", l)
    /\ owner[l] = NoTask /\ announced[l] = NoTask
    /\ readers' = [readers EXCEPT ![l] = @ \union {t}]
    /\ Advance(t)
    /\ UNCHANGED <<announced, owner>>

RUnlock(t, l) ==
    /\ AtOp(t, "runlock", l)
    /\ readers' = [readers EXCEPT ![l] = @ \ {t}]
    /\ Advance(t)
    /\ UNCHANGED <<announced, owner>>

\* WriteMessage returns: the peer reads, or TCP gives it up.
Send(t, l) ==
    /\ AtOp(t, "send", l)
    /\ Advance(t)
    /\ UNCHANGED lockVars

Step(t) ==
    \/ Return(t)
    \/ \E l \in Locks :
          \/ Announce(t, l) \/ Lock(t, l) \/ Unlock(t, l)
          \/ RLock(t, l) \/ RUnlock(t, l) \/ Send(t, l)

Next == \E t \in Tasks : Call(t) \/ Step(t)

Spec == Init /\ [][Next]_orderVars

\* A goroutine goes on, and no other overtakes it at a lock for ever: a Go
\* mutex is handed to a goroutine that has waited for a millisecond, and the
\* readers that wait for a writer enter when it leaves.
FairSpec == Spec /\ \A t \in Tasks : SF_orderVars(Step(t))

-----------------------------------------------------------------------------

Wants(t, l) == AtOp(t, "lock", l) \/ AtOp(t, "rlock", l)
Holds(t, l) == owner[l] = t \/ t \in readers[l]

\* t cannot have the lock before u lets go of it.
WaitsFor(t, u) ==
    \E l \in Locks :
        /\ Wants(t, l)
        /\ Holds(u, l) \/ (announced[l] = u /\ u # t)

\* Whoever asks for a lock holds none that comes after it, nor the lock itself
\* (the comments at lines 574 and 596 of charger.go tell of two methods that
\* did), and holds none at all when its method is over.
LocksAscend ==
    \A t \in Tasks, h \in Locks : Holds(t, h) =>
        /\ method[t] # Idle
        /\ \A l \in Locks : Wants(t, l) => Rank[h] < Rank[l]

\* No tasks wait for each other in a circle, a task for itself included.
NoCircularWait ==
    \A S \in SUBSET Tasks : S # {} => \E t \in S : \A u \in S : ~WaitsFor(t, u)

\* Every call returns, if every frame that is being written is taken or given
\* up at last: nobody is kept waiting for ever.
EveryCallReturns == \A t \in Tasks : method[t] # Idle ~> method[t] = Idle
=============================================================================
