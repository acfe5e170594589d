---------------------------- MODULE ClusterMutex ----------------------------
(***************************************************************************)
(* The cluster mutex of server/cluster/mutex.go, as lockCall and           *)
(* unlockCall of server/sync.go use it: one key of the KV store, one Mutex *)
(* object per node, the goroutines of that node that lock it.              *)
(*                                                                         *)
(* A goroutine first takes the node's sync.Mutex, then polls the KV store  *)
(* until its atomic "set if absent, expire after TTL" succeeds or its      *)
(* context ends. A refresher goroutine rewrites the key at every           *)
(* RefreshInterval while the lock is held. Time is counted in seconds.     *)
(***************************************************************************)
EXTENDS Integers, FiniteSets

CONSTANTS
    Node,               \* the plugin instances of the cluster
    Proc,               \* the goroutines that lock the channel
    NodeOf,             \* the node each goroutine runs on
    Relockers,          \* goroutines in startRecordingJob: unlock, call out, lock again
    TTL,                \* expiry of the key
    RefreshInterval,    \* period of the refresher
    MaxDelay,           \* how late a refresh or a delete may reach the store
    MaxFaults,          \* bound: errors from the store
    MaxCrashes          \* bound: node crashes

ASSUME MutexAssumption ==
    /\ NodeOf \in [Proc -> Node]
    /\ Relockers \subseteq Proc
    /\ TTL \in Nat \ {0}
    /\ RefreshInterval \in Nat \ {0}
    /\ MaxDelay \in Nat
    /\ RefreshInterval + MaxDelay < TTL
    /\ MaxFaults \in Nat /\ MaxCrashes \in Nat

VARIABLES
    kv,         \* seconds until the key expires, 0 when it is absent
    mut,        \* node -> its sync.Mutex is locked
    stopCh,     \* node -> the stop channel of the current lock: nil, open, closed
    refreshing, \* node -> the refresher goroutine runs (doneCh not closed)
    age,        \* node -> seconds since it last wrote the key
    pc,         \* goroutine -> where it is in Lock or Unlock
    again,      \* goroutine -> it is in its second Lock (relockers)
    faults, crashes,
    void        \* history: a refresher gave up at an error, or a goroutine goes on
                \* to unlock what its second Lock did not get

vars == <<kv, mut, stopCh, refreshing, age, pc, again, faults, crashes, void>>

PC == {"idle", "locking", "polling", "held", "closing", "deleted", "calling", "extra"}

TypeOK ==
    /\ kv \in 0..TTL
    /\ mut \in [Node -> BOOLEAN]
    /\ stopCh \in [Node -> {"nil", "open", "closed"}]
    /\ refreshing \in [Node -> BOOLEAN]
    /\ age \in [Node -> Nat]
    /\ pc \in [Proc -> PC]
    /\ again \in [Proc -> BOOLEAN]
    /\ faults \in 0..MaxFaults
    /\ crashes \in 0..MaxCrashes
    /\ void \in BOOLEAN

Init ==
    /\ kv = 0
    /\ mut = [n \in Node |-> FALSE]
    /\ stopCh = [n \in Node |-> "nil"]
    /\ refreshing = [n \in Node |-> FALSE]
    /\ age = [n \in Node |-> 0]
    /\ pc = [p \in Proc |-> "idle"]
    /\ again = [p \in Proc |-> FALSE]
    /\ faults = 0
    /\ crashes = 0
    /\ void = FALSE

Goto(p, l) == pc' = [pc EXCEPT ![p] = l]

---------------------------------------------------------------------------
(* Lock *)

Request(p) ==
    /\ pc[p] \in {"idle", "calling"}
    /\ Goto(p, "locking")
    /\ UNCHANGED <<kv, mut, stopCh, refreshing, age, again, faults, crashes, void>>

\* m.mut.Lock(): the context is not looked at while waiting here.
LocalLock(p) ==
    /\ pc[p] = "locking"
    /\ ~mut[NodeOf[p]]
    /\ mut' = [mut EXCEPT ![NodeOf[p]] = TRUE]
    /\ Goto(p, "polling")
    /\ UNCHANGED <<kv, stopCh, refreshing, age, again, faults, crashes, void>>

\* Mutant of TryLock: a set that is not conditional on the key's absence.
TryLockBlind(p) ==
    /\ pc[p] = "polling"
    /\ kv' = TTL
    /\ LET n == NodeOf[p] IN
       /\ stopCh' = [stopCh EXCEPT ![n] = "open"]
       /\ refreshing' = [refreshing EXCEPT ![n] = TRUE]
       /\ age' = [age EXCEPT ![n] = 0]
    /\ Goto(p, "held")
    /\ UNCHANGED <<mut, again, faults, crashes, void>>

\* tryLock sets the absent key and the refresher starts.
TryLock(p) ==
    /\ pc[p] = "polling"
    /\ kv = 0
    /\ kv' = TTL
    /\ LET n == NodeOf[p] IN
       /\ stopCh' = [stopCh EXCEPT ![n] = "open"]
       /\ refreshing' = [refreshing EXCEPT ![n] = TRUE]
       /\ age' = [age EXCEPT ![n] = 0]
    /\ Goto(p, "held")
    /\ UNCHANGED <<mut, again, faults, crashes, void>>

\* The store answers tryLock with an error, after or before setting the key:
\* the goroutine keeps polling.
TryLockFault(p) ==
    /\ pc[p] = "polling"
    /\ faults < MaxFaults
    /\ faults' = faults + 1
    /\ kv' \in IF kv = 0 THEN {0, TTL} ELSE {kv}
    /\ UNCHANGED <<mut, stopCh, refreshing, age, pc, again, crashes, void>>

\* Mutants of LockTimeout: it deletes the key on the way out; it forgets
\* m.mut.Unlock().
LockTimeoutDeletes(p) ==
    /\ pc[p] = "polling"
    /\ kv > 0
    /\ kv' = 0
    /\ mut' = [mut EXCEPT ![NodeOf[p]] = FALSE]
    /\ Goto(p, IF again[p] THEN "extra" ELSE "idle")
    /\ UNCHANGED <<stopCh, refreshing, age, again, faults, crashes>>
    /\ void' = (void \/ again[p])

LockTimeoutKeepsMut(p) ==
    /\ pc[p] = "polling"
    /\ kv > 0
    /\ Goto(p, IF again[p] THEN "extra" ELSE "idle")
    /\ UNCHANGED <<kv, mut, stopCh, refreshing, age, again, faults, crashes>>
    /\ void' = (void \/ again[p])

\* ctx.Done() after a failed attempt. In startRecordingJob the second Lock is
\* followed by the handler's deferred unlockCall even when it fails.
LockTimeout(p) ==
    /\ pc[p] = "polling"
    /\ kv > 0
    /\ mut' = [mut EXCEPT ![NodeOf[p]] = FALSE]
    /\ Goto(p, IF again[p] THEN "extra" ELSE "idle")
    /\ UNCHANGED <<kv, stopCh, refreshing, age, again, faults, crashes>>
    /\ void' = (void \/ again[p])

---------------------------------------------------------------------------
(* The refresher goroutine *)

\* Mutant of Refresh: the write does not carry a new expiry.
RefreshKeepsExpiry(n) ==
    /\ refreshing[n]
    /\ age[n] >= RefreshInterval
    /\ kv > 0
    /\ age' = [age EXCEPT ![n] = 0]
    /\ UNCHANGED <<kv, mut, stopCh, refreshing, pc, again, faults, crashes, void>>

Refresh(n) ==
    /\ refreshing[n]
    /\ age[n] >= RefreshInterval
    /\ kv > 0
    /\ kv' = TTL
    /\ age' = [age EXCEPT ![n] = 0]
    /\ UNCHANGED <<mut, stopCh, refreshing, pc, again, faults, crashes, void>>

\* The compare-and-set finds no key: the refresher gives up.
RefreshLost(n) ==
    /\ refreshing[n]
    /\ age[n] >= RefreshInterval
    /\ kv = 0
    /\ refreshing' = [refreshing EXCEPT ![n] = FALSE]
    /\ UNCHANGED <<kv, mut, stopCh, age, pc, again, faults, crashes, void>>

\* The store answers with an error: the refresher gives up at the first one.
RefreshFault(n) ==
    /\ refreshing[n]
    /\ age[n] >= RefreshInterval
    /\ faults < MaxFaults
    /\ faults' = faults + 1
    /\ void' = TRUE
    /\ refreshing' = [refreshing EXCEPT ![n] = FALSE]
    /\ UNCHANGED <<kv, mut, stopCh, age, pc, again, crashes>>

RefresherStop(n) ==
    /\ refreshing[n]
    /\ stopCh[n] = "closed"
    /\ refreshing' = [refreshing EXCEPT ![n] = FALSE]
    /\ UNCHANGED <<kv, mut, stopCh, age, pc, again, faults, crashes, void>>

---------------------------------------------------------------------------
(* Unlock *)

\* mut.TryLock() fails since the lock is held: close(m.stopCh).
CloseStop(p) ==
    /\ pc[p] \in {"held", "extra"}
    /\ mut[NodeOf[p]]
    /\ stopCh[NodeOf[p]] = "open"
    /\ stopCh' = [stopCh EXCEPT ![NodeOf[p]] = "closed"]
    /\ Goto(p, "closing")
    /\ UNCHANGED <<kv, mut, refreshing, age, again, faults, crashes, void>>

\* mut.TryLock() succeeds: the mutex is not locked, a warning is logged.
UnlockOfUnlocked(p) ==
    /\ pc[p] \in {"held", "extra"}
    /\ ~mut[NodeOf[p]]
    /\ Goto(p, "idle")
    /\ again' = [again EXCEPT ![p] = FALSE]
    /\ UNCHANGED <<kv, mut, stopCh, refreshing, age, faults, crashes, void>>

\* <-m.doneCh, then KVDelete, which does not look at who set the key.
DeleteKey(p) ==
    /\ pc[p] = "closing"
    /\ ~refreshing[NodeOf[p]]
    /\ kv' = 0
    /\ stopCh' = [stopCh EXCEPT ![NodeOf[p]] = "nil"]
    /\ Goto(p, "deleted")
    /\ UNCHANGED <<mut, refreshing, age, again, faults, crashes, void>>

\* KVDelete fails: "the mutex kv will still expire".
DeleteKeyFault(p) ==
    /\ pc[p] = "closing"
    /\ ~refreshing[NodeOf[p]]
    /\ faults < MaxFaults
    /\ faults' = faults + 1
    /\ stopCh' = [stopCh EXCEPT ![NodeOf[p]] = "nil"]
    /\ Goto(p, "deleted")
    /\ UNCHANGED <<kv, mut, refreshing, age, again, crashes, void>>

\* The deferred m.mut.Unlock(). A relocker then makes its call without the
\* lock, and comes back for it.
LocalUnlock(p) ==
    LET relock == p \in Relockers /\ ~again[p] IN
    /\ pc[p] = "deleted"
    /\ mut' = [mut EXCEPT ![NodeOf[p]] = FALSE]
    /\ Goto(p, IF relock THEN "calling" ELSE "idle")
    /\ again' = [again EXCEPT ![p] = relock]
    /\ UNCHANGED <<kv, stopCh, refreshing, age, faults, crashes, void>>

---------------------------------------------------------------------------
(* The process of a node dies: nothing of its memory is left. *)

Lost(n) ==
    /\ mut' = [mut EXCEPT ![n] = FALSE]
    /\ stopCh' = [stopCh EXCEPT ![n] = "nil"]
    /\ refreshing' = [refreshing EXCEPT ![n] = FALSE]
    /\ age' = [age EXCEPT ![n] = 0]
    /\ pc' = [p \in Proc |-> IF NodeOf[p] = n THEN "idle" ELSE pc[p]]
    /\ again' = [p \in Proc |-> IF NodeOf[p] = n THEN FALSE ELSE again[p]]
    /\ UNCHANGED <<kv, faults, void>>

Crash(n) ==
    /\ crashes < MaxCrashes
    /\ crashes' = crashes + 1
    /\ Lost(n)

\* close() of a nil or already closed channel: the plugin process panics.
PanicOnClose(p) ==
    /\ pc[p] \in {"held", "extra"}
    /\ mut[NodeOf[p]]
    /\ stopCh[NodeOf[p]] # "open"
    /\ crashes' = crashes
    /\ Lost(NodeOf[p])

---------------------------------------------------------------------------
(* A second passes. The refresher and an Unlock in progress are late by     *)
(* MaxDelay at most; a holder whose refresher gave up has no deadline.      *)

OnTime(n) ==
    refreshing[n] \/ stopCh[n] = "closed" => age[n] < RefreshInterval + MaxDelay

\* Mutant of Tick: the key is set without an expiry.
TickNoExpiry ==
    /\ \A n \in Node : OnTime(n)
    /\ kv > 0 \/ \E n \in Node : refreshing[n]
    /\ age' = [n \in Node |-> IF refreshing[n] \/ stopCh[n] = "closed"
                              THEN age[n] + 1 ELSE age[n]]
    /\ UNCHANGED <<kv, mut, stopCh, refreshing, pc, again, faults, crashes, void>>

Tick ==
    /\ \A n \in Node : OnTime(n)
    /\ kv > 0 \/ \E n \in Node : refreshing[n]
    /\ kv' = IF kv > 0 THEN kv - 1 ELSE 0
    /\ age' = [n \in Node |-> IF refreshing[n] \/ stopCh[n] = "closed"
                              THEN age[n] + 1 ELSE age[n]]
    /\ UNCHANGED <<mut, stopCh, refreshing, pc, again, faults, crashes, void>>

LockStep(p) ==
    \/ Request(p) \/ LocalLock(p) \/ TryLock(p) \/ TryLockFault(p) \/ LockTimeout(p)

UnlockStep(p) ==
    \/ CloseStop(p) \/ UnlockOfUnlocked(p) \/ DeleteKey(p) \/ DeleteKeyFault(p)
    \/ LocalUnlock(p) \/ PanicOnClose(p)

NodeStep(n) ==
    \/ Refresh(n) \/ RefreshLost(n) \/ RefreshFault(n) \/ RefresherStop(n) \/ Crash(n)

Next ==
    \/ \E p \in Proc : LockStep(p) \/ UnlockStep(p)
    \/ \E n \in Node : NodeStep(n)
    \/ Tick

Spec == Init /\ [][Next]_vars

\* A context has a deadline (lockTimeout), so an attempt ends one way or the
\* other; critical sections and refreshers are scheduled; a goroutine is not
\* starved on the local sync.Mutex (Go serves starving waiters first).
Fairness ==
    /\ WF_vars(Tick)
    /\ \A p \in Proc :
        /\ SF_vars(LocalLock(p))
        /\ WF_vars(TryLock(p) \/ LockTimeout(p))
        /\ WF_vars(CloseStop(p) \/ UnlockOfUnlocked(p) \/ PanicOnClose(p))
        /\ WF_vars(DeleteKey(p))
        /\ WF_vars(LocalUnlock(p))
    /\ \A n \in Node :
        WF_vars(Refresh(n) \/ RefreshLost(n)) /\ WF_vars(RefresherStop(n))

FairSpec == Spec /\ Fairness

---------------------------------------------------------------------------
(* Properties *)

\* "If the mutex is already locked by any plugin instance, including the
\* current one, the calling goroutine blocks": no two goroutines of the
\* cluster are in the critical section of the same channel, until a refresh
\* meets an error or a goroutine unlocks what it does not hold.
MutualExclusion ==
    ~void => \A p, q \in Proc : pc[p] = "held" /\ pc[q] = "held" => p = q

\* The key of a goroutine that holds the lock is in the store: neither the
\* expiry nor the delete of another goroutine's Unlock takes it away.
HolderHasKey == ~void => \A p \in Proc : pc[p] = "held" => kv > 0

\* The mutex implements the lock the call handlers are written for.
Abstract == INSTANCE ChannelLock WITH holders <- {p \in Proc : pc[p] = "held"}
AbstractSpec == Abstract!LockSpec

\* A key nobody refreshes (its holder crashed, its delete failed, the answer
\* to the set was lost) is not in the way for ever.
Orphaned == kv > 0 /\ \A n \in Node : ~refreshing[n]
OrphanExpires == Orphaned ~> ~Orphaned

\* A goroutine waiting on the node's sync.Mutex does not wait for ever,
\* whatever the goroutines in front of it meet: a timeout, a crash, an error.
WaiterLeaves == \A p \in Proc : pc[p] = "locking" ~> pc[p] # "locking"

\* What makes mutual exclusion inductive: the key of a lock that is not yet
\* released has exactly the lifetime its last write left it, writes are not
\* later than MaxDelay, and only one node at a time has such a lock.
OwnerKey ==
    \A n \in Node : stopCh[n] # "nil" =>
        kv = TTL - age[n] /\ age[n] <= RefreshInterval + MaxDelay

OneOwner == \A n, m \in Node : stopCh[n] # "nil" /\ stopCh[m] # "nil" => n = m

InMut(p) == pc[p] \in {"polling", "held", "closing", "deleted"}

LocalExclusion ==
    /\ \A p \in Proc : InMut(p) => mut[NodeOf[p]]
    /\ \A p, q \in Proc : InMut(p) /\ InMut(q) /\ NodeOf[p] = NodeOf[q] => p = q

StopChOfPc ==
    /\ \A p \in Proc :
        /\ pc[p] = "held" => stopCh[NodeOf[p]] = "open" /\ refreshing[NodeOf[p]]
        /\ pc[p] = "closing" => stopCh[NodeOf[p]] = "closed"
        /\ pc[p] \in {"polling", "deleted"} => stopCh[NodeOf[p]] = "nil"
        /\ pc[p] # "extra"
    /\ \A n \in Node : refreshing[n] => stopCh[n] # "nil"
    /\ \A n \in Node : stopCh[n] = "open" => refreshing[n]
    /\ \A n \in Node : ~mut[n] => stopCh[n] = "nil"

Sound == OwnerKey /\ OneOwner /\ LocalExclusion /\ StopChOfPc

IInv == TypeOK /\ (~void => Sound)
=============================================================================
