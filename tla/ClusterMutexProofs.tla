------------------------- MODULE ClusterMutexProofs -------------------------
(***************************************************************************)
(* Proofs about ClusterMutex, for every cluster, expiry, refresh period    *)
(* and number of crashes and store errors.                                 *)
(***************************************************************************)
EXTENDS ClusterMutex, TLAPS

\* No key is set and nobody is in Lock or Unlock in the beginning.
LEMMA InitIInv == Init => IInv
<1> SUFFICES ASSUME Init PROVE IInv
  OBVIOUS
<1>1. TypeOK
  <2>1. void \in BOOLEAN /\ again \in [Proc -> BOOLEAN] /\ pc \in [Proc -> PC]
    BY DEF Init, PC
  <2>2. /\ mut \in [Node -> BOOLEAN] /\ stopCh \in [Node -> {"nil", "open", "closed"}]
        /\ refreshing \in [Node -> BOOLEAN] /\ age \in [Node -> Nat]
    BY DEF Init
  <2>3. kv \in 0..TTL /\ faults \in 0..MaxFaults /\ crashes \in 0..MaxCrashes
    BY MutexAssumption DEF MutexAssumption, Init
  <2> QED
    BY <2>1, <2>2, <2>3 DEF TypeOK
<1>2. Sound
  BY DEF Init, Sound, OwnerKey, OneOwner, LocalExclusion, StopChOfPc, InMut
<1> QED
  BY <1>1, <1>2 DEF IInv

\* A step of Lock preserves the inductive invariant: a key is only set when
\* there is none, hence (OwnerKey) when no lock of any node is unreleased.
LEMMA LockStepIInv ==
  ASSUME IInv, NEW p \in Proc, LockStep(p)
  PROVE  IInv'
<1> USE MutexAssumption DEF IInv, Sound, TypeOK, OwnerKey, OneOwner, LocalExclusion,
        StopChOfPc, InMut, PC, Goto
<1>1. CASE Request(p)
  BY <1>1 DEF Request
<1>2. CASE LocalLock(p)
  BY <1>2 DEF LocalLock
<1>3. CASE TryLock(p)
  BY <1>3 DEF TryLock
<1>4. CASE TryLockFault(p)
  BY <1>4 DEF TryLockFault
<1>5. CASE LockTimeout(p)
  BY <1>5 DEF LockTimeout
<1> QED
  BY <1>1, <1>2, <1>3, <1>4, <1>5 DEF LockStep

\* A step of Unlock preserves it as long as no goroutine unlocks what it does
\* not hold: the key deleted is the one the goroutine's own Lock has set, and no
\* channel is closed twice.
LEMMA UnlockStepIInv ==
  ASSUME IInv, NEW p \in Proc, UnlockStep(p)
  PROVE  IInv'
<1> USE MutexAssumption DEF IInv, Sound, TypeOK, OwnerKey, OneOwner, LocalExclusion,
        StopChOfPc, InMut, PC, Goto
<1>1. CASE CloseStop(p)
  BY <1>1 DEF CloseStop
<1>2. CASE UnlockOfUnlocked(p)
  BY <1>2 DEF UnlockOfUnlocked
<1>3. CASE DeleteKey(p)
  BY <1>3 DEF DeleteKey
<1>4. CASE DeleteKeyFault(p)
  BY <1>4 DEF DeleteKeyFault
<1>5. CASE LocalUnlock(p)
  BY <1>5 DEF LocalUnlock
<1>6. CASE PanicOnClose(p)
  <2> USE <1>6 DEF PanicOnClose
  <2>1. void /\ void' = void
    BY DEF Lost
  <2>2. TypeOK'
    <3>1. pc' \in [Proc -> PC] /\ again' \in [Proc -> BOOLEAN]
      BY DEF Lost
    <3>2. crashes' \in 0..MaxCrashes /\ kv' \in 0..TTL /\ faults' \in 0..MaxFaults
      BY DEF Lost
    <3>3. /\ mut' \in [Node -> BOOLEAN] /\ stopCh' \in [Node -> {"nil", "open", "closed"}]
          /\ refreshing' \in [Node -> BOOLEAN] /\ age' \in [Node -> Nat]
      BY DEF Lost
    <3> QED
      BY <2>1, <3>1, <3>2, <3>3
  <2> QED
    BY <2>1, <2>2
<1> QED
  BY <1>1, <1>2, <1>3, <1>4, <1>5, <1>6 DEF UnlockStep

\* Neither the refresher, which never finds its key gone, nor the crash of a
\* node, which forgets its lock but not its key, breaks it.
LEMMA NodeStepIInv ==
  ASSUME IInv, NEW n \in Node, NodeStep(n)
  PROVE  IInv'
<1> USE MutexAssumption DEF IInv, Sound, TypeOK, OwnerKey, OneOwner, LocalExclusion,
        StopChOfPc, InMut, PC
<1>1. CASE Refresh(n)
  BY <1>1 DEF Refresh
<1>2. CASE RefreshLost(n)
  BY <1>2 DEF RefreshLost
<1>3. CASE RefreshFault(n)
  BY <1>3 DEF RefreshFault
<1>4. CASE RefresherStop(n)
  BY <1>4 DEF RefresherStop
<1>5. CASE Crash(n)
  <2> USE <1>5 DEF Crash, Lost
  <2>1. TypeOK'
    <3>1. pc' \in [Proc -> PC] /\ again' \in [Proc -> BOOLEAN]
      OBVIOUS
    <3>2. crashes' \in 0..MaxCrashes
      OBVIOUS
    <3>3. kv' \in 0..TTL /\ faults' \in 0..MaxFaults
      OBVIOUS
    <3> QED
      BY <3>1, <3>2, <3>3
  <2>2. CASE void
    BY <2>1, <2>2
  <2>3. CASE ~void
    <3>1. (OwnerKey /\ OneOwner)'
      BY <2>3
    <3>2. LocalExclusion'
      BY <2>3
    <3>3. StopChOfPc'
      BY <2>3
    <3> QED
      BY <2>1, <3>1, <3>2, <3>3
  <2> QED
    BY <2>2, <2>3
<1> QED
  BY <1>1, <1>2, <1>3, <1>4, <1>5 DEF NodeStep

\* Time passes only as long as every write is within its delay, so an owner's
\* key is never older than RefreshInterval + MaxDelay, which is below TTL.
LEMMA TickIInv ==
  ASSUME IInv, Tick
  PROVE  IInv'
<1> USE MutexAssumption DEF IInv, Sound, TypeOK, OwnerKey, OneOwner, LocalExclusion,
        StopChOfPc, InMut, PC, Tick, OnTime
<1>1. TypeOK'
  OBVIOUS
<1>2. CASE void
  BY <1>1, <1>2
<1>3. CASE ~void
  <2>1. \A n \in Node : stopCh[n] # "nil" => refreshing[n] \/ stopCh[n] = "closed"
    BY <1>3
  <2> QED
    BY <1>1, <1>3, <2>1
<1> QED
  BY <1>2, <1>3

LEMMA NextIInv ==
  ASSUME IInv, [Next]_vars
  PROVE  IInv'
<1>1. CASE \E p \in Proc : LockStep(p) \/ UnlockStep(p)
  BY <1>1, LockStepIInv, UnlockStepIInv
<1>2. CASE \E n \in Node : NodeStep(n)
  BY <1>2, NodeStepIInv
<1>3. CASE Tick
  BY <1>3, TickIInv
<1>4. CASE UNCHANGED vars
  BY <1>4 DEF vars, IInv, Sound, TypeOK, OwnerKey, OneOwner, LocalExclusion, StopChOfPc, InMut
<1> QED
  BY <1>1, <1>2, <1>3, <1>4 DEF Next

\* The inductive invariant holds in every behaviour.
THEOREM IInvAlways ==
  Spec => []IInv
<1>1. IInv /\ [Next]_vars => IInv'
  BY NextIInv
<1> QED
  BY <1>1, InitIInv, PTL DEF Spec

\* Type correctness: the key, its age, the fields of each node and the places of the
\* goroutines keep their types, also after the lock is void (NewMutex, Lock, Unlock).
THEOREM MutexTyping ==
  Spec => []TypeOK
<1>1. IInv => TypeOK
  BY DEF IInv
<1> QED
  BY <1>1, IInvAlways, PTL

\* No two goroutines of the cluster are between Lock and Unlock of the same
\* channel, however many nodes crash and calls to the store fail.
THEOREM MutexIsExclusive ==
  Spec => []MutualExclusion
<1>1. IInv => MutualExclusion
  BY MutexAssumption DEF IInv, Sound, TypeOK, OneOwner, StopChOfPc, LocalExclusion, InMut, MutualExclusion
<1> QED
  BY <1>1, IInvAlways, PTL

\* A goroutine never works under a key that has expired or that somebody
\* else has deleted, as long as writes are late by MaxDelay at most.
THEOREM HolderNeverExpired ==
  Spec => []HolderHasKey
<1>1. IInv => HolderHasKey
  BY MutexAssumption DEF IInv, Sound, TypeOK, OwnerKey, StopChOfPc, HolderHasKey
<1> QED
  BY <1>1, IInvAlways, PTL

\* The refinement mapping of Abstract.
Holders == {p \in Proc : pc[p] = "held"}

\* Under the invariant a lock is only taken when nobody holds it.
LEMMA AtMostOneHolder ==
  ASSUME IInv, ~void
  PROVE  /\ \A p, q \in Holders : p = q
         /\ kv = 0 => Holders = {}
  BY MutexAssumption DEF IInv, Sound, TypeOK, OwnerKey, OneOwner, StopChOfPc, LocalExclusion,
     InMut, Holders

\* As long as the lock is not void, a step of the mutex takes the abstract
\* lock, releases it or leaves it alone; a crash of the holder's node releases it.
LEMMA StepOfLock ==
  ASSUME IInv, ~void, ~void', void' \in BOOLEAN, [Next]_vars
  PROVE  Holders' = Holders \/ \E p \in Proc : Abstract!Acquire(p) \/ Abstract!Release(p)
<1> USE AtMostOneHolder DEF Holders, Goto
<1>0. void' = void
  BY DEF IInv, TypeOK
<1>1. ASSUME NEW p \in Proc, TryLock(p)
      PROVE  Abstract!Acquire(p)
  BY <1>0, <1>1 DEF TryLock, Abstract!Acquire, IInv, TypeOK
<1>2. ASSUME NEW p \in Proc, CloseStop(p)
      PROVE  Holders' = Holders \/ Abstract!Release(p)
  BY <1>0, <1>2 DEF CloseStop, Abstract!Release, IInv, TypeOK
<1>3. ASSUME NEW n \in Node, Crash(n)
      PROVE  Holders' = Holders \/ \E p \in Proc : Abstract!Release(p)
  BY <1>0, <1>3 DEF Crash, Lost, Abstract!Release, IInv, TypeOK
<1>4. ASSUME NEW p \in Proc, PanicOnClose(p) \/ UnlockOfUnlocked(p)
      PROVE  FALSE
  BY <1>4, MutexAssumption DEF PanicOnClose, UnlockOfUnlocked, IInv, Sound, TypeOK, StopChOfPc,
     LocalExclusion, InMut
<1>5. ASSUME NEW p \in Proc,
             \/ Request(p) \/ LocalLock(p) \/ TryLockFault(p) \/ LockTimeout(p)
             \/ DeleteKey(p) \/ DeleteKeyFault(p) \/ LocalUnlock(p)
      PROVE  Holders' = Holders
  BY <1>5 DEF Request, LocalLock, TryLockFault, LockTimeout, DeleteKey, DeleteKeyFault,
     LocalUnlock, IInv, TypeOK
<1>6. ASSUME NEW n \in Node, Refresh(n) \/ RefreshLost(n) \/ RefreshFault(n) \/ RefresherStop(n)
      PROVE  Holders' = Holders
  BY <1>6 DEF Refresh, RefreshLost, RefreshFault, RefresherStop
<1>7. CASE Tick \/ UNCHANGED vars
  BY <1>7 DEF Tick, vars
<1> HIDE DEF Holders
<1> QED
  BY <1>1, <1>2, <1>3, <1>4, <1>5, <1>6, <1>7
  DEF Next, LockStep, UnlockStep, NodeStep

\* Once the lock is void it stays so, and the abstract lock promises nothing.
LEMMA StepImplements ==
  ASSUME IInv, [Next]_vars
  PROVE  [Abstract!LockNext]_<<Holders, void>>
<1>1. void' \in BOOLEAN
  BY NextIInv DEF IInv, TypeOK
<1>2. Holders' \in SUBSET Proc
  BY DEF Holders
<1>3. CASE void'
  BY <1>1, <1>2, <1>3 DEF Abstract!LockNext, Abstract!Lapse
<1>4. CASE void /\ ~void'
  BY <1>4 DEF Next, LockStep, UnlockStep, NodeStep, Request, LocalLock, TryLock, TryLockFault,
     LockTimeout, CloseStop, UnlockOfUnlocked, DeleteKey, DeleteKeyFault, LocalUnlock,
     PanicOnClose, Refresh, RefreshLost, RefreshFault, RefresherStop, Crash, Lost, Tick, vars
<1>5. CASE ~void /\ ~void'
  <2>1. void' = void
    BY <1>1, <1>5 DEF IInv, TypeOK
  <2> QED
    BY <1>1, <1>5, <2>1, StepOfLock DEF Abstract!LockNext
<1> QED
  BY <1>3, <1>4, <1>5

\* The cluster mutex implements the lock that the call handlers expect.
THEOREM MutexImplementsLock ==
  Spec => AbstractSpec
<1>1. Init => Holders = {} /\ void = FALSE
  BY DEF Init, Holders
<1>2. IInv /\ [Next]_vars => [Abstract!LockNext]_<<Holders, void>>
  BY StepImplements
<1> QED
  BY <1>1, <1>2, IInvAlways, PTL DEF Spec, AbstractSpec, Abstract!LockSpec, Abstract!LockInit,
     Abstract!lockVars, Holders
=============================================================================
