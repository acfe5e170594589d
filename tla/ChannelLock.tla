---------------------------- MODULE ChannelLock ----------------------------
(***************************************************************************)
(* What the call handlers of the plugin expect of lockCall/unlockCall      *)
(* (server/sync.go): a lock on the channel that is shared by every         *)
(* goroutine of every node and that one of them at most holds, as long as  *)
(* the store answers the holder and nobody unlocks what it does not hold.  *)
(***************************************************************************)
CONSTANT Proc   \* the goroutines that lock the channel, on any node

VARIABLES
    holders,    \* the goroutines between a successful Lock and Unlock
    void        \* the lock has been lost under its holder, or released by another

lockVars == <<holders, void>>

LockInit == holders = {} /\ void = FALSE

Acquire(p) ==
    /\ holders = {}
    /\ holders' = {p}
    /\ void' = void

Release(p) ==
    /\ holders = {p}
    /\ holders' = {}
    /\ void' = void

\* From then on nothing is promised.
Lapse ==
    /\ void' = TRUE
    /\ holders' \in SUBSET Proc

LockNext == Lapse \/ \E p \in Proc : Acquire(p) \/ Release(p)

LockSpec == LockInit /\ [][LockNext]_lockVars
=============================================================================
