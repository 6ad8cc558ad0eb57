-------------------------------- MODULE Kernel --------------------------------
(***************************************************************************)
(* The LiteOS kernel of the terminal: tasks, scheduler and the objects     *)
(* tasks wait for, driven by an application that makes any call of the     *)
(* families it uses, at any time, from any task and from interrupts.       *)
(***************************************************************************)
EXTENDS KernelMutex, KernelSem, KernelEvent, KernelQueue, KernelRWLock

vars == <<taskVars, mutexVars, semVars, bits, queueVars, rwVars>>

Init == TasksInit /\ MutexInit /\ SemInit /\ EventInit /\ QueueInit /\ RWLockInit

Next == \/ TasksNext  /\ UNCHANGED <<mutexVars, semVars, bits, queueVars, rwVars>>
        \/ MutexNext  /\ UNCHANGED <<semVars, bits, queueVars, rwVars>>
        \/ SemNext    /\ UNCHANGED <<mutexVars, bits, queueVars, rwVars>>
        \/ EventNext  /\ UNCHANGED <<mutexVars, semVars, queueVars, rwVars>>
        \/ QueueNext  /\ UNCHANGED <<mutexVars, semVars, bits, rwVars>>
        \/ RWLockNext /\ UNCHANGED <<mutexVars, semVars, bits, queueVars>>

Spec == Init /\ [][Next]_vars

-----------------------------------------------------------------------------

\* What calls have given to a task nobody else holds: a mutex has one owner,
\* and who writes under a read-write lock is alone, whatever timeouts,
\* hand-overs and interrupts came between the grant and the return.
HoldersExclude == OnlyTheOwnerHolds /\ WritersExclude

\* No task sleeps on what is there: mutexes that are waited for have another
\* owner, semaphores a count of zero, events none of the bits their readers
\* want, queues nothing to read or to write, and read-write locks a holder,
\* whichever of timeouts, hand-overs, interrupts and deletions came last.
NobodySleepsOnWhatIsThere ==
  /\ MutexWaitersHaveAnOwner /\ SemWaitersFindNone /\ EventWaitersAreUnsatisfied
  /\ QueueWaitersAreUnable /\ NobodyWaitsForAnOpenLock
=============================================================================
