-------------------------------- MODULE Sync --------------------------------
(***************************************************************************)
(* Semaphores (kernel/sem.c) and recursive mutexes (kernel/mutex.c) on top *)
(* of the scheduler.  Both hand over directly: sem_notify and mutex_unlock *)
(* give the unit or the mutex to the first waiter and make it ready, so a  *)
(* task that returns from the dispatch inside sem_wait or mutex_lock       *)
(* tests nothing again.                                                    *)
(*                                                                         *)
(* Sched's variable waiting is the union of the wait lists; that every     *)
(* step here is a step of Sched is the property SchedSpec.                 *)
(***************************************************************************)
EXTENDS Sched

CONSTANTS
    Sems, Mutexes,
    NULL,           \* (task_t*)0
    SEM_INIT,       \* sem_init's count, per semaphore
    Rank,           \* the order in which the callers nest the mutexes
    HeldOverWait,   \* mutexes held over sem_wait: klog's, while it writes to tty0
    MaxCount,       \* bound on the count of a semaphore
    MaxDepth        \* bound on the nesting of one mutex

ASSUME NullAssumption == NULL \notin AllTasks
ASSUME SemInitAssumption == SEM_INIT \in [Sems -> Nat]
ASSUME RankAssumption == Rank \in [Mutexes -> Nat]
ASSUME HeldAssumption == HeldOverWait \subseteq Mutexes
ASSUME BoundsAssumption == MaxCount \in Nat /\ MaxDepth \in Nat \ {0}

VARIABLES
    count,          \* sem->count
    sem_list,       \* sem->wait_list
    locked_count,   \* mutex->locked_count
    owner,          \* mutex->owner
    mutex_list      \* mutex->wait_list

semVars   == <<count, sem_list>>
mutexVars == <<locked_count, owner, mutex_list>>
syncVars  == <<schedVars, semVars, mutexVars>>

SyncInit ==
    /\ Init
    /\ count = SEM_INIT                                     \* sem_init
    /\ sem_list = [s \in Sems |-> <<>>]
    /\ locked_count = [m \in Mutexes |-> 0]                 \* mutex_init
    /\ owner = [m \in Mutexes |-> NULL]
    /\ mutex_list = [m \in Mutexes |-> <<>>]

Held(t) == {m \in Mutexes : owner[m] = t}

-----------------------------------------------------------------------------
(* kernel/sem.c                                                            *)

\* Mutant: the caller blocks and there is no task_dispatch.
sem_wait_no_dispatch(s) ==
    /\ Calling
    /\ Held(curr) \subseteq HeldOverWait
    /\ IF count[s] > 0
       THEN /\ count' = [count EXCEPT ![s] = @ - 1]
            /\ UNCHANGED <<schedVars, sem_list>>
       ELSE /\ ready' = task_set_block(ready, curr)
            /\ waiting' = waiting \cup {curr}
            /\ sem_list' = [sem_list EXCEPT ![s] = list_insert_last(@, curr)]
            /\ UNCHANGED <<curr, state, sleeping, slice_ticks, sleep_ticks, handler, scan, count>>
    /\ UNCHANGED mutexVars

sem_wait(s) ==
    /\ Calling
    /\ Held(curr) \subseteq HeldOverWait
    /\ IF count[s] > 0
       THEN /\ count' = [count EXCEPT ![s] = @ - 1]
            /\ UNCHANGED <<schedVars, sem_list>>
       ELSE /\ WaitCurr
            /\ sem_list' = [sem_list EXCEPT ![s] = list_insert_last(@, curr)]
            /\ UNCHANGED count
    /\ UNCHANGED mutexVars

\* Mutant: the first waiter is woken and stays on the wait list.
sem_notify_not_removed(s) ==
    /\ Running
    /\ IF Len(sem_list[s]) > 0
       THEN /\ WakeTask(Head(sem_list[s]))
            /\ UNCHANGED semVars
       ELSE /\ count[s] < MaxCount
            /\ count' = [count EXCEPT ![s] = @ + 1]
            /\ UNCHANGED <<schedVars, sem_list>>
    /\ UNCHANGED mutexVars

\* Mutant: the unit is counted although a waiter gets it.
sem_notify_counted_twice(s) ==
    /\ Running
    /\ count[s] < MaxCount
    /\ count' = [count EXCEPT ![s] = @ + 1]
    /\ IF Len(sem_list[s]) > 0
       THEN /\ WakeTask(Head(sem_list[s]))
            /\ sem_list' = [sem_list EXCEPT ![s] = list_delete_first(@)]
       ELSE UNCHANGED <<schedVars, sem_list>>
    /\ UNCHANGED mutexVars

\* Called by tasks (console_write) and by the keyboard interrupt (tty_in).
sem_notify(s) ==
    /\ Running
    /\ IF Len(sem_list[s]) > 0
       THEN /\ WakeTask(Head(sem_list[s]))
            /\ sem_list' = [sem_list EXCEPT ![s] = list_delete_first(@)]
            /\ UNCHANGED count
       ELSE /\ count[s] < MaxCount
            /\ count' = [count EXCEPT ![s] = @ + 1]
            /\ UNCHANGED <<schedVars, sem_list>>
    /\ UNCHANGED mutexVars

-----------------------------------------------------------------------------
(* kernel/mutex.c                                                          *)

\* Mutant: the mutex is not recursive, its owner waits for itself.
mutex_lock_not_recursive(m) ==
    /\ Calling
    /\ m \notin Held(curr) => \A h \in Held(curr) : Rank[h] < Rank[m]
    /\ IF locked_count[m] = 0
       THEN /\ locked_count' = [locked_count EXCEPT ![m] = 1]
            /\ owner' = [owner EXCEPT ![m] = curr]
            /\ UNCHANGED <<schedVars, mutex_list>>
       ELSE /\ WaitCurr
            /\ mutex_list' = [mutex_list EXCEPT ![m] = list_insert_last(@, curr)]
            /\ UNCHANGED <<locked_count, owner>>
    /\ UNCHANGED semVars

mutex_lock(m) ==
    /\ Calling
    /\ m \notin Held(curr) => \A h \in Held(curr) : Rank[h] < Rank[m]
    /\ \/ /\ locked_count[m] = 0
          /\ locked_count' = [locked_count EXCEPT ![m] = 1]
          /\ owner' = [owner EXCEPT ![m] = curr]
          /\ UNCHANGED <<schedVars, mutex_list>>
       \/ /\ locked_count[m] # 0
          /\ owner[m] = curr
          /\ locked_count[m] < MaxDepth
          /\ locked_count' = [locked_count EXCEPT ![m] = @ + 1]
          /\ UNCHANGED <<schedVars, owner, mutex_list>>
       \/ /\ locked_count[m] # 0
          /\ owner[m] # curr
          /\ WaitCurr
          /\ mutex_list' = [mutex_list EXCEPT ![m] = list_insert_last(@, curr)]
          /\ UNCHANGED <<locked_count, owner>>
    /\ UNCHANGED semVars

\* Mutant: the mutex goes to the last waiter.
mutex_unlock_to_last(m) ==
    LET q == mutex_list[m]
        t == q[Len(q)]
    IN  /\ Calling
        /\ owner[m] = curr
        /\ IF locked_count[m] = 1 /\ q # <<>>
           THEN /\ WakeTask(t)
                /\ owner' = [owner EXCEPT ![m] = t]
                /\ mutex_list' = [mutex_list EXCEPT ![m] = SubSeq(@, 1, Len(@) - 1)]
                /\ UNCHANGED locked_count
           ELSE /\ locked_count' = [locked_count EXCEPT ![m] = @ - 1]
                /\ owner' = [owner EXCEPT ![m] = IF locked_count[m] = 1 THEN NULL ELSE @]
                /\ UNCHANGED <<schedVars, mutex_list>>
        /\ UNCHANGED semVars

\* Mutant: an unlock of a mutex that was locked twice is not counted.
mutex_unlock_inner_lost(m) ==
    /\ Calling
    /\ owner[m] = curr
    /\ locked_count[m] = 1
    /\ IF mutex_list[m] # <<>>
       THEN /\ WakeTask(Head(mutex_list[m]))
            /\ owner' = [owner EXCEPT ![m] = Head(mutex_list[m])]
            /\ mutex_list' = [mutex_list EXCEPT ![m] = list_delete_first(@)]
            /\ UNCHANGED locked_count
       ELSE /\ locked_count' = [locked_count EXCEPT ![m] = 0]
            /\ owner' = [owner EXCEPT ![m] = NULL]
            /\ UNCHANGED <<schedVars, mutex_list>>
    /\ UNCHANGED semVars

\* A call by a task that is not the owner has no effect.
mutex_unlock(m) ==
    /\ Calling
    /\ owner[m] = curr
    /\ \/ /\ locked_count[m] # 1
          /\ locked_count' = [locked_count EXCEPT ![m] = @ - 1]
          /\ UNCHANGED <<schedVars, owner, mutex_list>>
       \/ /\ locked_count[m] = 1
          /\ Len(mutex_list[m]) = 0
          /\ locked_count' = [locked_count EXCEPT ![m] = 0]
          /\ owner' = [owner EXCEPT ![m] = NULL]
          /\ UNCHANGED <<schedVars, mutex_list>>
       \/ /\ locked_count[m] = 1
          /\ Len(mutex_list[m]) > 0
          /\ LET t == Head(mutex_list[m])
             IN  /\ WakeTask(t)
                 /\ owner' = [owner EXCEPT ![m] = t]
          /\ mutex_list' = [mutex_list EXCEPT ![m] = list_delete_first(@)]
          /\ UNCHANGED locked_count
    /\ UNCHANGED semVars

-----------------------------------------------------------------------------
(* The scheduler's own steps.  A system call starts in user mode, and every *)
(* handler releases the mutexes it took before it returns.                 *)
Timer == task_time_tick \/ TickScan \/ TickDone

SystemCall ==
    /\ Held(curr) = {}
    /\ \/ \E t \in Tasks : task_start(t)
       \/ sys_yield
       \/ \E ms \in MsValues : sys_sleep(ms)
       \/ sys_exit

SyncNext ==
    \/ \E s \in Sems : sem_wait(s)
    \/ \E s \in Sems : sem_notify(s)
    \/ \E m \in Mutexes : mutex_lock(m)
    \/ \E m \in Mutexes : mutex_unlock(m)
    \/ (Timer \/ SystemCall) /\ UNCHANGED <<semVars, mutexVars>>

SyncSpec == SyncInit /\ [][SyncNext]_syncVars

\* The code between mutex_lock and mutex_unlock is finite: an owner that keeps
\* getting the CPU comes to its mutex_unlock, and, locks being nested to a fixed
\* depth, to the unlock that gives the mutex away.
SyncFairness ==
    /\ WF_syncVars(task_time_tick /\ UNCHANGED <<semVars, mutexVars>>)
    /\ WF_syncVars(TickScan /\ UNCHANGED <<semVars, mutexVars>>)
    /\ WF_syncVars(TickDone /\ UNCHANGED <<semVars, mutexVars>>)
    /\ \A m \in Mutexes :
          /\ SF_syncVars(mutex_unlock(m))
          /\ SF_syncVars(mutex_unlock(m) /\ owner'[m] # owner[m])

SyncFairSpec == SyncSpec /\ SyncFairness

-----------------------------------------------------------------------------
(* Properties.                                                             *)

SyncTypeOK ==
    /\ count \in [Sems -> Nat]
    /\ sem_list \in [Sems -> Seq(Tasks)]
    /\ locked_count \in [Mutexes -> Nat]
    /\ owner \in [Mutexes -> Tasks \cup {NULL}]
    /\ mutex_list \in [Mutexes -> Seq(Tasks)]

\* Each task has one wait_node: it is on one wait list at most, once, and it is
\* on one exactly when the scheduler regards it as waiting.
OneWaitList ==
    /\ \A s \in Sems : Injective(sem_list[s])
    /\ \A m \in Mutexes : Injective(mutex_list[m])
    /\ \A t \in Tasks : \A s, r \in Sems :
          t \in Members(sem_list[s]) /\ t \in Members(sem_list[r]) => s = r
    /\ \A t \in Tasks : \A m, n \in Mutexes :
          t \in Members(mutex_list[m]) /\ t \in Members(mutex_list[n]) => m = n
    /\ \A t \in Tasks : \A s \in Sems, m \in Mutexes :
          ~(t \in Members(sem_list[s]) /\ t \in Members(mutex_list[m]))
    /\ \A t \in Tasks :
          t \in waiting <=> \/ \E s \in Sems : t \in Members(sem_list[s])
                           \/ \E m \in Mutexes : t \in Members(mutex_list[m])

\* A task waits only for what is not to be had: no unit of a semaphore lies
\* unused while a task waits for it, no mutex is free while a task waits for it.
\* A mutex is locked exactly while it has an owner.
NoUnitUnused ==
    /\ \A s \in Sems : sem_list[s] # <<>> => count[s] = 0
    /\ \A m \in Mutexes : mutex_list[m] # <<>> => locked_count[m] > 0
    /\ \A m \in Mutexes : locked_count[m] = 0 <=> owner[m] = NULL

\* A locked mutex has an owner that can still come to its mutex_unlock: it is
\* not asleep, has not exited, and does not wait for the mutex itself.
OwnerCanRelease ==
    \A m \in Mutexes :
        owner[m] # NULL =>
              /\ owner[m] \in Members(ready) \/ owner[m] \in waiting
              /\ owner[m] \notin Members(mutex_list[m])
              /\ \A s \in Sems : owner[m] \in Members(sem_list[s]) => m \in HeldOverWait

ServedInTurn ==
    /\ \A m \in Mutexes :
          mutex_list[m] # <<>> /\ owner'[m] # owner[m] =>
              /\ owner'[m] = Head(mutex_list[m])
              /\ mutex_list'[m] = Tail(mutex_list[m])
    /\ \A m \in Mutexes, t, u \in Tasks :
          Before(mutex_list[m], t, u) /\ t \in Members(mutex_list'[m]) =>
              Before(mutex_list'[m], t, u)
    /\ \A s \in Sems, t, u \in Tasks :
          Before(sem_list[s], t, u) /\ t \in Members(sem_list'[s]) =>
              Before(sem_list'[s], t, u)

\* Nobody barges in: a mutex that is released while tasks wait goes to the one
\* that has waited longest, and no task leaves a wait list before the tasks
\* that were ahead of it.
FirstComeFirstServed == [][ServedInTurn]_syncVars

\* Every step of the semaphores and mutexes is a step of the scheduler.
SchedSpec == Spec

\* A task that waits for a mutex gets it, unless the mutex is one that is held
\* over sem_wait: then its owner may wait for ever.  A task that waits for a
\* semaphore passes if the semaphore is notified again and again.
WaitersServed ==
    /\ \A t \in Tasks, m \in Mutexes \ HeldOverWait :
          t \in Members(mutex_list[m]) ~> owner[m] = t
    /\ \A s \in Sems :
          []<><<sem_notify(s)>>_syncVars =>
              \A t \in Tasks : t \in Members(sem_list[s]) ~> curr = t

=============================================================================
