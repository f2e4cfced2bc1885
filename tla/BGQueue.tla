------------------------------- MODULE BGQueue -------------------------------
(***************************************************************************)
(* PosixEnv::Schedule and PosixEnv::BGThread (src/LearnCC/util/env_posix.cc)*)
(* Callers push work items on queue_ under mu_; one background thread,     *)
(* started by the first Schedule, pops and runs them, waiting on the       *)
(* condition variable bgsignal_ while the queue is empty.                  *)
(*                                                                         *)
(* Schedule holds mu_ for its whole body, and so does each pass of the     *)
(* background thread from locking mu_ to popping an item or entering       *)
(* pthread_cond_wait (which releases mu_ atomically).  Each such critical  *)
(* section is one step.  Each item is scheduled at most once, so items are *)
(* distinct and the number of Schedule calls is bounded by |Items|.        *)
(***************************************************************************)
EXTENDS Sequences, SequencesExt

CONSTANTS
    Items,     \* work items (function, arg) callers schedule
    None       \* no item

VARIABLES
    queue,     \* queue_
    started,   \* started_bgthread_
    bg,        \* the background thread: "none" (not created), "top" (about
               \* to lock mu_ and test the queue), "waiting" (in
               \* pthread_cond_wait), "run" (running an item, mu_ released)
    current,   \* the item the background thread popped
    sched,     \* ghost: items in the order Schedule pushed them
    ran        \* ghost: items in the order their function was called

vars == <<queue, started, bg, current, sched, ran>>

Init ==
    /\ queue = <<>>
    /\ started = FALSE
    /\ bg = "none"
    /\ current = None
    /\ sched = <<>>
    /\ ran = <<>>

\* Faulty variants of Schedule: one tests the queue after the push, so it
\* never signals; one marks the thread started without creating it; one
\* pushes at the front.
ScheduleSignalsAfterPush(i) ==
    /\ i \notin ToSet(sched)
    /\ started' = TRUE
    /\ bg' = IF ~started THEN "top" ELSE bg
    /\ queue' = Append(queue, i)
    /\ sched' = Append(sched, i)
    /\ UNCHANGED <<current, ran>>

ScheduleNoStart(i) ==
    /\ i \notin ToSet(sched)
    /\ started' = TRUE
    /\ bg' = IF queue = <<>> /\ bg = "waiting" THEN "top" ELSE bg
    /\ queue' = Append(queue, i)
    /\ sched' = Append(sched, i)
    /\ UNCHANGED <<current, ran>>

SchedulePushFront(i) ==
    /\ i \notin ToSet(sched)
    /\ started' = TRUE
    /\ bg' = IF ~started THEN "top"
             ELSE IF queue = <<>> /\ bg = "waiting" THEN "top" ELSE bg
    /\ queue' = <<i>> \o queue
    /\ sched' = Append(sched, i)
    /\ UNCHANGED <<current, ran>>

\* Schedule(function, arg): create the background thread on the first call;
\* if the queue is empty, signal bgsignal_ (waking the thread if it is in
\* pthread_cond_wait; a signal with no waiter is lost); push the item.
Schedule(i) ==
    /\ i \notin ToSet(sched)
    /\ started' = TRUE
    /\ bg' = IF ~started THEN "top"
             ELSE IF queue = <<>> /\ bg = "waiting" THEN "top" ELSE bg
    /\ queue' = Append(queue, i)
    /\ sched' = Append(sched, i)
    /\ UNCHANGED <<current, ran>>

\* BGThread: lock mu_ and test queue_.  Empty: pthread_cond_wait (mu_
\* released).  Otherwise pop the front item and unlock.
BGCheck ==
    /\ bg = "top"
    /\ IF queue = <<>>
         THEN /\ bg' = "waiting"
              /\ UNCHANGED <<queue, current>>
         ELSE /\ bg' = "run"
              /\ current' = Head(queue)
              /\ queue' = Tail(queue)
    /\ UNCHANGED <<started, sched, ran>>

\* Faulty variant of SpuriousWakeup for an `if` in place of the `while`
\* around pthread_cond_wait: the woken thread pops without re-testing, and
\* front() of an empty deque is undefined: some value that is no item.
SpuriousWakeupPops ==
    /\ bg = "waiting"
    /\ bg' = "run"
    /\ current' = IF queue = <<>> THEN "garbage" ELSE Head(queue)
    /\ queue' = IF queue = <<>> THEN <<>> ELSE Tail(queue)
    /\ UNCHANGED <<started, sched, ran>>

\* pthread_cond_wait may return without a signal; the while loop re-tests.
SpuriousWakeup ==
    /\ bg = "waiting"
    /\ bg' = "top"
    /\ UNCHANGED <<queue, started, current, sched, ran>>

\* BGThread: (*function)(arg) outside the mutex, then loop.
Run ==
    /\ bg = "run"
    /\ ran' = Append(ran, current)
    /\ bg' = "top"
    /\ current' = None
    /\ UNCHANGED <<queue, started, sched>>

Next ==
    \/ \E i \in Items : Schedule(i)
    \/ BGCheck
    \/ SpuriousWakeup
    \/ Run

\* The background thread is a thread the OS runs whenever it is runnable,
\* and the scheduled functions return; callers need not call Schedule
\* again and spurious wakeups need not happen.
Spec == Init /\ [][Next]_vars /\ WF_vars(BGCheck) /\ WF_vars(Run)

-----------------------------------------------------------------------------
TypeOK ==
    /\ queue \in Seq(Items)
    /\ started \in BOOLEAN
    /\ bg \in {"none", "top", "waiting", "run"}
    /\ current \in Items \cup {None}
    /\ sched \in Seq(Items)
    /\ ran \in Seq(Items)

\* No lost wakeup: the background thread never sleeps in pthread_cond_wait
\* while an item is queued, although Schedule signals only when it finds
\* the queue empty.
NoSleepWithWork == bg = "waiting" => queue = <<>>

\* Items run in the order they were scheduled (queue_ is a FIFO deque),
\* each once: what has run, then the running item, then the queue, is
\* exactly the schedule order.
RunsInScheduleOrder ==
    sched = ran \o (IF bg = "run" THEN <<current>> ELSE <<>>) \o queue

\* Every item a caller schedules is eventually run.
EveryScheduledItemRuns ==
    \A i \in Items : (i \in ToSet(sched)) ~> (i \in ToSet(ran))
=============================================================================
