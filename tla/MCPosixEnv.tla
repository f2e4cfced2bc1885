----------------------------- MODULE MCPosixEnv -----------------------------
(* PosixEnv's background queue and its mmap limiter, interleaved: the two *)
(* members are used by different threads and share no lock, so every      *)
(* interleaving of their steps is a behaviour of the Env.                  *)
EXTENDS Naturals

CONSTANTS i1, i2, i3, i4, None, t1, t2, t3

VARIABLES queue, started, bg, current, sched, ran,   \* BGQueue
          allowed, pc, mapped                        \* MmapLimiter

envVars == <<queue, started, bg, current, sched, ran, allowed, pc, mapped>>

BG == INSTANCE BGQueue WITH Items <- {i1, i2, i3, i4}
ML == INSTANCE MmapLimiter WITH Threads <- {t1, t2, t3}, Limit <- 3, MaxMapped <- 2

BGStep(A) == A /\ UNCHANGED <<allowed, pc, mapped>>
MLStep(A) == A /\ UNCHANGED <<queue, started, bg, current, sched, ran>>

Init == BG!Init /\ ML!Init
Next == BGStep(BG!Next) \/ MLStep(ML!Next)

\* BGQueue's fairness: the background thread runs when it can, and the
\* functions it runs return.
Spec == Init /\ [][Next]_envVars /\ WF_envVars(BGStep(BG!BGCheck))
                                 /\ WF_envVars(BGStep(BG!Run))

\* The properties of the two members (stated in BGQueue and MmapLimiter).
NoSleepWithWork == BG!NoSleepWithWork
RunsInScheduleOrder == BG!RunsInScheduleOrder
EveryScheduledItemRuns == BG!EveryScheduledItemRuns
SlotsConserved == ML!SlotsConserved
AllowedNeverNegative == ML!AllowedNeverNegative
=============================================================================
