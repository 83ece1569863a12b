---------------------------- MODULE SystemSuspend ----------------------------
(* How the tablet goes to sleep: suspend_then_hibernate_until_woken reads  *)
(* the kernel's count of successful suspends, gives its wake lock back,    *)
(* asks systemd to suspend until the count has grown, and takes the lock   *)
(* again. Reads, writes and the call of systemctl may fail.                *)
EXTENDS Naturals

CONSTANTS
  MaxSuspendAttempts, \* how often systemd is asked: eight times
  MaxFailures         \* bound: failed reads, writes and calls of one sleep

ASSUME SuspendAssumption == MaxSuspendAttempts \in Nat \ {0} /\ MaxFailures \in Nat

VARIABLES
  step,         \* what suspend_then_hibernate_until_woken does next
  attempt,      \* how often systemd was asked
  suspends,     \* suspends since the count was read; more than two are two
  wakeLock,     \* whether the program holds its wake lock
  failures      \* bound: failures since it last returned with its lock

suspendVars == <<step, attempt, suspends, wakeLock, failures>>

SuspendSteps == {"idle", "count", "release", "ask", "wait", "restore", "drop", "done"}

(* The service takes the lock before it starts the program.                *)
SuspendInit ==
  /\ step = "idle" /\ attempt = 0 /\ suspends = 0 /\ wakeLock = TRUE /\ failures = 0

SuspendBegins == step = "idle" /\ step' = "count" /\ UNCHANGED <<attempt, suspends, wakeLock, failures>>
SuspendReturns ==
  /\ step = "done" /\ step' = "idle" /\ attempt' = 0 /\ suspends' = 0
  /\ failures' = (IF wakeLock THEN 0 ELSE failures) /\ UNCHANGED wakeLock

Fails == failures < MaxFailures /\ failures' = failures + 1
Works == UNCHANGED failures

ReadCount ==
  /\ step = "count"
  /\ \/ Works /\ step' = "release" /\ suspends' = 0 /\ attempt' = 0
     \/ Fails /\ step' = "done" /\ UNCHANGED <<suspends, attempt>>
  /\ UNCHANGED wakeLock

(* The transition lock is written first, and then the own one is released. *)
ReleaseWakeLock ==
  /\ step = "release"
  /\ \/ Works /\ step' = "ask" /\ wakeLock' = FALSE
     \/ Fails /\ step' = "done" /\ UNCHANGED wakeLock
  /\ UNCHANGED <<attempt, suspends>>

AskSystemd ==
  /\ step = "ask"
  /\ \/ Works /\ step' = "wait" /\ attempt' = attempt + 1
     \/ Fails /\ step' = "restore" /\ UNCHANGED attempt
  /\ UNCHANGED <<suspends, wakeLock>>

(* The kernel suspends and is woken, early or late after it was asked.     *)
KernelSuspends ==
  /\ step \in {"ask", "wait"} /\ attempt > 0 /\ suspends < 2
  /\ suspends' = suspends + 1
  /\ UNCHANGED <<step, attempt, wakeLock, failures>>

WaitForEver == \* a mutant: the attempts are not counted
  /\ step = "wait"
  /\ \/ suspends > 0 /\ Works /\ step' = "restore"
     \/ suspends = 0 /\ Works /\ step' = "ask"
     \/ Fails /\ step' = "drop"
  /\ attempt' = 1 /\ UNCHANGED <<suspends, wakeLock>>
(* A count that has grown, a deadline of six seconds, or an error.         *)
WaitForSuspend ==
  /\ step = "wait"
  /\ \/ suspends > 0 /\ Works /\ step' = "restore"
     \/ suspends = 0 /\ Works /\ step' = IF attempt < MaxSuspendAttempts THEN "ask" ELSE "restore"
     \/ Fails /\ step' = "drop"
  /\ UNCHANGED <<attempt, suspends, wakeLock>>

RestoreWakeLock ==
  /\ step = "restore"
  /\ \/ Works /\ step' = "done" /\ wakeLock' = TRUE
     \/ Fails /\ step' = "drop" /\ UNCHANGED wakeLock
  /\ UNCHANGED <<attempt, suspends>>

DropWithoutRestoring == \* a mutant: leaving the function restores nothing
  /\ step = "drop" /\ step' = "done"
  /\ UNCHANGED <<attempt, suspends, wakeLock, failures>>
(* The guard of the released lock tries once more when it is dropped.      *)
DropReleasedLock ==
  /\ step = "drop" /\ step' = "done"
  /\ \/ Works /\ wakeLock' = TRUE
     \/ Fails /\ UNCHANGED wakeLock
  /\ UNCHANGED <<attempt, suspends>>

SuspendStep == ReadCount \/ ReleaseWakeLock \/ AskSystemd \/ WaitForSuspend \/ RestoreWakeLock \/ DropReleasedLock
=============================================================================
