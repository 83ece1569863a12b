------------------------- MODULE NativeObserverProofs --------------------------
(* Theorems of NativeObserver: what a complete capture leaves behind, and   *)
(* when a hit may go unseen. They hold for any number of threads and        *)
(* breakpoints, of failing calls and of signals.                            *)
EXTENDS NativeObserver, FiniteSetTheorems, TLAPS

Handling == {"record", "lift", "step", "stepped", "replace", "continue", "stopping"}
Ending   == {"stop", "stopping", "restore"}

(* The probe works on threads that it knows and on words that it patches.  *)
ObserverTypeOK ==
  /\ known \subseteq Thread /\ recorded \in Nat /\ failed \in BOOLEAN
  /\ tool \in Ending => todo \subseteq known
  /\ tool \in Handling => current \in known
  /\ words \in [Breakpoint -> {"original", "patched"}]
  /\ place \in [Thread -> Breakpoint \cup {Elsewhere}]
  /\ mode \in [Thread -> {"free", "running", "stepping", "stopped", "seen", "ended", "gone"}]

(* Until its last hit a capture has every breakpoint in place but the one  *)
(* that is being stepped over.                                             *)
CaptureIsArmed ==
  /\ tool = "open" => \A b \in Patched : words[b] = "patched"
  /\ IsCapturing => \A b \in Patched : words[b] = "original" => IsSteppingOver(b)

(* Nothing is patched while a thread may run untraced, and a probe that    *)
(* reports no error has an account of every thread.                        *)
NobodyIsFree ==
  tool # "ended" =>
    /\ \A t \in known : mode[t] # "free"
    /\ tool # "attach" => \A t \in Thread \ known : mode[t] = "gone"
WordsAreOriginal == tool \in {"attach", "install"} => words = Original
EveryoneIsStopped ==
  tool \in Ending /\ ~failed => \A t \in known : t \in todo \cup stopped \/ mode[t] = "gone"
AllStopped == tool = "restore" /\ ~failed => todo = {}
NobodyIsKilled == ~failed => xochitl # "killed"

ObserverInv ==
  /\ ObserverTypeOK /\ CaptureIsArmed /\ NobodyIsFree /\ WordsAreOriginal
  /\ EveryoneIsStopped /\ AllStopped /\ NobodyIsKilled /\ CompleteCaptureRestoresXochitl

-----------------------------------------------------------------------------
(* A set of numbers has a least one, since its finite subsets are well     *)
(* founded.                                                                *)
LEMMA MinFacts == ASSUME NEW S \in SUBSET Nat, S # {}  PROVE Min(S) \in S
<1> DEFINE upTo(x) == {y \in S : y <= x}
           segments == {upTo(x) : x \in S}
<1>1. \A x \in S : upTo(x) \in SUBSET Nat /\ IsFiniteSet(upTo(x))
  <2> TAKE x \in S
  <2>1. x \in Nat /\ upTo(x) \in SUBSET Nat /\ \A y \in upTo(x) : y <= x
    OBVIOUS
  <2> QED
    BY <2>1, FS_BoundedSetOfNaturals
<1>2. segments \subseteq FiniteSubsetsOf(Nat) /\ segments # {}
  BY <1>1 DEF FiniteSubsetsOf
<1>3. \E s \in segments : \A r \in segments : <<r, s>> \notin StrictSubsetOrdering(Nat)
  BY <1>2, FS_StrictSubsetOrderingWellFounded, WFMin
<1>4. PICK x \in S : \A y \in S : <<upTo(y), upTo(x)>> \notin StrictSubsetOrdering(Nat)
  BY <1>3
<1>5. ASSUME NEW y \in S, y < x  PROVE FALSE
  <2>1. upTo(y) \subseteq upTo(x) /\ x \in upTo(x) /\ x \notin upTo(y)
    <3>1. x \in Nat /\ y \in Nat /\ \A z \in S : z \in Nat
      OBVIOUS
    <3>2. \A z \in S : z <= y => z <= x
      BY <1>5, <3>1
    <3>3. x <= x /\ ~(x <= y)
      BY <1>5, <3>1
    <3> QED
      BY <3>2, <3>3
  <2> HIDE DEF upTo
  <2> QED
    BY <1>1, <1>4, <2>1 DEF StrictSubsetOrdering
<1>6. \A y \in S : x <= y
  BY <1>5
<1> QED
  BY <1>6 DEF Min

LEMMA PatchedFacts == Patched \subseteq Breakpoint /\ Elsewhere \notin Breakpoint
<1>1. Min(Breakpoint) \in Breakpoint
  BY ObserverAssumption, MinFacts
<1> QED
  BY <1>1, ObserverAssumption DEF Patched, Elsewhere

LEMMA InitEstablishesObserverInv == Init => ObserverInv
<1> SUFFICES ASSUME Init  PROVE ObserverInv
  OBVIOUS
<1>1. ObserverTypeOK
  BY DEF Init, ObserverTypeOK, Handling, Ending, Original
<1>2. CaptureIsArmed /\ NobodyIsFree /\ WordsAreOriginal /\ EveryoneIsStopped /\ AllStopped
  BY DEF Init, CaptureIsArmed, NobodyIsFree, WordsAreOriginal, EveryoneIsStopped, AllStopped,
     IsCapturing, Ending
<1>3. NobodyIsKilled /\ CompleteCaptureRestoresXochitl
  BY DEF Init, NobodyIsKilled, CompleteCaptureRestoresXochitl
<1> QED
  BY <1>1, <1>2, <1>3 DEF ObserverInv

(* A probe that ends with an error, whatever it leaves patched or stopped. *)
LEMMA EndWithError ==
  ASSUME ObserverInv, NEW detached, Exit(detached), failed' = TRUE, UNCHANGED <<place, work>>,
         words' \in [Breakpoint -> {"original", "patched"}]
  PROVE  ObserverInv'
<1>1. tool' = "ended" /\ mode' \in [Thread -> {"gone", "free"}]
  BY DEF Exit
<1> QED
  BY <1>1 DEF work, ObserverInv, ObserverTypeOK, CaptureIsArmed, NobodyIsFree, WordsAreOriginal,
     EveryoneIsStopped, AllStopped, NobodyIsKilled, CompleteCaptureRestoresXochitl,
     IsCapturing, Handling, Ending

LEMMA AbortKeepsInv ==
  ASSUME ObserverInv, Abort, words' \in [Breakpoint -> {"original", "patched"}]
  PROVE  ObserverInv'
BY EndWithError DEF Abort, Fails, ObserverInv, ObserverTypeOK

-----------------------------------------------------------------------------
(* The threads of Xochitl.                                                 *)

(* A thread that the probe traces goes on being traced, and one that it    *)
(* does not trace meets no breakpoint.                                     *)
LEMMA ThreadsKeepInv ==
  ASSUME ObserverInv, Xochitl, NEW t \in Thread, Runs(t), NEW m,
         mode' = [mode EXCEPT ![t] = m],
         m \in {"free", "running", "stepping", "stopped", "ended", "gone"},
         mode[t] # "free" => m # "free", mode[t] = "free" => m \in {"free", "gone"},
         place' \in [Thread -> Breakpoint \cup {Elsewhere}],
         xochitl' = "killed" => xochitl = "killed"
  PROVE  ObserverInv'
<1>1. UNCHANGED <<probe, tool, known, current, hit, todo, stopped, recorded, failed, words>>
  BY DEF Xochitl, work, flags
<1>2. ObserverTypeOK' /\ NobodyIsKilled'
  BY <1>1 DEF ObserverInv, ObserverTypeOK, NobodyIsKilled
<1>3. CaptureIsArmed' /\ WordsAreOriginal' /\ AllStopped'
  BY <1>1 DEF ObserverInv, CaptureIsArmed, WordsAreOriginal, AllStopped, IsCapturing,
     HasRecorded, Patched, IsSteppingOver
<1>4. \A u \in Thread : /\ mode[u] = "gone" => mode'[u] = "gone"
                        /\ mode[u] # "free" => mode'[u] # "free"
                        /\ mode[u] \in {"free", "gone"} => mode'[u] \in {"free", "gone"}
  BY DEF Runs, ObserverInv, ObserverTypeOK
<1>5. NobodyIsFree' /\ EveryoneIsStopped'
  BY <1>1, <1>4 DEF ObserverInv, ObserverTypeOK, NobodyIsFree, EveryoneIsStopped
<1>6. CompleteCaptureRestoresXochitl'
  BY <1>1, <1>2, <1>4 DEF ObserverInv, CompleteCaptureRestoresXochitl, NobodyIsKilled
<1> QED
  BY <1>2, <1>3, <1>5, <1>6 DEF ObserverInv

LEMMA XochitlKeepsInv ==
  ASSUME ObserverInv, NEW t \in Thread,
         \/ ComeToBreakpoint(t) \/ HitBreakpoint(t) \/ PassInstruction(t)
         \/ TakeStop(t) \/ EndThread(t)
  PROVE  ObserverInv'
<1>1. /\ mode \in [Thread -> {"free", "running", "stepping", "stopped", "seen", "ended", "gone"}]
      /\ place \in [Thread -> Breakpoint \cup {Elsewhere}]
  BY DEF ObserverInv, ObserverTypeOK
<1>2. Runs(t) /\ mode' = mode => /\ mode' = [mode EXCEPT ![t] = mode[t]]
                                 /\ mode[t] \in {"free", "running", "stepping"}
  BY <1>1 DEF Runs
<1>3. CASE ComeToBreakpoint(t)
  <2>1. /\ Runs(t) /\ Xochitl /\ UNCHANGED <<mode, xochitl>>
        /\ place' \in [Thread -> Breakpoint \cup {Elsewhere}]
    BY <1>1, <1>3 DEF ComeToBreakpoint
  <2> QED
    BY <1>2, <2>1, ThreadsKeepInv
<1>4. CASE PassInstruction(t)
  <2>1. /\ Runs(t) /\ Xochitl /\ UNCHANGED xochitl
        /\ place' \in [Thread -> Breakpoint \cup {Elsewhere}]
        /\ mode' = [mode EXCEPT ![t] = IF mode[t] = "stepping" THEN "stopped" ELSE mode[t]]
    BY <1>1, <1>4 DEF PassInstruction
  <2> QED
    BY <1>1, <2>1, ThreadsKeepInv DEF Runs
<1>5. CASE EndThread(t)
  <2>1. /\ Runs(t) /\ Xochitl /\ UNCHANGED <<place, xochitl>>
        /\ mode' = [mode EXCEPT ![t] = IF mode[t] = "free" THEN "gone" ELSE "ended"]
    BY <1>5 DEF EndThread
  <2> QED
    BY <1>1, <2>1, ThreadsKeepInv
<1>6. CASE TakeStop(t)
  <2>1. /\ Runs(t) /\ Xochitl /\ UNCHANGED place /\ xochitl' \in {xochitl, "halted"}
        /\ mode' = [mode EXCEPT ![t] = IF mode[t] = "free" THEN mode[t] ELSE "stopped"]
    BY <1>1, <1>6 DEF TakeStop
  <2> QED
    BY <1>1, <2>1, ThreadsKeepInv
<1>7. CASE HitBreakpoint(t)
  <2>1. /\ Runs(t) /\ Xochitl /\ UNCHANGED place
        /\ place[t] \in Breakpoint /\ words[place[t]] = "patched"
    BY <1>1, <1>7 DEF HitBreakpoint
  <2>2. CASE mode[t] # "free"
    <3>1. mode' = [mode EXCEPT ![t] = "stopped"] /\ UNCHANGED xochitl
      BY <1>7, <2>2 DEF HitBreakpoint
    <3> QED
      BY <1>1, <2>1, <2>2, <3>1, ThreadsKeepInv
  <2>3. CASE mode[t] = "free"
    <3>1. UNCHANGED mode
      BY <1>7, <2>3 DEF HitBreakpoint
    <3>2. words # Original
      BY <2>1 DEF Original
    <3>3. tool = "ended" /\ failed
      BY <2>3, <3>2 DEF ObserverInv, ObserverTypeOK, NobodyIsFree, WordsAreOriginal,
         CompleteCaptureRestoresXochitl
    <3>4. UNCHANGED <<probe, tool, known, current, hit, todo, stopped, recorded, failed, words>>
      BY <2>1 DEF Xochitl, work, flags
    <3> QED
      BY <2>1, <3>1, <3>3, <3>4 DEF ObserverInv, ObserverTypeOK, CaptureIsArmed, NobodyIsFree,
         WordsAreOriginal, EveryoneIsStopped, AllStopped, NobodyIsKilled,
         CompleteCaptureRestoresXochitl, IsCapturing, HasRecorded, Patched, IsSteppingOver
  <2> QED
    BY <2>2, <2>3
<1> QED
  BY <1>3, <1>4, <1>5, <1>6, <1>7

-----------------------------------------------------------------------------
(* The probe.                                                              *)

(* What of the invariant is about the end of a probe holds before it.      *)
LEMMA NotEndingYet ==
  ASSUME tool' \notin Ending, tool' # "ended"
  PROVE  EveryoneIsStopped' /\ AllStopped' /\ CompleteCaptureRestoresXochitl'
BY DEF EveryoneIsStopped, AllStopped, CompleteCaptureRestoresXochitl, Ending

LEMMA AttachKeepsInv == ASSUME ObserverInv, AttachThread  PROVE ObserverInv'
<1> DEFINE left == {t \in Thread \ known : mode[t] # "gone"}
<1>1. CASE Fails /\ (Exit(known) \/ Exit({})) /\ UNCHANGED known
  BY <1>1, EndWithError DEF AttachThread, Fails, work, ObserverInv, ObserverTypeOK
<1>2. CASE /\ left # {} /\ known' = known \cup {Min(left)}
           /\ mode' = [mode EXCEPT ![Min(left)] = "seen"]
           /\ UNCHANGED <<tool, failures, failed, xochitl>>
  <2>1. Min(left) \in Thread /\ Min(left) \notin known
    <3>1. left \in SUBSET Nat
      BY ObserverAssumption
    <3>2. Min(left) \in left
      BY <1>2, <3>1, MinFacts
    <3> QED
      BY <3>2
  <2> DEFINE t == Min(left)
  <2>2. /\ known' = known \cup {t} /\ mode' = [mode EXCEPT ![t] = "seen"] /\ t \in Thread
        /\ tool = "attach"
        /\ UNCHANGED <<probe, tool, current, hit, todo, stopped, recorded, failed, words, place,
                       xochitl>>
    BY <1>2, <2>1 DEF AttachThread
  <2> HIDE DEF t, left
  <2>3. ObserverTypeOK'
    BY <2>2 DEF ObserverInv, ObserverTypeOK, Handling, Ending
  <2>4. CaptureIsArmed' /\ NobodyIsFree' /\ WordsAreOriginal' /\ NobodyIsKilled'
    BY <2>2 DEF ObserverInv, ObserverTypeOK, CaptureIsArmed, IsCapturing, NobodyIsFree,
       WordsAreOriginal, NobodyIsKilled
  <2> QED
    BY <2>2, <2>3, <2>4, NotEndingYet DEF ObserverInv, Ending
<1>3. CASE left = {} /\ tool' = "install" /\ UNCHANGED <<known, mode, failed, xochitl>>
  <2>1. /\ tool = "attach" /\ \A t \in Thread \ known : mode[t] = "gone"
        /\ UNCHANGED <<probe, current, hit, todo, stopped, recorded, words, place>>
    BY <1>3 DEF AttachThread
  <2>2. ObserverTypeOK'
    BY <1>3, <2>1 DEF ObserverInv, ObserverTypeOK, Handling, Ending
  <2>3. CaptureIsArmed' /\ NobodyIsFree' /\ WordsAreOriginal' /\ NobodyIsKilled'
    BY <1>3, <2>1 DEF ObserverInv, CaptureIsArmed, IsCapturing, NobodyIsFree,
       WordsAreOriginal, NobodyIsKilled
  <2> QED
    BY <1>3, <2>2, <2>3, NotEndingYet DEF ObserverInv, Ending
<1> QED
  BY <1>1, <1>2, <1>3 DEF AttachThread

LEMMA InstallKeepsInv == ASSUME ObserverInv, InstallBreakpoints  PROVE ObserverInv'
<1>1. words' \in [Breakpoint -> {"original", "patched"}] /\ tool = "install"
  BY DEF InstallBreakpoints
<1>2. CASE Abort
  BY <1>1, <1>2, AbortKeepsInv
<1>3. CASE /\ tool' = "open" /\ UNCHANGED <<probe, work, flags, threads, xochitl>>
           /\ words' = [b \in Breakpoint |-> IF b \in Patched THEN "patched" ELSE "original"]
  <2>1. Patched' = Patched /\ \A b \in Patched : words'[b] = "patched"
    BY <1>3, PatchedFacts DEF Patched
  <2>2. UNCHANGED <<known, current, todo, recorded, failed, place, mode, xochitl>>
    BY <1>3 DEF work, flags, threads
  <2>3. ObserverTypeOK'
    BY <1>1, <1>3, <2>2 DEF ObserverInv, ObserverTypeOK, Handling, Ending
  <2>4. CaptureIsArmed' /\ NobodyIsFree' /\ WordsAreOriginal' /\ NobodyIsKilled'
    BY <1>1, <1>3, <2>1, <2>2 DEF ObserverInv, CaptureIsArmed, IsCapturing, NobodyIsFree,
       WordsAreOriginal, NobodyIsKilled
  <2> QED
    BY <1>3, <2>3, <2>4, NotEndingYet DEF ObserverInv, Ending
<1> QED
  BY <1>2, <1>3 DEF InstallBreakpoints

(* Each step of a capture, from the first continuation to the last hit.    *)
LEMMA ContinueThreadsKeepsInv == ASSUME ObserverInv, ContinueThreads  PROVE ObserverInv'
<1>1. CASE Abort /\ UNCHANGED words
  BY <1>1, AbortKeepsInv DEF ObserverInv, ObserverTypeOK
<1>2. CASE /\ tool' = "loop"
           /\ mode' = [t \in Thread |-> IF t \in known THEN "running" ELSE mode[t]]
           /\ UNCHANGED <<probe, work, flags, words, place, signal, pendingStop, xochitl>>
  <2>1. tool = "open"
    BY DEF ContinueThreads
  <2>2. ObserverTypeOK'
    BY <1>2 DEF ObserverInv, ObserverTypeOK, Handling, Ending, work, flags
  <2>3. CaptureIsArmed' /\ NobodyIsFree' /\ WordsAreOriginal' /\ NobodyIsKilled'
    BY <1>2, <2>1 DEF work, flags, ObserverInv, ObserverTypeOK, CaptureIsArmed, IsCapturing,
       Patched, NobodyIsFree, WordsAreOriginal, NobodyIsKilled
  <2> QED
    BY <1>2, <2>2, <2>3, NotEndingYet DEF ObserverInv, Ending
<1> QED
  BY <1>1, <1>2 DEF ContinueThreads

LEMMA CheckWhetherFinishedKeepsInv == ASSUME ObserverInv, CheckWhetherFinished  PROVE ObserverInv'
<1>1. ObserverTypeOK'
  BY PatchedFacts DEF CheckWhetherFinished, Finish, IsFinished, work, flags, threads,
     ObserverInv, ObserverTypeOK, Handling, Ending
<1>2. CaptureIsArmed' /\ WordsAreOriginal'
  BY PatchedFacts, ObserverAssumption DEF CheckWhetherFinished, Finish, IsFinished, work, flags,
     threads, ObserverInv, ObserverTypeOK, CaptureIsArmed, IsCapturing, IsSteppingOver,
     HasRecorded, Patched, WordsAreOriginal
<1>3. NobodyIsFree' /\ NobodyIsKilled'
  BY DEF CheckWhetherFinished, Finish, IsFinished, work, flags, threads, ObserverInv,
     ObserverTypeOK, Handling, Ending, NobodyIsFree, NobodyIsKilled
<1>4. EveryoneIsStopped' /\ AllStopped' /\ CompleteCaptureRestoresXochitl'
  BY DEF CheckWhetherFinished, Finish, IsFinished, EveryoneIsStopped, AllStopped,
     CompleteCaptureRestoresXochitl, Ending
<1> QED
  BY <1>1, <1>2, <1>3, <1>4 DEF ObserverInv

LEMMA WaitForAnyKeepsInv == ASSUME ObserverInv, WaitForAny  PROVE ObserverInv'
<1>1. ObserverTypeOK'
  BY PatchedFacts DEF WaitForAny, Interrupted, work, flags, threads, ObserverInv,
     ObserverTypeOK, Handling, Ending
<1>2. CaptureIsArmed' /\ WordsAreOriginal'
  BY PatchedFacts, ObserverAssumption DEF WaitForAny, Interrupted, work, flags, threads,
     ObserverInv, ObserverTypeOK, CaptureIsArmed, IsCapturing, IsSteppingOver, HasRecorded,
     Patched, WordsAreOriginal
<1>3. NobodyIsFree' /\ NobodyIsKilled'
  BY DEF WaitForAny, Interrupted, work, flags, threads, ObserverInv, ObserverTypeOK, Handling,
     Ending, NobodyIsFree, NobodyIsKilled
<1>4. EveryoneIsStopped' /\ AllStopped' /\ CompleteCaptureRestoresXochitl'
  BY NotEndingYet DEF WaitForAny, Ending
<1> QED
  BY <1>1, <1>2, <1>3, <1>4 DEF ObserverInv

LEMMA RecordKeepsInv == ASSUME ObserverInv, Record  PROVE ObserverInv'
<1>1. /\ tool = "record"
      /\ UNCHANGED <<probe, known, current, hit, stopped, words, place, mode, xochitl>>
      /\ \/ /\ tool' = "lift" /\ UNCHANGED <<todo, failed>>
         \/ /\ tool' = "stop" /\ todo' = known /\ failed' = TRUE
      /\ recorded' \in {recorded, recorded + 1}
  BY DEF Record, Finish, Fails, threads
<1>2. recorded \in Nat /\ recorded' \in Nat /\ recorded' >= recorded
  BY <1>1 DEF ObserverInv, ObserverTypeOK
<1>3. ObserverTypeOK'
  BY <1>1, <1>2 DEF ObserverInv, ObserverTypeOK, Handling, Ending
<1>4. ~HasRecorded' => ~HasRecorded
  BY <1>1, <1>2, ObserverAssumption DEF HasRecorded
<1>5. CaptureIsArmed' /\ WordsAreOriginal'
  BY <1>1, <1>4 DEF ObserverInv, CaptureIsArmed, IsCapturing, IsSteppingOver, Patched,
     WordsAreOriginal
<1>6. NobodyIsFree' /\ NobodyIsKilled'
  BY <1>1 DEF ObserverInv, NobodyIsFree, NobodyIsKilled
<1>7. EveryoneIsStopped' /\ AllStopped' /\ CompleteCaptureRestoresXochitl'
  BY <1>1 DEF EveryoneIsStopped, AllStopped, CompleteCaptureRestoresXochitl, Ending
<1> QED
  BY <1>3, <1>5, <1>6, <1>7 DEF ObserverInv

LEMMA LiftBreakpointKeepsInv == ASSUME ObserverInv, LiftBreakpoint  PROVE ObserverInv'
<1>1. ObserverTypeOK'
  BY PatchedFacts DEF LiftBreakpoint, Poke, work, flags, threads, ObserverInv, ObserverTypeOK,
     Handling, Ending
<1>2. CaptureIsArmed' /\ WordsAreOriginal'
  BY PatchedFacts, ObserverAssumption DEF LiftBreakpoint, Poke, work, flags, threads,
     ObserverInv, ObserverTypeOK, CaptureIsArmed, IsCapturing, IsSteppingOver, HasRecorded,
     Patched, WordsAreOriginal
<1>3. NobodyIsFree' /\ NobodyIsKilled'
  BY DEF LiftBreakpoint, Poke, work, flags, threads, ObserverInv, ObserverTypeOK, Handling,
     Ending, NobodyIsFree, NobodyIsKilled
<1>4. EveryoneIsStopped' /\ AllStopped' /\ CompleteCaptureRestoresXochitl'
  BY NotEndingYet DEF LiftBreakpoint, Ending
<1> QED
  BY <1>1, <1>2, <1>3, <1>4 DEF ObserverInv

LEMMA SingleStepKeepsInv == ASSUME ObserverInv, SingleStep  PROVE ObserverInv'
<1>1. ObserverTypeOK'
  BY PatchedFacts DEF SingleStep, work, flags, threads, ObserverInv, ObserverTypeOK, Handling,
     Ending
<1>2. CaptureIsArmed' /\ WordsAreOriginal'
  BY PatchedFacts, ObserverAssumption DEF SingleStep, work, flags, threads, ObserverInv,
     ObserverTypeOK, CaptureIsArmed, IsCapturing, IsSteppingOver, HasRecorded, Patched,
     WordsAreOriginal
<1>3. NobodyIsFree' /\ NobodyIsKilled'
  BY DEF SingleStep, work, flags, threads, ObserverInv, ObserverTypeOK, Handling, Ending,
     NobodyIsFree, NobodyIsKilled
<1>4. EveryoneIsStopped' /\ AllStopped' /\ CompleteCaptureRestoresXochitl'
  BY NotEndingYet DEF SingleStep, Ending
<1> QED
  BY <1>1, <1>2, <1>3, <1>4 DEF ObserverInv

LEMMA WaitForStepKeepsInv == ASSUME ObserverInv, WaitForStep  PROVE ObserverInv'
<1>1. ObserverTypeOK'
  BY PatchedFacts DEF WaitForStep, Finish, Interrupted, work, flags, threads, ObserverInv,
     ObserverTypeOK, Handling, Ending
<1>2. CaptureIsArmed' /\ WordsAreOriginal'
  BY PatchedFacts, ObserverAssumption DEF WaitForStep, Finish, Interrupted, work, flags,
     threads, ObserverInv, ObserverTypeOK, CaptureIsArmed, IsCapturing, IsSteppingOver,
     HasRecorded, Patched, WordsAreOriginal
<1>3. NobodyIsFree' /\ NobodyIsKilled'
  BY DEF WaitForStep, Finish, Interrupted, work, flags, threads, ObserverInv, ObserverTypeOK,
     Handling, Ending, NobodyIsFree, NobodyIsKilled
<1>4. EveryoneIsStopped' /\ AllStopped' /\ CompleteCaptureRestoresXochitl'
  BY DEF WaitForStep, Finish, Interrupted, EveryoneIsStopped, AllStopped,
     CompleteCaptureRestoresXochitl, Ending
<1> QED
  BY <1>1, <1>2, <1>3, <1>4 DEF ObserverInv

LEMMA ReplaceBreakpointKeepsInv == ASSUME ObserverInv, ReplaceBreakpoint  PROVE ObserverInv'
<1>1. ObserverTypeOK'
  BY PatchedFacts DEF ReplaceBreakpoint, Poke, work, flags, threads, ObserverInv,
     ObserverTypeOK, Handling, Ending
<1>2. CaptureIsArmed' /\ WordsAreOriginal'
  BY PatchedFacts, ObserverAssumption DEF ReplaceBreakpoint, Poke, work, flags, threads,
     ObserverInv, ObserverTypeOK, CaptureIsArmed, IsCapturing, IsSteppingOver, HasRecorded,
     Patched, WordsAreOriginal
<1>3. NobodyIsFree' /\ NobodyIsKilled'
  BY DEF ReplaceBreakpoint, Poke, work, flags, threads, ObserverInv, ObserverTypeOK, Handling,
     Ending, NobodyIsFree, NobodyIsKilled
<1>4. EveryoneIsStopped' /\ AllStopped' /\ CompleteCaptureRestoresXochitl'
  BY NotEndingYet DEF ReplaceBreakpoint, Ending
<1> QED
  BY <1>1, <1>2, <1>3, <1>4 DEF ObserverInv

LEMMA ContinueThreadKeepsInv == ASSUME ObserverInv, ContinueThread  PROVE ObserverInv'
<1>1. ObserverTypeOK'
  BY PatchedFacts DEF ContinueThread, work, flags, threads, ObserverInv, ObserverTypeOK,
     Handling, Ending
<1>2. CaptureIsArmed' /\ WordsAreOriginal'
  BY PatchedFacts, ObserverAssumption DEF ContinueThread, work, flags, threads, ObserverInv,
     ObserverTypeOK, CaptureIsArmed, IsCapturing, IsSteppingOver, HasRecorded, Patched,
     WordsAreOriginal
<1>3. NobodyIsFree' /\ NobodyIsKilled'
  BY DEF ContinueThread, work, flags, threads, ObserverInv, ObserverTypeOK, Handling, Ending,
     NobodyIsFree, NobodyIsKilled
<1>4. EveryoneIsStopped' /\ AllStopped' /\ CompleteCaptureRestoresXochitl'
  BY NotEndingYet DEF ContinueThread, Ending
<1> QED
  BY <1>1, <1>2, <1>3, <1>4 DEF ObserverInv

-----------------------------------------------------------------------------
(* The end of a probe.                                                     *)

LEMMA StopThreadKeepsInv == ASSUME ObserverInv, StopThread  PROVE ObserverInv'
<1>1. /\ tool = "stop" /\ known \subseteq Thread /\ todo \subseteq known
      /\ UNCHANGED <<probe, known, hit, todo, stopped, recorded, failed, words, place, mode,
                     xochitl>>
  BY DEF StopThread, flags, ObserverInv, ObserverTypeOK, Ending
<1>2. \/ todo = {} /\ tool' = "restore" /\ current' = current
      \/ todo # {} /\ tool' = "stopping" /\ current' = Min(todo)
  BY DEF StopThread
<1>3. todo # {} => Min(todo) \in known
  BY <1>1, MinFacts, ObserverAssumption
<1>4. ObserverTypeOK'
  BY <1>1, <1>2, <1>3 DEF ObserverInv, ObserverTypeOK, Handling, Ending
<1>5. CaptureIsArmed' /\ WordsAreOriginal' /\ NobodyIsFree' /\ NobodyIsKilled'
  BY <1>1, <1>2 DEF ObserverInv, CaptureIsArmed, IsCapturing, WordsAreOriginal, NobodyIsFree,
     NobodyIsKilled
<1>6. EveryoneIsStopped' /\ AllStopped' /\ CompleteCaptureRestoresXochitl'
  BY <1>1, <1>2 DEF ObserverInv, EveryoneIsStopped, AllStopped, CompleteCaptureRestoresXochitl,
     Ending
<1> QED
  BY <1>4, <1>5, <1>6 DEF ObserverInv

LEMMA WaitForStopKeepsInv == ASSUME ObserverInv, WaitForStop  PROVE ObserverInv'
<1>1. /\ tool = "stopping" /\ current \in known
      /\ UNCHANGED <<probe, known, current, hit, recorded, words, place, xochitl>>
  BY DEF WaitForStop, ObserverInv, ObserverTypeOK, Handling
<1>2. \/ /\ mode' = [mode EXCEPT ![current] = "seen"] /\ mode[current] = "stopped"
         /\ stopped' = stopped \cup {current} /\ todo' = todo \ {current}
         /\ tool' = "stop" /\ failed' = failed
      \/ /\ mode' = [mode EXCEPT ![current] = "gone"] /\ mode[current] = "ended"
         /\ stopped' = stopped /\ todo' \in {todo, todo \ {current}}
         /\ \/ tool' = "restore" /\ failed' = TRUE
            \/ tool' = "stop" /\ failed' = failed
      \/ /\ mode' = mode /\ stopped' = stopped /\ todo' = todo
         /\ tool' = "restore" /\ failed' = TRUE
  BY DEF WaitForStop
<1>3. ObserverTypeOK'
  BY <1>1, <1>2 DEF ObserverInv, ObserverTypeOK, Handling, Ending
<1>4. CaptureIsArmed' /\ WordsAreOriginal' /\ NobodyIsFree' /\ NobodyIsKilled'
  BY <1>1, <1>2 DEF ObserverInv, ObserverTypeOK, CaptureIsArmed, IsCapturing, WordsAreOriginal,
     NobodyIsFree, NobodyIsKilled
<1>5. EveryoneIsStopped' /\ AllStopped' /\ CompleteCaptureRestoresXochitl'
  BY <1>1, <1>2 DEF ObserverInv, ObserverTypeOK, EveryoneIsStopped, AllStopped,
     CompleteCaptureRestoresXochitl, Ending
<1> QED
  BY <1>3, <1>4, <1>5 DEF ObserverInv

(* The probe lets go of every thread that there is left.                   *)
LEMMA LetGoKeepsInv ==
  ASSUME ObserverInv, NEW detached, tool = "restore", tool' = "ended", words' = Original,
         Detach(detached), UNCHANGED <<place, work, failed>>,
         ~failed => \A t \in Thread : t \in detached \/ mode[t] = "gone"
  PROVE  ObserverInv'
<1>1. /\ mode' = [t \in Thread |-> IF t \in detached THEN "free" ELSE mode[t]]
      /\ xochitl' = xochitl /\ UNCHANGED <<known, todo, recorded>>
      /\ words' \in [Breakpoint -> {"original", "patched"}]
  BY DEF Detach, work, Original
<1>2. ObserverTypeOK'
  BY <1>1 DEF ObserverInv, ObserverTypeOK, Handling, Ending
<1>3. CaptureIsArmed' /\ WordsAreOriginal' /\ NobodyIsFree' /\ NobodyIsKilled'
      /\ EveryoneIsStopped' /\ AllStopped'
  BY <1>1 DEF ObserverInv, CaptureIsArmed, IsCapturing, WordsAreOriginal, NobodyIsFree,
     NobodyIsKilled, EveryoneIsStopped, AllStopped, Ending
<1>4. CompleteCaptureRestoresXochitl'
  BY <1>1 DEF ObserverInv, NobodyIsKilled, CompleteCaptureRestoresXochitl, Original
<1> QED
  BY <1>2, <1>3, <1>4 DEF ObserverInv

LEMMA RestoreKeepsInv ==
  ASSUME ObserverInv, RestoreAndDetach \/ RestoreInstructionAndDetach
  PROVE  ObserverInv'
<1>1. /\ tool = "restore" /\ UNCHANGED <<place, work>> /\ words' \in {words, Original}
      /\ words' \in [Breakpoint -> {"original", "patched"}]
  BY DEF RestoreAndDetach, RestoreInstructionAndDetach, ObserverInv, ObserverTypeOK, Original
<1>2. ASSUME NEW detached, Exit(detached), failed' = TRUE  PROVE ObserverInv'
  BY <1>1, <1>2, EndWithError
<1>3. CASE RestoreAndDetach
  <2>1. CASE Detach(known) /\ tool' = "ended" /\ words' = Original /\ UNCHANGED failed
    BY <1>1, <2>1, LetGoKeepsInv DEF ObserverInv, NobodyIsFree
  <2> QED
    BY <1>2, <1>3, <2>1 DEF RestoreAndDetach
<1>4. CASE RestoreInstructionAndDetach
  <2>1. CASE Detach(stopped) /\ tool' = "ended" /\ words' = Original /\ UNCHANGED failed
    BY <1>1, <2>1, LetGoKeepsInv DEF ObserverInv, NobodyIsFree, EveryoneIsStopped, AllStopped,
       Ending
  <2> QED
    BY <1>2, <1>4, <2>1 DEF RestoreInstructionAndDetach
<1> QED
  BY <1>3, <1>4

LEMMA FlagsKeepInv ==
  ASSUME ObserverInv,
         UNCHANGED <<probe, tool, known, current, hit, todo, stopped, recorded, failed, words,
                     place, mode, xochitl>>
  PROVE  ObserverInv'
BY DEF ObserverInv, ObserverTypeOK, CaptureIsArmed, NobodyIsFree, WordsAreOriginal,
   EveryoneIsStopped, AllStopped, NobodyIsKilled, CompleteCaptureRestoresXochitl,
   IsCapturing, HasRecorded, Patched, IsSteppingOver

LEMMA SignalKeepsInv == ASSUME ObserverInv, Signal  PROVE ObserverInv'
<1>1. CASE probe = "stroke trace"
  BY <1>1, FlagsKeepInv DEF Signal, Interrupted, work
<1>2. CASE probe # "stroke trace"
  BY <1>2, EndWithError DEF Signal, ObserverInv, ObserverTypeOK
<1> QED
  BY <1>1, <1>2

-----------------------------------------------------------------------------
LEMMA NextKeepsObserverInv == ObserverInv /\ [Next]_vars => ObserverInv'
<1> SUFFICES ASSUME ObserverInv, [Next]_vars  PROVE ObserverInv'
  OBVIOUS
<1>1. CASE UNCHANGED vars
  BY <1>1, FlagsKeepInv DEF vars, work, flags, threads
<1>2. CASE Next
  BY <1>2, XochitlKeepsInv, AttachKeepsInv, InstallKeepsInv, ContinueThreadsKeepsInv,
     CheckWhetherFinishedKeepsInv, WaitForAnyKeepsInv, RecordKeepsInv, LiftBreakpointKeepsInv,
     SingleStepKeepsInv, WaitForStepKeepsInv, ReplaceBreakpointKeepsInv,
     ContinueThreadKeepsInv, StopThreadKeepsInv, WaitForStopKeepsInv, RestoreKeepsInv,
     SignalKeepsInv DEF Next
<1> QED
  BY <1>1, <1>2

(* A probe works on threads that it has, patches only what nobody can run  *)
(* into untraced, and knows where every thread is as long as it has met no *)
(* error.                                                                  *)
THEOREM ObserverInvHolds == Spec => []ObserverInv
BY InitEstablishesObserverInv, NextKeepsObserverInv, PTL DEF Spec

(* A probe that reports no error has put back every instruction of Xochitl *)
(* and let go of every thread, and killed none, whatever threads ended     *)
(* meanwhile, hit a breakpoint after the last wait, or were stopped twice, *)
(* and whatever signals came: for any threads and breakpoints.             *)
THEOREM CompleteCapturesRestore == Spec => []CompleteCaptureRestoresXochitl
<1>1. ObserverInv => CompleteCaptureRestoresXochitl
  BY DEF ObserverInv
<1> QED
  BY <1>1, ObserverInvHolds, PTL

(* During a capture a thread passes a patched instruction without being    *)
(* recorded only while another thread is made to step over the same one.   *)
THEOREM HitsAreHiddenByStepping == Spec => OnlySteppingHidesHits
<1>1. ASSUME ObserverInv, [Next]_vars, NEW t \in known, NEW b \in Patched,
             IsCapturing, place[t] = b, place'[t] = Elsewhere
      PROVE  IsSteppingOver(b)
  <2>1. /\ t \in Thread /\ b # Elsewhere /\ place \in [Thread -> Breakpoint \cup {Elsewhere}]
    BY <1>1, PatchedFacts DEF ObserverInv, ObserverTypeOK
  <2>2. place' # place
    BY <1>1, <2>1
  <2>3. PICK u \in Thread : ComeToBreakpoint(u) \/ PassInstruction(u)
    BY <1>1, <2>2 DEF Next, vars, threads, HitBreakpoint, TakeStop, EndThread, AttachThread,
       InstallBreakpoints, Abort, ContinueThreads, CheckWhetherFinished, WaitForAny, Record,
       LiftBreakpoint, SingleStep, WaitForStep, ReplaceBreakpoint, ContinueThread, StopThread,
       WaitForStop, RestoreAndDetach, RestoreInstructionAndDetach, Signal
  <2>4. ~ComeToBreakpoint(u)
    BY <1>1, <2>1, PatchedFacts DEF ComeToBreakpoint
  <2>5. u = t /\ words[b] = "original"
    BY <1>1, <2>1, <2>3, <2>4 DEF PassInstruction
  <2> QED
    BY <1>1, <2>5 DEF ObserverInv, CaptureIsArmed
<1>2. ObserverInv /\ [Next]_vars =>
        [\A t \in known : \A b \in Patched :
           IsCapturing /\ place[t] = b /\ place'[t] = Elsewhere => IsSteppingOver(b)]_vars
  BY <1>1
<1> QED
  BY <1>2, ObserverInvHolds, PTL DEF Spec, OnlySteppingHidesHits
=============================================================================
