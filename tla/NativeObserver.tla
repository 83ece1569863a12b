---------------------------- MODULE NativeObserver ----------------------------
(* The probes that watch the tablet's own application, Xochitl, with ptrace:*)
(* they attach its threads, patch breakpoints into its code, record each   *)
(* thread that hits one, let it step over the original instruction and put *)
(* the breakpoint back, until they take all of it out and let Xochitl go.  *)
(* The threads run, hit breakpoints and end whenever they are not stopped. *)
(*                                                                         *)
(* One probe traces strokes until a signal asks it to stop; the others     *)
(* count what they have recorded, and a signal ends them at once. Threads  *)
(* that Xochitl starts later, its end, and its own signals are left out.   *)
EXTENDS Naturals, FiniteSets, FiniteSetsExt

CONSTANTS
  Thread,      \* the threads of Xochitl, as numbers; the least is the main one
  Breakpoint,  \* the instructions that the stroke trace patches, as numbers
  Requested,   \* what the counting probes record before they stop
  MaxFailures, \* bound: calls that fail for a reason of their own
  MaxSignals   \* bound: signals that the stroke trace receives

ASSUME ObserverAssumption ==
  /\ Thread \subseteq Nat /\ IsFiniteSet(Thread) /\ Thread # {}
  /\ Breakpoint \subseteq Nat \ {0} /\ Breakpoint # {}
  /\ Requested \in Nat \ {0} /\ MaxFailures \in Nat /\ MaxSignals \in Nat

VARIABLES
  probe,       \* which probe this is
  tool,        \* what it does next
  known,       \* the threads that it has attached and not seen end
  current,     \* the thread whose breakpoint it handles or that it stops
  hit,         \* the breakpoint that it handles
  todo,        \* known threads that it has yet to stop
  stopped,     \* threads that it has seen stop at the end
  recorded,    \* how many hits a counting probe has recorded
  stopRequested, signals, failures,
  failed,      \* whether any of its results is an error
  words,       \* the instructions, original or patched
  place,       \* the patched instruction that a thread comes to next, or none
  mode,        \* whether a thread runs, and who knows of it
  signal,      \* what a thread was last stopped by
  pendingStop, \* threads that were sent a SIGSTOP which they have not taken
  xochitl      \* alive, killed by a breakpoint, or halted by a SIGSTOP

work    == <<known, current, hit, todo, stopped, recorded>>
flags   == <<stopRequested, signals, failures, failed>>
threads == <<place, mode, signal, pendingStop>>
vars    == <<probe, tool, work, flags, words, threads, xochitl>>

Elsewhere == 0
Main      == Min(Thread)
Patched   == IF probe = "stroke trace" THEN Breakpoint ELSE {Min(Breakpoint)}
Original  == [b \in Breakpoint |-> "original"]

Init ==
  /\ probe \in {"stroke trace", "counting"} /\ tool = "attach"
  /\ known = {} /\ current = Main /\ hit = Elsewhere /\ todo = {} /\ stopped = {} /\ recorded = 0
  /\ stopRequested = FALSE /\ signals = 0 /\ failures = 0 /\ failed = FALSE
  /\ words = Original
  /\ place = [t \in Thread |-> Elsewhere]
  /\ mode = [t \in Thread |-> "free"] /\ signal = [t \in Thread |-> "none"]
  /\ pendingStop = {} /\ xochitl = "alive"

-----------------------------------------------------------------------------
(* What the kernel makes of the calls.                                     *)

DetachWithSignal(detached) == \* a mutant: a thread is given what stopped it
  /\ mode' = [t \in Thread |-> IF t \in detached THEN "free" ELSE mode[t]]
  /\ xochitl' = IF \E t \in detached : signal[t] = "SIGTRAP" THEN "killed" ELSE xochitl
(* A thread whose stop was not yet waited for, or was.                     *)
IsStopped(t) == mode[t] \in {"stopped", "seen"}

(* PTRACE_DETACH without a signal: the thread goes on as if it had not been*)
(* stopped.                                                                *)
Detach(detached) ==
  /\ mode' = [t \in Thread |-> IF t \in detached THEN "free" ELSE mode[t]]
  /\ UNCHANGED xochitl

(* The probe ends: whatever it has not detached is let go, and gets the    *)
(* signal that it was stopped by.                                          *)
Exit(detached) ==
  LET left == {t \in Thread \ detached : IsStopped(t)}
  IN  /\ tool' = "ended"
      /\ mode' = [t \in Thread |-> IF mode[t] \in {"gone", "ended"} THEN "gone" ELSE "free"]
      /\ xochitl' = IF \E t \in left : signal[t] = "SIGTRAP" THEN "killed"
                    ELSE IF \E t \in left : signal[t] = "SIGSTOP" THEN "halted" ELSE xochitl

(* A call that fails for a reason of its own.                              *)
Fails == failures < MaxFailures /\ failures' = failures + 1 /\ failed' = TRUE
Abort == Fails /\ Exit({}) /\ UNCHANGED <<probe, work, stopRequested, signals, place, signal, pendingStop>>

(* A probe waits for one thread. A signal interrupts the stroke trace.     *)
Interrupted ==
  /\ probe = "stroke trace" /\ signals < MaxSignals
  /\ signals' = signals + 1 /\ stopRequested' = TRUE

-----------------------------------------------------------------------------
(* The threads of Xochitl.                                                 *)

Runs(t) == mode[t] \in {"running", "stepping"} \/ (mode[t] = "free" /\ xochitl = "alive")
Xochitl == UNCHANGED <<probe, tool, work, flags, words>>

ComeToBreakpoint(t) ==
  /\ Runs(t) /\ place[t] = Elsewhere
  /\ \E b \in Breakpoint : place' = [place EXCEPT ![t] = b]
  /\ UNCHANGED <<mode, signal, pendingStop, xochitl>> /\ Xochitl

HitBreakpoint(t) ==
  /\ Runs(t) /\ place[t] # Elsewhere /\ words[place[t]] = "patched"
  /\ IF mode[t] = "free" THEN xochitl' = "killed" /\ UNCHANGED <<mode, signal>>
     ELSE /\ mode' = [mode EXCEPT ![t] = "stopped"]
          /\ signal' = [signal EXCEPT ![t] = "SIGTRAP"] /\ UNCHANGED xochitl
  /\ UNCHANGED <<place, pendingStop>> /\ Xochitl

(* A thread that was told to step is stopped after it.                     *)
PassInstruction(t) ==
  /\ Runs(t) /\ place[t] # Elsewhere /\ words[place[t]] = "original"
  /\ place' = [place EXCEPT ![t] = Elsewhere]
  /\ IF mode[t] = "stepping"
     THEN mode' = [mode EXCEPT ![t] = "stopped"] /\ signal' = [signal EXCEPT ![t] = "SIGTRAP"]
     ELSE UNCHANGED <<mode, signal>>
  /\ UNCHANGED <<pendingStop, xochitl>> /\ Xochitl

TakeStop(t) ==
  /\ Runs(t) /\ t \in pendingStop /\ pendingStop' = pendingStop \ {t}
  /\ IF mode[t] = "free" THEN xochitl' = "halted" /\ UNCHANGED <<mode, signal>>
     ELSE /\ mode' = [mode EXCEPT ![t] = "stopped"]
          /\ signal' = [signal EXCEPT ![t] = "SIGSTOP"] /\ UNCHANGED xochitl
  /\ UNCHANGED place /\ Xochitl

(* A thread that is traced has ended when its tracer was told.             *)
EndThread(t) ==
  /\ Runs(t) /\ t # Main /\ place[t] = Elsewhere
  /\ mode' = [mode EXCEPT ![t] = IF mode[t] = "free" THEN "gone" ELSE "ended"]
  /\ pendingStop' = pendingStop \ {t}
  /\ UNCHANGED <<place, signal, xochitl>> /\ Xochitl

-----------------------------------------------------------------------------
(* The probe.                                                              *)

(* attach_threads: each is stopped in turn. If one cannot be attached, the *)
(* others are detached; if it has ended since, they are not.               *)
AttachThread ==
  /\ tool = "attach"
  /\ LET left == {t \in Thread \ known : mode[t] # "gone"}
     IN  \/ /\ left # {}
            /\ known' = known \cup {Min(left)}
            /\ mode' = [mode EXCEPT ![Min(left)] = "seen"]
            /\ signal' = [signal EXCEPT ![Min(left)] = "SIGSTOP"]
            /\ UNCHANGED <<tool, failures, failed, xochitl>>
         \/ /\ left = {} /\ tool' = "install"
            /\ UNCHANGED <<known, mode, signal, failures, failed, xochitl>>
         \/ Fails /\ Exit(known) /\ UNCHANGED <<known, signal>>
         \/ Fails /\ Exit({}) /\ UNCHANGED <<known, signal>>
  /\ UNCHANGED <<probe, current, hit, todo, stopped, recorded, stopRequested, signals, words, place, pendingStop>>

(* install_breakpoints patches one word after the other.                   *)
InstallBreakpoints ==
  /\ tool = "install"
  /\ \/ /\ tool' = "open" /\ words' = [b \in Breakpoint |-> IF b \in Patched THEN "patched" ELSE "original"]
        /\ UNCHANGED <<probe, work, flags, threads, xochitl>>
     \/ /\ Abort
        /\ \E n \in Patched : words' = [b \in Breakpoint |-> IF b \in Patched /\ b < n THEN "patched" ELSE "original"]

(* The files of the trace are opened, and the threads continued.           *)
ContinueThreads ==
  /\ tool = "open"
  /\ \/ /\ tool' = "loop" /\ mode' = [t \in Thread |-> IF t \in known THEN "running" ELSE mode[t]]
        /\ UNCHANGED <<probe, work, flags, words, place, signal, pendingStop, xochitl>>
     \/ Abort /\ UNCHANGED words

(* The end of a capture: every thread will be stopped.                     *)
Finish(tellsOfError) == tool' = "stop" /\ todo' = known /\ failed' = (failed \/ tellsOfError)

HasRecorded == probe = "counting" /\ recorded >= Requested
IsFinished  == stopRequested \/ HasRecorded
CheckWhetherFinished ==
  /\ tool = "loop"
  /\ IF IsFinished THEN Finish(FALSE) ELSE tool' = "wait" /\ UNCHANGED <<todo, failed>>
  /\ UNCHANGED <<probe, known, current, hit, stopped, recorded, stopRequested, signals, failures, words, threads, xochitl>>

(* waitpid returns the stop or the end of any thread, or a signal came.    *)
WaitForAny ==
  /\ tool = "wait"
  /\ \/ \E t \in known : /\ mode[t] = "stopped" /\ mode' = [mode EXCEPT ![t] = "seen"]
                         /\ current' = t /\ hit' = place[t] /\ tool' = "record"
                         /\ UNCHANGED <<known, stopRequested, signals>>
     \/ \E t \in known : /\ mode[t] = "ended" /\ mode' = [mode EXCEPT ![t] = "gone"]
                         /\ known' = known \ {t} /\ tool' = "loop" /\ UNCHANGED <<current, hit, stopRequested, signals>>
     \/ Interrupted /\ tool' = "loop" /\ UNCHANGED <<mode, known, current, hit>>
  /\ UNCHANGED <<probe, todo, stopped, recorded, failures, failed, words, place, signal, pendingStop, xochitl>>

(* write_event reads Xochitl's memory and writes what it finds.            *)
Record ==
  /\ tool = "record"
  /\ \/ /\ tool' = "lift" /\ recorded' = (IF probe = "counting" THEN recorded + 1 ELSE recorded)
        /\ UNCHANGED <<todo, failures, failed>>
     \/ Fails /\ Finish(TRUE) /\ UNCHANGED recorded
  /\ UNCHANGED <<probe, known, current, hit, stopped, stopRequested, signals, words, threads, xochitl>>

Poke(b, word) == words' = [words EXCEPT ![b] = word]

LiftBreakpoint ==
  /\ tool = "lift" /\ tool' = "step" /\ Poke(hit, "original")
  /\ UNCHANGED <<probe, work, flags, threads, xochitl>>

SingleStep ==
  /\ tool = "step" /\ tool' = "stepped" /\ mode' = [mode EXCEPT ![current] = "stepping"]
  /\ UNCHANGED <<probe, work, flags, words, place, signal, pendingStop, xochitl>>

ForgetToReplace == \* a mutant: the breakpoint is hit once
  /\ tool = "replace" /\ tool' = "continue"
  /\ UNCHANGED <<probe, work, flags, words, threads, xochitl>>
WaitForStep ==
  /\ tool = "stepped"
  /\ \/ /\ mode[current] = "stopped" /\ mode' = [mode EXCEPT ![current] = "seen"]
        /\ tool' = "replace" /\ UNCHANGED <<todo, failed, stopRequested, signals>>
     \/ Interrupted /\ Finish(TRUE) /\ UNCHANGED mode
  /\ UNCHANGED <<probe, known, current, hit, stopped, recorded, failures, words, place, signal, pendingStop, xochitl>>

(* The breakpoint is put back, unless a counting probe has what it wants.  *)
ReplaceBreakpoint ==
  /\ tool = "replace" /\ tool' = "continue"
  /\ IF HasRecorded THEN UNCHANGED words ELSE Poke(hit, "patched")
  /\ UNCHANGED <<probe, work, flags, threads, xochitl>>

ContinueThread ==
  /\ tool = "continue" /\ tool' = "loop" /\ mode' = [mode EXCEPT ![current] = "running"]
  /\ UNCHANGED <<probe, work, flags, words, place, signal, pendingStop, xochitl>>

(* Every thread is sent a SIGSTOP and waited for, one after the other. What*)
(* it stops for may be a breakpoint; then the SIGSTOP is still to come. A  *)
(* thread that was stopped before is waited for in vain.                   *)
StopThread ==
  /\ tool = "stop"
  /\ IF todo = {} THEN tool' = "restore" /\ UNCHANGED <<current, pendingStop>>
     ELSE /\ tool' = "stopping" /\ current' = Min(todo)
          /\ pendingStop' = IF mode[current'] = "ended" THEN pendingStop ELSE pendingStop \cup {current'}
  /\ UNCHANGED <<probe, known, hit, todo, stopped, recorded, flags, words, place, mode, signal, xochitl>>

WaitForStop ==
  /\ tool = "stopping"
  /\ \/ /\ mode[current] = "stopped" /\ mode' = [mode EXCEPT ![current] = "seen"]
        /\ stopped' = stopped \cup {current} /\ todo' = todo \ {current} /\ tool' = "stop"
        /\ UNCHANGED <<failed, stopRequested, signals>>
     \/ /\ mode[current] = "ended" /\ mode' = [mode EXCEPT ![current] = "gone"]
        /\ IF probe = "stroke trace"
           THEN tool' = "restore" /\ failed' = TRUE /\ UNCHANGED todo
           ELSE tool' = "stop" /\ todo' = todo \ {current} /\ UNCHANGED failed
        /\ UNCHANGED <<stopped, stopRequested, signals>>
     \/ /\ Interrupted /\ tool' = "restore" /\ failed' = TRUE /\ UNCHANGED <<mode, stopped, todo>>
  /\ UNCHANGED <<probe, known, current, hit, recorded, failures, words, place, signal, pendingStop, xochitl>>

(* restore_breakpoints_and_detach: the first thread, if it is stopped,     *)
(* gives access to the words; then each is detached, up to one that is not *)
(* stopped.                                                                *)
RestoreAndDetach ==
  /\ tool = "restore" /\ probe = "stroke trace"
  /\ LET running  == {t \in known : ~IsStopped(t)}
         detached == {t \in known : \A r \in running : t < r}
     IN  IF ~IsStopped(Min(known)) THEN Exit({}) /\ failed' = TRUE /\ UNCHANGED words
         ELSE /\ words' = Original
              /\ IF running = {} THEN Detach(known) /\ tool' = "ended" /\ UNCHANGED failed
                 ELSE Exit(detached) /\ failed' = TRUE
  /\ UNCHANGED <<probe, work, stopRequested, signals, failures, place, signal, pendingStop>>

(* restore_instruction_and_detach does so for the threads that have stopped*)
RestoreInstructionAndDetach ==
  /\ tool = "restore" /\ probe = "counting"
  /\ IF stopped = {} THEN Exit({}) /\ failed' = TRUE /\ UNCHANGED words
     ELSE /\ words' = Original /\ Detach(stopped) /\ tool' = "ended" /\ UNCHANGED failed
  /\ UNCHANGED <<probe, work, stopRequested, signals, failures, place, signal, pendingStop>>

(* A signal stops the stroke trace while it does not wait, too; and it ends*)
(* a counting probe wherever it is.                                        *)
Signal ==
  /\ tool # "ended"
  /\ IF probe = "stroke trace" THEN Interrupted /\ UNCHANGED <<tool, failed, mode, xochitl>>
     ELSE Exit({}) /\ failed' = TRUE /\ UNCHANGED <<stopRequested, signals>>
  /\ UNCHANGED <<probe, work, failures, words, place, signal, pendingStop>>

Next ==
  \/ \E t \in Thread : \/ ComeToBreakpoint(t) \/ HitBreakpoint(t) \/ PassInstruction(t)
                       \/ TakeStop(t) \/ EndThread(t)
  \/ AttachThread \/ InstallBreakpoints \/ ContinueThreads
  \/ CheckWhetherFinished \/ WaitForAny \/ Record
  \/ LiftBreakpoint \/ SingleStep \/ WaitForStep \/ ReplaceBreakpoint \/ ContinueThread
  \/ StopThread \/ WaitForStop \/ RestoreAndDetach \/ RestoreInstructionAndDetach
  \/ Signal

Spec == Init /\ [][Next]_vars

-----------------------------------------------------------------------------
(* Properties.                                                             *)

(* Whoever reports a complete capture has restored every instruction, and  *)
(* has let go of all threads: none of them is killed by a breakpoint, not  *)
(* even one that had just hit it.                                          *)
CompleteCaptureRestoresXochitl ==
  tool = "ended" /\ ~failed =>
    /\ words = Original /\ xochitl # "killed"
    /\ \A t \in Thread : mode[t] \in {"free", "gone"}

(* During a capture a thread passes an instruction that is to be observed  *)
(* without being recorded only while another thread steps over the same    *)
(* one: that is the price of patching the code that they share.            *)
IsCapturing == /\ tool \in {"loop", "wait", "record", "lift", "step", "stepped", "replace", "continue"}
               /\ ~HasRecorded
IsSteppingOver(b) == tool \in {"step", "stepped", "replace"} /\ hit = b
OnlySteppingHidesHits ==
  [][\A t \in known : \A b \in Patched :
       IsCapturing /\ place[t] = b /\ place'[t] = Elsewhere => IsSteppingOver(b)]_vars
=============================================================================
