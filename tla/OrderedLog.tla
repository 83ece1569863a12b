------------------------------ MODULE OrderedLog ------------------------------
(***************************************************************************)
(* What the page relay promises to the clients that are joined to a share: *)
(* there is one sequence of applied commands, every command is in it at    *)
(* most once, and what a client shows is a prefix of it that only grows    *)
(* while the client stays joined. A restart may take back commands that    *)
(* are not durable and finish what was left unfinished, when nobody is     *)
(* joined; the durable ones stay, in their order.                          *)
(***************************************************************************)
EXTENDS Sequences, SequencesExt

CONSTANTS Client, Command, Durable(_)

VARIABLES
  log,               \* the applied commands, in the order of their revisions
  view               \* what each client shows: {} unless it is joined

vars == <<log, view>>

Init == log = <<>> /\ view = [c \in Client |-> {<<>>}]

Apply ==
  /\ IsStrictPrefix(log, log')
  /\ Range(log') \subseteq Command
  /\ IsInjective(log')
  /\ UNCHANGED view

Show(c) ==
  /\ \E n \in 0 .. Len(log) : /\ view' = [view EXCEPT ![c] = {SubSeq(log, 1, n)}]
                              /\ \A v \in view[c] : Len(v) <= n
  /\ UNCHANGED log

Part(c) == view' = [view EXCEPT ![c] = {}] /\ UNCHANGED log

(* Every durable command of l is in m, behind the same durable commands.   *)
DurableBefore(l, j) == {l[i] : i \in {h \in 1 .. j - 1 : Durable(l[h])}}
KeepsDurable(l, m)  ==
  \A j \in DOMAIN l : Durable(l[j]) =>
    \E k \in DOMAIN m : m[k] = l[j] /\ DurableBefore(m, k) = DurableBefore(l, j)

Restart ==
  /\ view' = [c \in Client |-> {}]
  /\ Range(log') \subseteq Command
  /\ IsInjective(log')
  /\ KeepsDurable(log, log')

Next == Apply \/ Restart \/ \E c \in Client : Show(c) \/ Part(c)
Spec == Init /\ [][Next]_vars
=============================================================================
