---------------------------- MODULE MCPageJournal ----------------------------
(* Small instances of PageJournal: an owner and a guest, one stroke that   *)
(* was on the page when it was shared, and a handful of commands.          *)
EXTENDS PageJournal, TLC

CONSTANTS b, r1, r2
MCRootId   == {b, r1, r2}
NewStrokes == Permutations({r1, r2})

MCOwner    == "owner"
MCBaseline == <<[id |-> OriginalId(b), author |-> "owner", points |-> <<1, 2>>]>>
MCBatch    == {<<1, 2>>}
MCRegion   == {{1}, {1, 2}}

(* Strokes that an eraser splits in two.                                   *)
SplitBaseline == <<[id |-> OriginalId(b), author |-> "owner", points |-> <<1, 2, 1>>]>>
SplitBatch    == {<<1, 2, 1>>, <<2>>}
SplitRegion   == {{2}}

(* Command ids are only compared for equality: the next unused one will    *)
(* do, and the latest one, which is then delivered again. The number of    *)
(* commands is the bound of the instance.                                  *)
CONSTANT MaxCommands
MCNext ==
  LET n == Cardinality(DOMAIN commands)
  IN  /\ n < MaxCommands
      /\ \E p \in Participant, c \in {n, n + 1} \ {0} : Submit(p, c)
MCSpec == Init /\ [][MCNext]_vars
=============================================================================
