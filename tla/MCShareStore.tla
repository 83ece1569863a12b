---------------------------- MODULE MCShareStore -----------------------------
(* Small instances of ShareStore: an owner and a guest, two connections,   *)
(* and a handful of commands.                                              *)
EXTENDS ShareStore, TLC

CONSTANTS b, r1, k1, k2, MaxCommands
MCRootId   == {b, r1}
Symmetric  == Permutations({k1, k2})
MCBaseline == <<[id |-> OriginalId(b), author |-> "owner", points |-> <<1>>]>>
MCBatch    == {<<1>>}
MCRegion   == {{1}}

(* Command ids are only compared for equality: the first one that nothing  *)
(* remembers will do. Clients send at most MaxCommands that are remembered;*)
(* the relay's own commands are bounded by the strokes in progress.        *)
Remembered == DOMAIN commands \cup DOMAIN disk.commands
NextId     == CHOOSE c \in CommandId : c \notin Remembered /\
                \A d \in CommandId \ Remembered : c <= d

MCRelay == RelayStep \/ RelayCommand(NextId)
MCNext ==
  \/ Cardinality(Remembered) < MaxCommands /\ ClientCommand(NextId)
  \/ MCRelay \/ PeerStep \/ Restart
MCSpec == StoreInit /\ [][MCNext]_storeVars
=============================================================================
