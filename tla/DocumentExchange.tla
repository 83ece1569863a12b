--------------------------- MODULE DocumentExchange ----------------------------
(***************************************************************************)
(* The mailbox between the Telegram bot and the tablet: a directory of     *)
(* request files and one of response files, both named by the request id.  *)
(* (DocumentExchange of document/exchange.rs)                              *)
(*                                                                         *)
(* A file appears and disappears at once (write_bytes_atomically renames). *)
(* Each operator is one call, or the half of one that a crash can separate *)
(* from the other; who calls what, and when, is TelegramBot.               *)
(***************************************************************************)
EXTENDS Integers, Functions

VARIABLES
  requests,            \* request id -> operation
  responses            \* request id -> result

mailbox == <<requests, responses>>

EmptyMailbox == requests = <<>> /\ responses = <<>>

Write(files, id, content) ==
  [x \in DOMAIN files \cup {id} |-> IF x = id THEN content ELSE files[x]]
Remove(files, id) == Restrict(files, DOMAIN files \ {id})

(* A request that waits for its answer can be submitted again as it is, and*)
(* not with another operation under its id.                                *)
IsConflict(id, operation) == id \in DOMAIN requests /\ requests[id] # operation

(* A request that has its answer already is not submitted again, whatever  *)
(* the operation.                                                          *)
Submit(id, operation) ==
  /\ ~IsConflict(id, operation)
  /\ requests' = IF id \in DOMAIN requests \cup DOMAIN responses THEN requests
                                                                 ELSE Write(requests, id, operation)
  /\ UNCHANGED responses

IsOldestPending(id) == id \in DOMAIN requests /\ \A other \in DOMAIN requests : id <= other

(* complete: first the response, then the removal of the request.          *)
Respond(id, result) == responses' = Write(responses, id, result) /\ UNCHANGED requests
RemoveRequest(id)   == requests' = Remove(requests, id) /\ UNCHANGED responses

TakeResponse(id, result) ==
  /\ id \in DOMAIN responses /\ result = responses[id]
  /\ responses' = Remove(responses, id)
  /\ UNCHANGED requests
=============================================================================
