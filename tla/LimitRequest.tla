---------------------------- MODULE LimitRequest ----------------------------
(***************************************************************************)
(* The request slot that a drop-copy stream and an order-entry stream      *)
(* share: core::limit::Request, a class of the framework whose source is   *)
(* not part of the repository.  It is modelled from its uses:              *)
(*                                                                         *)
(*   drop copy     request(), has_response()                               *)
(*   order entry   check_pending(callback), commit()                       *)
(*   Request       ready(), asked by check_pending before the callback     *)
(*                                                                         *)
(* A slot is a record                                                      *)
(*   pending  -- request() was called and no callback has taken it yet     *)
(*   waiting  -- a callback took it and commit() has not been called yet   *)
(*   answered -- commit() was the last thing that happened to a request    *)
(***************************************************************************)

Slot == [pending : BOOLEAN, waiting : BOOLEAN, answered : BOOLEAN]

\* A slot nobody has used.
NewSlot == [pending |-> FALSE, waiting |-> FALSE, answered |-> FALSE]

\* request(): a request made while an earlier one is being served is kept
\* until that one has been committed.
Requested(slot) == [slot EXCEPT !.pending = TRUE, !.answered = FALSE]

\* check_pending() calls back: the request is taken and is now being served.
Taken(slot) == [pending |-> FALSE, waiting |-> TRUE, answered |-> FALSE]

\* commit(): the request being served has been answered.
Committed(slot) == [slot EXCEPT !.waiting = FALSE, !.answered = TRUE]

\* has_response(): everything that was requested has been answered.
HasResponse(slot) == slot.answered /\ ~slot.pending

\* ready(): nothing is being served.
IsReady(slot) == ~slot.waiting
=============================================================================
