---------------------------- MODULE ActionService ----------------------------
(***************************************************************************)
(* What the gateway promises the clients about their order actions: an     *)
(* action is refused at once, or it is answered once, and an answer that   *)
(* says what became of it is true.  Where nobody knows, the answer says    *)
(* so.                                                                     *)
(***************************************************************************)
CONSTANTS
    Action,   \* everything that clients may ask for
    Unknown   \* the answers that leave open what became of an action

VARIABLES
    state,  \* of an action: "none", "open", "thrown", or its answer
    done    \* the actions the exchange has carried out

vars == <<state, done>>

Known == {"ACCEPTED", "REFUSED"}

Init ==
    /\ state = [action \in Action |-> "none"]
    /\ done = {}

Becomes(action, next) == state' = [state EXCEPT ![action] = next]

\* An action is sent on to the exchange.
Open(action) ==
    /\ state[action] = "none"
    /\ Becomes(action, "open")
    /\ UNCHANGED done

\* It is refused, the exchange never hears of it.
Throw(action) ==
    /\ state[action] = "none"
    /\ Becomes(action, "thrown")
    /\ UNCHANGED done

\* The exchange carries it out, perhaps when the client has been told that
\* nobody knows.
Do(action) ==
    /\ state[action] \in {"open"} \union Unknown
    /\ done' = done \union {action}
    /\ UNCHANGED state

Answer(action, answer) ==
    /\ state[action] = "open"
    /\ answer = "ACCEPTED" => action \in done
    /\ answer = "REFUSED" => action \notin done
    /\ Becomes(action, answer)
    /\ UNCHANGED done

Next ==
    \E action \in Action :
        \/ Open(action)
        \/ Throw(action)
        \/ Do(action)
        \/ \E answer \in Known \union Unknown : Answer(action, answer)

Spec == Init /\ [][Next]_vars

\* Every action that was sent on is answered.
Fairness ==
    \A action \in Action :
        WF_vars(\E answer \in Known \union Unknown : Answer(action, answer))

LiveSpec == Spec /\ Fairness
=============================================================================
