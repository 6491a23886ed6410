------------------------------ MODULE Throttle ------------------------------
(***************************************************************************)
(* tools::Throttle, the interceptor that reads the rate-limit headers of   *)
(* every HTTP response and tells the clients until when to hold back.      *)
(*                                                                         *)
(* All REST connections share one instance, and with it the place where    *)
(* the headers of the current response are kept.  Responses are parsed as  *)
(* their bytes arrive, so that of one connection may begin while another's *)
(* is not yet complete.                                                    *)
(*                                                                         *)
(* Time is counted in seconds.  A header is a number of seconds and is     *)
(* kept as such, where retry_after_ is a point in time: it is long past    *)
(* when it is announced.  0 stands for an absent header, which is the      *)
(* value an absent header has in the comparison.                           *)
(***************************************************************************)
EXTENDS Naturals

CONSTANTS
    Client,          \* the REST connections
    HeaderValue,     \* values of X-RateLimit-Retry-After that are seen
    DefaultBackoff,  \* DEFAULT_BACKOFF
    Start,           \* what the clock says at first
    MaxTime          \* bound of the clock

\* The clock counts from 1970.
ASSUME ThrottleAssumption ==
    /\ Start \in Nat \ {0}
    /\ MaxTime \in Nat
    /\ Start <= MaxTime
    /\ HeaderValue \subseteq 1 .. Start
    /\ DefaultBackoff \in Nat \ {0}

VARIABLES
    now,                   \* the clock
    parsing,               \* the connections in the middle of a response
    global,                \* global_.retry_after
    contract,              \* contract_.retry_after
    retry_after,           \* retry_after_
    retry_after_contract   \* retry_after_contract_

vars == <<now, parsing, global, contract, retry_after, retry_after_contract>>

Later(a, b) == IF a > b THEN a ELSE b

Init ==
    /\ now = Start
    /\ parsing = {}
    /\ global = 0
    /\ contract = 0
    /\ retry_after = 0
    /\ retry_after_contract = 0

Tick ==
    /\ now < MaxTime
    /\ now' = now + 1
    /\ UNCHANGED <<parsing, global, contract, retry_after, retry_after_contract>>

MessageBegin(c) ==
    /\ c \notin parsing
    /\ parsing' = parsing \union {c}
    /\ global' = 0
    /\ contract' = 0
    /\ UNCHANGED <<now, retry_after, retry_after_contract>>

\* A header of the global group or of the contract group.
MessageHeader(c, value) ==
    /\ c \in parsing
    /\ \/ global' = value /\ UNCHANGED contract
       \/ contract' = value /\ UNCHANGED global
    /\ UNCHANGED <<now, parsing, retry_after, retry_after_contract>>

\* Mutant: a header is rounded up.
WithHeaderRounded(old, header) == Later(old, header + 1)

\* A header only ever extends the back-off.
WithHeader(old, header) == Later(old, header)

\* Mutant: the default back-off is added to the one there was before.
WithDefaultAdded(time) == IF time = 0 THEN now + DefaultBackoff ELSE time + DefaultBackoff

\* The default back-off applies when there was none before.
WithDefault(time) == IF time = 0 THEN now + DefaultBackoff ELSE time

\* MessageEnd with the throttle enabled; when it is disabled nothing changes.
MessageEnd(c, too_many) ==
    /\ c \in parsing
    /\ parsing' = parsing \ {c}
    /\ LET after == WithHeader(retry_after, global)
       IN  retry_after' = IF too_many THEN WithDefault(after) ELSE after
    /\ retry_after_contract' = WithHeader(retry_after_contract, contract)
    /\ UNCHANGED <<now, global, contract>>

Next ==
    \/ Tick
    \/ \E c \in Client :
          \/ MessageBegin(c)
          \/ \E value \in HeaderValue : MessageHeader(c, value)
          \/ \E too_many \in BOOLEAN : MessageEnd(c, too_many)

Spec == Init /\ [][Next]_vars

-----------------------------------------------------------------------------
TypeOK ==
    /\ now \in Start .. MaxTime
    /\ parsing \subseteq Client
    /\ global \in HeaderValue \union {0}
    /\ contract \in HeaderValue \union {0}
    /\ retry_after \in Nat
    /\ retry_after_contract \in HeaderValue \union {0}

\* Clients are never told to hold back for longer than DEFAULT_BACKOFF, however
\* many responses say 429 and whatever headers they carry, also when responses
\* overlap and take each other's headers (throttle.cpp:86-89, 131-157).
BackoffBounded == retry_after <= now + DefaultBackoff

\* throttle.cpp:146 says of a 429 "global => soft backoff on all": when it has
\* been processed the time until which the clients hold back is ahead.
BackoffAfterTooMany ==
    [][\A c \in Client : MessageEnd(c, TRUE) => retry_after' > now]_vars
=============================================================================
