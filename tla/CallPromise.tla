---------------------------- MODULE CallPromise ----------------------------
(***************************************************************************)
(* What a call of the generated client promises, whatever happens to its    *)
(* connections: docs/clients.md ("Opt-in request retries" and "Errors on    *)
(* the client") as a state machine. The server executes a call some number  *)
(* of times, the caller sees one outcome.                                   *)
(***************************************************************************)
EXTENDS Naturals

CONSTANTS Calls,         \* logical calls made by the application
          Idempotent,    \* those whose route is declared idempotent
          RetryAttempts  \* retry_attempts of connect(...)

VARIABLES executed,      \* how often the server executed each call
          outcome        \* what the caller saw; "open" while it waits

pvars == <<executed, outcome>>

(* A result or a remote error, RpcConnectionLostError(sent=False / True), a   *)
(* timeout, a connect error, a broken protocol, the error of a middleware,    *)
(* and the caller's own deadline or cancellation                              *)
Outcome == {"answer", "unsent", "sent", "timeout", "connect", "broken", "hook",
            "abandoned"}

PromiseInit ==
    /\ executed = [c \in Calls |-> 0]
    /\ outcome = [c \in Calls |-> "open"]

(* At most once unless the route is idempotent, and then once per attempt; *)
(* a call that was reported as never sent is not executed afterwards.      *)
MayExecute(c) ==
    IF c \in Idempotent THEN executed[c] <= RetryAttempts
                        ELSE executed[c] = 0 /\ outcome[c] # "unsent"

Execute(c) ==
    /\ MayExecute(c)
    /\ executed' = [executed EXCEPT ![c] = @ + 1]
    /\ UNCHANGED outcome

(* One outcome, never revised. An answer means the server executed the call; *)
(* "unsent" means that it did not.                                           *)
Settle(c, o) ==
    /\ outcome[c] = "open"
    /\ o = "answer" => executed[c] > 0
    /\ (o = "unsent" /\ c \notin Idempotent) => executed[c] = 0
    /\ outcome' = [outcome EXCEPT ![c] = o]
    /\ UNCHANGED executed

PromiseNext == \E c \in Calls : Execute(c) \/ \E o \in Outcome : Settle(c, o)

PromiseSpec == PromiseInit /\ [][PromiseNext]_pvars
=============================================================================
