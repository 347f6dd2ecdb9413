---------------------------- MODULE MCRpcRuntime ----------------------------
(* A small instance of RpcRuntime: one id that is reused, a notification and an *)
(* invalid item, batches of two, and limits small enough to be hit.             *)
EXTENDS RpcRuntime

CONSTANT a, none

MCIds == {a}
MCItems == {[id |-> a, owes |-> TRUE, valid |-> TRUE],
            [id |-> none, owes |-> FALSE, valid |-> TRUE],
            [id |-> none, owes |-> TRUE, valid |-> FALSE]}
MCNotify == {[id |-> a, owes |-> TRUE, valid |-> TRUE],
             [id |-> none, owes |-> FALSE, valid |-> TRUE]}
MCInvalid == {[id |-> a, owes |-> TRUE, valid |-> TRUE],
              [id |-> none, owes |-> TRUE, valid |-> FALSE]}
MCRequest == {[id |-> a, owes |-> TRUE, valid |-> TRUE]}
=============================================================================
