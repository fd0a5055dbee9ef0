-------------------------- MODULE MCMigrationGroups --------------------------
(* TLC instance of MigrationGroups: two VMs, run one or two at a time. *)
EXTENDS MigrationGroups

\* Two requests on a sequential group or one on a parallel one; a restart with a
\* request, or with late done-callbacks (GroupsDouble adds a request to those); a
\* job that leaves its row pending, which only the timeout ends.
MCOptions ==
    {o \in [concurrency: {1, 2}, continueOnError: BOOLEAN, requests: 0..2, restarts: 0..1,
            timeouts: BOOLEAN, stuck: BOOLEAN, lag: BOOLEAN] :
        /\ o.stuck <=> o.timeouts
        /\ ~(o.timeouts /\ o.lag)
        /\ <<o.requests, o.restarts, o.concurrency>> \in
             IF o.lag THEN {<<0, 1, 1>>}
             ELSE IF o.timeouts THEN {<<1, 0, 1>>, <<0, 1, 2>>}
             ELSE {<<2, 0, 1>>, <<1, 0, 2>>, <<1, 1, 1>>}
        /\ o.continueOnError \/ (~o.lag /\ o.restarts = 0)}

\* One request, at any moment between the end of a runner and its callback.
LaggingOptions ==
    {[concurrency |-> 1, continueOnError |-> TRUE, requests |-> 1, restarts |-> 0,
      timeouts |-> FALSE, stuck |-> FALSE, lag |-> TRUE]}
\* Cancel, then run-now.
PromptOptions ==
    {[concurrency |-> 1, continueOnError |-> TRUE, requests |-> 2, restarts |-> 0,
      timeouts |-> FALSE, stuck |-> FALSE, lag |-> FALSE]}
=============================================================================
