------------------------------ MODULE PluginRun ------------------------------
(***************************************************************************)
(* What one plugin process lifetime promises its supervisor (run_once in   *)
(* src-tauri/src/plugin_host/process.rs): it spawns, shakes hands, serves, *)
(* closes only when asked to, and whichever way it ends its process is     *)
(* down.  PluginSession implements it in detail, and every supervisor of   *)
(* PluginLifecycle runs it over and over.                                  *)
(***************************************************************************)

VARIABLES
    run,    \* where the lifetime is
    up,     \* the process is up
    asked   \* a stop was requested: Shutdown, or the command channel closed

vars == <<run, up, asked>>

TypeOK ==
    /\ run \in {"between", "spawning", "handshake", "serving", "closing",
                "clean", "crashed"}
    /\ up \in BOOLEAN
    /\ asked \in BOOLEAN

Init == run \in {"between", "spawning"} /\ ~up /\ ~asked

Begin ==
    /\ run = "between"
    /\ run' = "spawning"
    /\ UNCHANGED <<up, asked>>

Spawn ==
    /\ run = "spawning"
    /\ \/ run' = "handshake" /\ up' = TRUE
       \/ run' = "crashed" /\ up' = FALSE
    /\ UNCHANGED asked

(* A process that stops by itself is only noticed later. *)
Dies ==
    /\ run \in {"handshake", "serving", "closing"}
    /\ up /\ up' = FALSE
    /\ UNCHANGED <<run, asked>>

EndHandshake ==
    /\ run = "handshake"
    /\ \/ run' = "serving" /\ UNCHANGED up
       \/ run' = "crashed" /\ up' = FALSE
    /\ UNCHANGED asked

Ask ==
    /\ run \in {"serving", "closing"}
    /\ asked' = TRUE
    /\ UNCHANGED <<run, up>>

(* A stop that was asked for and not heard yet ends with the lifetime. *)
Crash ==
    /\ run = "serving"
    /\ run' = "crashed"
    /\ up' = FALSE
    /\ asked' = FALSE

Close ==
    /\ run = "serving"
    /\ asked
    /\ run' = "closing"
    /\ UNCHANGED <<up, asked>>

FinishClosing ==
    /\ run = "closing"
    /\ run' = "clean"
    /\ up' = FALSE
    /\ asked' = FALSE

Return ==
    /\ run \in {"clean", "crashed"}
    /\ run' = "between"
    /\ UNCHANGED <<up, asked>>

Next ==
    \/ Begin \/ Spawn \/ Dies \/ EndHandshake \/ Ask \/ Crash \/ Close
    \/ FinishClosing \/ Return

Spec == Init /\ [][Next]_vars

(* Nothing but serving lasts, and serving ends once it is asked to. *)
StopServing == Close \/ (asked /\ Crash)

Fairness ==
    /\ WF_vars(Spawn)
    /\ WF_vars(EndHandshake)
    /\ WF_vars(StopServing)
    /\ WF_vars(FinishClosing)

FairSpec == Spec /\ Fairness

=============================================================================
