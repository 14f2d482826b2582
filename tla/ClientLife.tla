----------------------------- MODULE ClientLife -----------------------------
(***************************************************************************)
(* What a websocket client promises to doTheWork, which runs it, waits for *)
(* it and asks for its statistics.  Module TelemetryClient implements it,  *)
(* and module DoTheWork is built on it.                                    *)
(***************************************************************************)
EXTENDS Naturals

CONSTANT Total   \* messages to send

VARIABLES
  life,      \* created, idle, running, done, joined, crashed, terminated
  result     \* the statistics, once the threads have ended

(* The statistics a client can end with: a connection that never opened    *)
(* has no samples and its setup time is uninitialised.                     *)
Results ==
  {[type |-> "fail", count |-> 0, setup |-> "uninitialised"]}
    \cup [type : {"success"}, count : 0 .. Total, setup : {"measured"}]

Init == life = "created" /\ result = {}

(* run: with both threads started, or without any.                         *)
Run == life = "created" /\ life' \in {"running", "idle"} /\ UNCHANGED result

ThreadsEnd ==
  /\ life = "running" /\ life' = "done"
  /\ \E r \in Results : result' = {r}

(* close() throws in the telemetry thread.                                 *)
Terminate == life = "running" /\ life' = "terminated" /\ UNCHANGED result

Wait ==
  /\ life \in {"done", "idle"}
  /\ life' = IF life = "done" THEN "joined" ELSE "crashed"
  /\ UNCHANGED result

Next == Run \/ ThreadsEnd \/ Terminate \/ Wait

Spec == Init /\ [][Next]_<<life, result>>
=============================================================================
