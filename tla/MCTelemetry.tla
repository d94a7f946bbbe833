----------------------------- MODULE MCTelemetry -----------------------------
(* Instances of Telemetry for TLC.                                          *)
EXTENDS Telemetry, TLC

CONSTANTS v1, m1, m2, m3, m4

Reading(v, t) == [vehicle |-> v, recorded_at |-> t, kind |-> "ok"]

\* A reading published twice, a message that does not parse and one that can
\* never be stored.
MCBody ==
    m1 :> Reading(v1, 1) @@ m2 :> Reading(v1, 1)
        @@ m3 :> [Reading(v1, 2) EXCEPT !.kind = "malformed"]
        @@ m4 :> [Reading(v1, 3) EXCEPT !.kind = "unstorable"]
=============================================================================
