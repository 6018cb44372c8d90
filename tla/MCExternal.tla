----------------------------- MODULE MCExternal -----------------------------
(* Small instances of the external supervisor.                             *)
EXTENDS External
CONSTANTS i1, i2
MCInputs == {i1, i2}

\* What may go wrong together.
MCScenarios == {{"crash", "power", "disk", "rot", "restart"}, {"parent", "campaign_ms"},
                {"stuck", "slow", "build"}, {"native", "launcher"}, {"late", "restart"},
                {"bad_frame"}, {"replay"}}
\* Nothing but what the target does to its VM.
MCNone == {{}}
=============================================================================
