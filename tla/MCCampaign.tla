----------------------------- MODULE MCCampaign -----------------------------
(* The campaign on small instances.                                        *)
EXTENDS Campaign

\* Finite campaigns with all that ends or disturbs them, and continuous ones,
\* which only a stop or a failure ends; one of these is polled.
MCModes == {{"provider", "idle_stop", "quarantine", "crash", "teardown"},
            {"continuous", "provider", "benchmark", "crash", "teardown"},
            {"continuous", "poll"}}
=============================================================================
