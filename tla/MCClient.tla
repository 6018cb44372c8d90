------------------------------ MODULE MCClient ------------------------------
(* Instance for TLC: two threads, two or three calls of theirs, and close().   *)
EXTENDS Client

CONSTANTS t1, t2

MCThreads == {t1, t2}
\* One thread at most closes; the threads being alike, it is the first one. The
\* bounded calls are the others: await_result is called without a time, and a
\* mutation too where the pipe takes every frame at once.
OneShape ==
    /\ th[t2].stage = "user"
    /\ \A t \in MCThreads :
          \/ th[t].op = "await_result"
          \/ th[t].op = "mutate" /\ "slow_pipe" \notin faults
          => ~th[t].bounded
\* What goes wrong at the client's end (a pipe that takes parts of frames, a runtime
\* that is not EFZ's, a process that no signal ends), and what at the other end.
MCScenarios ==
    {{"slow_pipe", "foreign", "unkillable"}, {"crash", "job", "slow_close"}}
=============================================================================
