----------------------------- MODULE MCEventBus -----------------------------
(* Instances of EventBus for TLC: the jobs are built from model values.    *)
EXTENDS EventBus

CONSTANTS p1, w1, w2, h1, h2

MCClients == {p1}
MCWorkers == {w1, w2}
MCPublishers == {p1, w1}
MCHandlers == {h1, h2}
MCJobs == MCPublishers \X MCHandlers
=============================================================================
