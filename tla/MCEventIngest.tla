---------------------------- MODULE MCEventIngest ----------------------------
(***************************************************************************)
(* Instances of EventIngest for TLC: the kinds of events each run mixes.   *)
(***************************************************************************)
EXTENDS EventIngest, TLC

\* A run that succeeds or fails, one step, and an event outside the catalogue.
MCOverlapKinds == {"running", "succeeded", "failed", "run.step.started",
                   "run.step.completed", "refused"}

\* For one request at a time: a run that starts, works, is held up and ends, and an
\* event outside the catalogue.
MCSerialKinds == {"starting", "running", "blocked", "succeeded", "refused"}

Symmetry == Permutations(Sessions)

=============================================================================
