----------------------------- MODULE MCTelemetry -----------------------------
(* Three applications, each of which exercises one part of the telemetry.  *)
EXTENDS Telemetry, TLC

CONSTANTS m1, m2

\* Two replica sets, one of them reached with a known virtual shard.
TwoRoutes == {[set |-> "a", node |-> "primary", shard |-> "none"],
              [set |-> "b", node |-> "replica-0", shard |-> "1"]}

\* setup: two meter providers, and batches observed at the same time.
\* queries: logical queries of up to two executions.
\* wrappers: store spans and logical queries of two meshes, which are not routed.
ThreePrograms ==
  [setup    |-> [meshes |-> {}, providers |-> {"first", "second"}, modes |-> {},
                 batches |-> Batches, maxProviders |-> 2, maxFanout |-> 0,
                 maxStoreSpans |-> 0, maxSpans |-> 0],
   queries  |-> [meshes |-> {m1}, providers |-> {}, modes |-> Modes, batches |-> {},
                 maxProviders |-> 0, maxFanout |-> 2, maxStoreSpans |-> 0, maxSpans |-> 4],
   wrappers |-> [meshes |-> {m1, m2}, providers |-> {}, modes |-> {}, batches |-> {},
                 maxProviders |-> 0, maxFanout |-> 0, maxStoreSpans |-> 3, maxSpans |-> 4]]
=============================================================================
