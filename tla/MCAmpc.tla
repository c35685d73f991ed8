------------------------------- MODULE MCAmpc -------------------------------
(* Instances of Ampc for TLC.                                              *)
EXTENDS Ampc

CONSTANTS a, b, c

TwoJobs == <<a, b>>
ThreeJobs == <<a, b, c>>

\* Every worker may take every job.
AnyTwo == {a, b} \X {0, 1}

\* One shard has two replicas, the other has one.
Sharded == {<<a, 0>>, <<a, 2>>, <<b, 1>>, <<c, 0>>, <<c, 2>>}

=============================================================================
