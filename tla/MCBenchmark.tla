---------------------------- MODULE MCBenchmark ----------------------------
(* Benchmark with a script of five messages: one question, one update that *)
(* is asked about.  With four turns the trap stands where the update would *)
(* be, with six the deep message is repeated.                              *)
EXTENDS Benchmark

MCMessages == <<"introduce", "retrieve", "deep", "update", "trap">>
MCExpected == {2, 4}

=============================================================================
