------------------------- MODULE MCSplitCollective -------------------------
(* Instances of SplitCollective for TLC. *)
EXTENDS SplitCollective

call(op, s, bytes) == [op |-> op, stream |-> <<"user", s>>, bytes |-> bytes,
                         bucket |-> BucketBytes(bytes)]
Base == [domain |-> <<1>>, calls |-> <<>>, acl |-> FALSE, v |-> FALSE, scratch |-> FALSE,
         log |-> FALSE, measure |-> TRUE, sync |-> FALSE, algorithm |-> "inverse", warm |-> TRUE, alpha |-> 300, failures |-> {}, times |-> {1}]

(* Device tokens, one thread, more collectives than the ring has slots *)
Tokens == [Base EXCEPT !.acl = TRUE, !.v = TRUE, !.calls =
  <<<<call("AllReduce", 1, 1000), call("AllGather", 1, 1024), call("ReduceScatter", 1, 1024),
      call("AllToAll", 1, 1024)>>>>]
(* Two threads, one communicator and one stream *)
Contended == [Base EXCEPT !.acl = TRUE, !.v = TRUE, !.domain = <<1, 1>>, !.calls =
  <<<<call("AllReduce", 1, 1024)>>, <<call("AllGather", 1, 1024)>>>>]
(* Two threads, two communicators, one stream, no tokens *)
SharedStream == [Base EXCEPT !.measure = FALSE, !.v = TRUE, !.domain = <<1, 2>>, !.calls =
  <<<<call("AllReduce", 1, 1024)>>, <<call("AllToAll", 1, 1024)>>>>]
(* Tokens refused, allocations and submissions failing *)
Faulty == [Base EXCEPT !.acl = TRUE, !.failures = {"tokens", "pcie", "alloc"}, !.times = {1, 2}, !.calls =
  <<<<call("ReduceScatter", 1, 1024), call("AllReduce", 1, 1024)>>>>]
Failing == [Base EXCEPT !.failures = {"sync", "alloc", "pcie"}, !.sync = TRUE, !.measure = FALSE, !.times = {1, 2}, !.calls =
  <<<<call("AllGather", 1, 1024), call("AllReduce", 1, 1024)>>>>]
(* Staged results *)
StagedPool == [Base EXCEPT !.measure = FALSE, !.scratch = TRUE, !.calls =
  <<<<call("AllGather", 1, 1024), call("ReduceScatter", 1, 1024), call("AllToAll", 1, 1024)>>>>]
StagedOwn == [Base EXCEPT !.algorithm = "static", !.alpha = 500, !.times = {1, 2}, !.calls =
  <<<<call("AllGather", 1, 1024), call("AllToAll", 1, 1024), call("ReduceScatter", 1, 1024)>>>>]
(* Everything over PCIe; unsplit collectives measured *)
Whole == [Base EXCEPT !.algorithm = "static", !.alpha = 1000, !.log = TRUE, !.calls =
  <<<<call("AllReduce", 1, 1000), call("AllGather", 2, 1000), call("AllToAll", 1, 1024),
      call("ReduceScatter", 1, 100)>>>>]

(* Sizes of one bucket, with the share steered between them *)
Steered == [Base EXCEPT !.acl = TRUE, !.times = {1, 2}, !.calls =
  <<<<call("AllReduce", 1, 1024), call("AllReduce", 1, 1280), call("AllReduce", 1, 1152)>>>>]
Balanced == [Steered EXCEPT !.algorithm = "ratio", !.warm = FALSE, !.alpha = 600, !.failures = {"pcie"}]

Split == {Steered, Balanced, Tokens, Contended, SharedStream, Faulty, Failing, StagedPool, StagedOwn, Whole}

=============================================================================
