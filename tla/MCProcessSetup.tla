--------------------------- MODULE MCProcessSetup ---------------------------
(***************************************************************************)
(* Small jobs for ProcessSetup.                                            *)
(***************************************************************************)
EXTENDS ProcessSetup, TLC

InitOf(c) == [op |-> "init", comm |-> c]
CollectiveOn(c, b) == [op |-> "collective", comm |-> c, buffer |-> b]
Buffer(b, o) == [base |-> b, alloc |-> b, offset |-> o]
Hashes == [c \in Comms |-> CASE c = "X" -> 0 [] c = "Y" -> 1 [] c = "Z" -> 1]

(* one communicator of three ranks, made by all or refused by its rank 0 *)
OneComm(failing) ==
  [prog |-> [p \in 1..3 |-> <<InitOf("X")>>], hash |-> Hashes, places |-> 2, fails |-> failing]

(* after the first communicator, two more with the same hash *)
ManyComms(n) ==
  [prog |-> <<<<InitOf("X"), InitOf("Y")>>, <<InitOf("X"), InitOf("Y"), InitOf("Z")>>,
              <<InitOf("X"), InitOf("Z")>>>>,
   hash |-> Hashes, places |-> n, fails |-> {}]

(* collectives with other buffers of the same allocation, another          *)
(* allocation, and the same buffer again                                   *)
Buffers ==
  [prog |-> [p \in 1..2 |-> <<InitOf("X"), CollectiveOn("X", Buffer(10 * p, 0)),
                              CollectiveOn("X", Buffer(10 * p + 1, 1)),
                              CollectiveOn("X", Buffer(10 * p + 1, 2)),
                              CollectiveOn("X", Buffer(10 * p + 1, 2))>>],
   hash |-> Hashes, places |-> 2, fails |-> {}]

(* the process is finalized and set up again by another communicator *)
Restart ==
  [prog |-> [p \in 1..3 |-> <<InitOf("X"), [op |-> "finalize", comm |-> "X"], InitOf("Y")>>],
   hash |-> Hashes, places |-> 1, fails |-> {}]

MCScenarios == {OneComm({}), OneComm({<<1, "X">>}), ManyComms(2), ManyComms(3), Buffers, Restart}
====
