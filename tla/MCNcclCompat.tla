---------------------------- MODULE MCNcclCompat ----------------------------
(***************************************************************************)
(* Small programs for NcclCompat.                                          *)
(***************************************************************************)
EXTENDS NcclCompat, TLC

Open(h, c) == [call |-> "init", h |-> h, id |-> <<c>>]
Split(h, p, col) == [call |-> "split", h |-> h, parent |-> p, color |-> col]
On(h, o, b) == [call |-> "coll", h |-> h, op |-> o, buf |-> b]
Coll(h, o) == On(h, o, 1)
AR(h) == Coll(h, "allreduce")
AR2(h) == On(h, "allreduce", 2)
AG(h) == Coll(h, "allgather")
SR(h) == Coll(h, "smallreduce")
Sync(d) == [call |-> "sync", device |-> d]
Destroy(h) == [call |-> "destroy", h |-> h]
Start == [call |-> "start"]
End == [call |-> "end"]

A0 == "a0"
A1 == "a1"
Pair == {A0, A1}
Two(programs, homes, m, d2d) ==
  [prog |-> programs, home |-> homes, mode |-> m, remote_d2d |-> d2d, fastpath |-> FALSE,
   rank |-> (A0 :> 0 @@ A1 :> 1), size |-> [h \in Pair |-> 2],
   proc |-> (A0 :> homes[1] @@ A1 :> homes[Len(homes)]), made |-> [h \in Pair |-> "A"]]

(* one process, both ranks in groups, operation by operation; the inner    *)
(* group end does nothing                                                  *)
ByOperation(d2d) ==
  Two(<<<<Open(A0, "A"), Open(A1, "A"), Start, Start, AR(A0), AR(A1), End, AR2(A0), AR2(A1), AG(A0), AG(A1), End,
          End, Coll(A0, "reduce"), Sync(0), Destroy(A0), Destroy(A1)>>>>, <<1>>, "sp", d2d)

(* the same process, rank by rank *)
ByRank ==
  Two(<<<<Open(A0, "A"), Open(A1, "A"), Start, End, Start, AR(A0), AG(A0), AR(A1), AG(A1), End,
          Sync(1), Sync(0), Destroy(A1), Destroy(A0)>>>>, <<1>>, "sp", FALSE)

(* a thread for each rank *)
ByThread(d2d) ==
  LET P(h, r) == <<Open(h, "A"), AR(h), AG(h), Sync(r), Destroy(h)>>
  IN Two(<<P(A0, 0), P(A1, 1)>>, <<1, 1>>, "sp", d2d)

(* a thread for each rank, each waiting for one collective and going on *)
ByThreadAgain ==
  LET P(h, r) == <<Open(h, "A"), AR(h), Sync(r), AR(h), Sync(r)>>
  IN Two(<<P(A0, 0), P(A1, 1)>>, <<1, 1>>, "sp", FALSE)

(* a process for each rank; the queue fills, a group fails in its middle *)
ByProcess(d2d) ==
  LET P(h, r) == <<Open(h, "A"), AR(h), AR2(h), AG(h), Sync(r),
                   Start, AR(h), AR2(h), Coll(h, "missing"), AG(h), End, AR(h), Sync(r), Destroy(h)>>
  IN Two(<<P(A0, 0), P(A1, 1)>>, <<1, 2>>, "auto", d2d)

(* communicators split from one another, used in one group *)
Splits ==
  LET Name(c, r) == c \o (IF r = 0 THEN "0" ELSE "1")
      All == {Name(c, r) : c \in {"a", "b", "c"}, r \in {0, 1}}
      P(r) == <<Open(Name("a", r), "A"), Split(Name("b", r), Name("a", r), 0), Split("none", Name("a", r), -1),
                Split(Name("c", r), Name("a", r), 0),
                Start, AR(Name("b", r)), AR(Name("c", r)), AG(Name("a", r)), End, Sync(r),
                Destroy(Name("a", r)), Destroy(Name("c", r)), AR(Name("b", r)), Destroy(Name("b", r))>>
  IN [prog |-> <<P(0), P(1)>>, home |-> <<1, 2>>, mode |-> "auto", remote_d2d |-> FALSE, fastpath |-> FALSE,
      rank |-> [h \in All |-> IF h \in {"a0", "b0", "c0"} THEN 0 ELSE 1], size |-> [h \in All |-> 2],
      proc |-> [h \in All |-> IF h \in {"a0", "b0", "c0"} THEN 1 ELSE 2],
      made |-> [h \in All |-> CASE h \in {"a0", "a1"} -> "A" [] h \in {"b0", "b1"} -> "B" [] OTHER -> "C"]]

(* a communicator of one rank beside one of two *)
Alone ==
  LET Solo == "s0"
      P(h, r) == <<Open(h, "A")>> \o (IF r = 0 THEN <<Open(Solo, "S"), Start, AR(Solo), AR(h), AG(Solo), End>>
                                      ELSE <<AR(h)>>) \o <<Sync(r)>>
  IN [prog |-> <<P(A0, 0), P(A1, 1)>>, home |-> <<1, 2>>, mode |-> "auto", remote_d2d |-> FALSE, fastpath |-> FALSE,
      rank |-> (A0 :> 0 @@ A1 :> 1 @@ Solo :> 0), size |-> (A0 :> 2 @@ A1 :> 2 @@ Solo :> 1),
      proc |-> (A0 :> 1 @@ A1 :> 2 @@ Solo :> 1), made |-> (A0 :> "A" @@ A1 :> "A" @@ Solo :> "S")]

(* two communicators whose ranks 0 and 1 are handles of one program        *)
B0 == "b0"
B1 == "b1"
FourHandles(programs, homes, m, d2d, fast) ==
  [prog |-> programs, home |-> homes, mode |-> m, remote_d2d |-> d2d, fastpath |-> fast,
   rank |-> (A0 :> 0 @@ A1 :> 1 @@ B0 :> 0 @@ B1 :> 1), size |-> [h \in {A0, A1, B0, B1} |-> 2],
   proc |-> (A0 :> homes[1] @@ A1 :> homes[Len(homes)] @@ B0 :> homes[1] @@ B1 :> homes[Len(homes)]),
   made |-> (A0 :> "A" @@ A1 :> "A" @@ B0 :> "B" @@ B1 :> "B")]

(* one process, a thread for each rank, two communicators that share the   *)
(* barrier                                                                 *)
OneProcessTwoComms ==
  LET P(a, b, r) == <<Open(a, "A"), Open(b, "B"), AR(a), AR(b), Sync(r), Destroy(a), Destroy(b)>>
  IN FourHandles(<<P(A0, B0, 0), P(A1, B1, 1)>>, <<1, 1>>, "sp", TRUE, FALSE)

(* a process for each rank; small messages before, between and after large *)
(* ones.  Before a call that blocks, a large collective has waited for the *)
(* small ones of its communicator.                                         *)
SmallByProcess(d2d) ==
  LET P(h, r) == <<Open(h, "A"), AR(h), SR(h), AG(h), Sync(r), SR(h), SR(h), SR(h), Destroy(h)>>
  IN [Two(<<P(A0, 0), P(A1, 1)>>, <<1, 2>>, "auto", d2d) EXCEPT !.fastpath = TRUE]

(* a small message of one communicator behind a large one of another       *)
SmallBehindLarge ==
  LET P(a, b, r) == <<Open(a, "A"), Open(b, "B"), AR(a), SR(b), Destroy(b), AR(a), Sync(r), Destroy(a)>>
  IN FourHandles(<<P(A0, B0, 0), P(A1, B1, 1)>>, <<1, 2>>, "auto", FALSE, TRUE)

MCScenarios == {ByOperation(FALSE), ByOperation(TRUE), ByRank, ByThread(FALSE), ByThread(TRUE),
                ByProcess(FALSE), ByProcess(TRUE), Splits, Alone, OneProcessTwoComms,
                SmallByProcess(FALSE), SmallByProcess(TRUE), SmallBehindLarge}

(* not safe: a thread that blocks drains the other thread's executor *)
MCThreads == {ByThreadAgain}

(* not safe: a thread that blocks after a small message *)
SmallThenBlock ==
  LET P(h, r) == <<Open(h, "A"), SR(h), Sync(r)>>
  IN {[Two(<<P(A0, 0), P(A1, 1)>>, <<1, 2>>, "auto", FALSE) EXCEPT !.fastpath = TRUE]}

(* not safe: a large collective of another communicator behind a small     *)
(* one on the same stream                                                  *)
SmallBeforeLarge ==
  LET P(a, b, r) == <<Open(a, "A"), Open(b, "B"), SR(b), AR(a), Sync(r)>>
  IN {FourHandles(<<P(A0, B0, 0), P(A1, B1, 1)>>, <<1, 2>>, "auto", FALSE, TRUE)}
====
