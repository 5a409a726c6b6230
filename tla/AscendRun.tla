----------------------------- MODULE AscendRun ------------------------------
(***************************************************************************)
(* pcie-ccl-ascend at run time: every rank is a process with a user        *)
(* thread, one executor thread per communicator, and one H2H engine whose  *)
(* workers copy for all of them.  The processes share the places that      *)
(* communicators claim (comm_id), the barriers and progress counters of    *)
(* each place, and one staging buffer per NUMA node, in which a work item  *)
(* leases a region for the time it runs.                                   *)
(*                                                                         *)
(* As in GraphRun a cell of memory holds the set of contributions summed   *)
(* into it.  Host cells are addressed absolutely, so that regions that     *)
(* overlap corrupt each other's data.  user_ready_seq is left out: the     *)
(* Ascend port publishes it and nobody reads it.  Ranks exchange data      *)
(* through the hosts only (the compiler refuses copies between devices),   *)
(* so every graph needs a region (graphUsesHostStaging).                   *)
(***************************************************************************)
EXTENDS Naturals, Sequences, FiniteSetsExt

CONSTANTS
  Ranks,           \* 0 .. n-1, the members of every communicator
  Comms,
  NumPlaces,       \* PCCL_MAX_CONCURRENT_COMMS
  Numas,
  Scenarios,       \* what the processes run, see below
  Alignment,       \* kAlignment of a region
  LeadWindow,      \* PCCL_D2H_LEAD_WINDOW
  LaneDepth,       \* capacity of a lane's EventRing
  QueueDepth,      \* executor queue
  Workers          \* workers_per_numa_, and the shards a copy is split into

(* A definition of its own, so that TLC compiles the plans once.  Of a     *)
(* scenario,                                                               *)
(*   script     is the sequence of calls <<name, communicator>> every rank *)
(*              makes, name one of init, submit, sync, destroy,            *)
(*   index      the hash of each communicator modulo NumPlaces,            *)
(*   works      the work items each communicator is submitted, in order,   *)
(*   capacity   the staging buffer of each NUMA node,                      *)
(*   failures   whether waits may time out and prepareUserWait may fail.   *)
(* Of a work item,                                                         *)
(*   graphs, internal  are the graph and the internal elements of each     *)
(*              rank, in rank order,                                       *)
(*   subchunks, chunk_size, remap, required  as compiled,                  *)
(*   home       the buffer each device location lies in,                   *)
(*   empty      the <<location, sc>> with nothing to move,                 *)
(*   produced   the input locations the user's stream writes before it,    *)
(*   expected   what an output location must sum up: <<work, rank, chunk>> *)
scenarios == Scenarios

Places    == 0 .. NumPlaces - 1
Executors == Comms \X Ranks
Lanes     == {"D2H", "H2D", "D2D_LOCAL", "D2D_REDUCE"}
Slots     == {"init", "acquire", "start", "end", "release"}

Comm(e) == e[1]
Rank(e) == e[2]

WorksOf(s)    == UNION {{s.works[c][i] : i \in DOMAIN s.works[c]} : c \in Comms}
GraphsOf(s)   == UNION {{w.graphs[r + 1] : r \in Ranks} : w \in WorksOf(s)}
AllWorks      == UNION {WorksOf(scenarios[i]) : i \in DOMAIN scenarios}
AllGraphs     == UNION {GraphsOf(scenarios[i]) : i \in DOMAIN scenarios}
KeysOf(s)     == UNION {g.active_progress_keys : g \in GraphsOf(s)}
MaxReaders    == Max({1} \cup UNION {{n[2] : n \in g.num_readers} : g \in AllGraphs})
MaxSubchunks  == Max({w.subchunks : w \in AllWorks})

ASSUME AscendAssumption ==
  /\ IsFiniteSet(Ranks) /\ 0 \in Ranks
  /\ {NumPlaces, Alignment, LeadWindow, LaneDepth, QueueDepth, Workers} \subseteq Nat \ {0}

VARIABLES
  scenario,        \* index into scenarios
  \* shared memory
  place_hash, place_refs,                            \* user_ready_comm_hash, _refcount
  barrier_count, barrier_generation,                 \* per place and slot
  staging_offset, staging_bytes,                     \* per place and NUMA node
  write_progress, consume_progress, reader_done, num_readers,  \* per place and key
  \* per rank
  user,            \* [at: position in the script, step, attempt, generation]
  pool, working, completions,                        \* H2HEngine
  \* per executor
  ex,              \* its fields, see FreshExecutor
  \* its user stream: waits not reached, the last one reached and passed,
  \* and the completions written for it
  stream, rung, released, signalled,
  mem              \* cell |-> contributions

Keys == DOMAIN num_readers[0]

places   == <<place_hash, place_refs>>
barriers == <<barrier_count, barrier_generation>>
leases   == <<staging_offset, staging_bytes>>
counters == <<write_progress, consume_progress, reader_done>>
engine   == <<pool, working, completions>>
streams  == <<stream, rung, released, signalled>>
vars     == <<scenario, places, barriers, leases, counters, num_readers, user, engine, ex, streams, mem>>

-----------------------------------------------------------------------------
(* An executor and its work item *)

Free == "free"

(* astray is no field of the code's: see Parted. *)
FreshExecutor(place) ==
  [pc |-> "idle", place |-> place, submitted |-> 0, queue |-> <<>>, seq |-> 0, next |-> <<>>,
   completed |-> <<>>, pending |-> {}, lanes |-> [l \in Lanes |-> <<>>], offset |-> [n \in Numas |-> 0],
   generation |-> 0, internal |-> 0,
   failed |-> FALSE, astray |-> FALSE]

NoExecutor == [FreshExecutor(0) EXCEPT !.pc = "none"]

Scenario       == scenarios[scenario]
WorkOf(e, seq) == Scenario.works[Comm(e)][seq]
Work(e)        == WorkOf(e, ex[e].seq)
Graph(e)       == Work(e).graphs[Rank(e) + 1]
Place(e)       == ex[e].place
Epoch(e)       == ex[e].seq % 2

(* busy_: finishCurrentWork clears it, before the region is released       *)
(* ("release") unless the start barrier failed ("give_back").              *)
Busy(e) == ex[e].pc \notin {"none", "idle", "release"}

Idle(e) == ~Busy(e) /\ ex[e].queue = <<>>

(* resolve: host chunks are placed by the dense map in the leased region *)
CellOf(e, loc, sc) ==
  IF loc[1] = "HOST"
  THEN <<"HOST", loc[2],
         ex[e].offset[loc[2]] + Work(e).remap[loc[2]][loc[3]] * Work(e).chunk_size + sc>>
  ELSE <<Comm(e), Work(e).home[loc], sc>>

HostCells(s) ==
  UNION {{"HOST"} \X {n} \X (0 .. s.capacity[n] + Max({w.chunk_size : w \in WorksOf(s)})) : n \in Numas}
DeviceCells(s) ==
  UNION {UNION {{c} \X {w.home[loc] : loc \in DOMAIN w.home} \X (0 .. w.subchunks - 1) :
                  w \in {s.works[c][i] : i \in DOMAIN s.works[c]}} : c \in Comms}

Torn    == {}
Garbage == {<<>>}

Combine(values) ==
  IF \/ \E i \in DOMAIN values : values[i] \in {Torn, Garbage}
     \/ \E i, j \in DOMAIN values : i # j /\ values[i] \cap values[j] # {}
  THEN Garbage
  ELSE UNION {values[i] : i \in DOMAIN values}

-----------------------------------------------------------------------------
(* Barriers *)

(* SharedStateManager::barrier up to its wait *)
Arrive(p, slot) ==
  LET full == barrier_count[p][slot] + 1 = Cardinality(Ranks)
  IN  /\ barrier_count' = [barrier_count EXCEPT ![p][slot] = IF full THEN 0 ELSE @ + 1]
      /\ barrier_generation' = [barrier_generation EXCEPT ![p][slot] = IF full THEN @ + 1 ELSE @]

Passed(p, slot, generation) == barrier_generation[p][slot] > generation

-----------------------------------------------------------------------------

Init ==
  /\ scenario \in DOMAIN scenarios
  /\ place_hash = [p \in Places |-> Free]
  /\ place_refs = [p \in Places |-> 0]
  /\ barrier_count = [p \in Places |-> [s \in Slots |-> 0]]
  /\ barrier_generation = [p \in Places |-> [s \in Slots |-> 0]]
  /\ staging_offset = [p \in Places |-> [n \in Numas |-> 0]]
  /\ staging_bytes = [p \in Places |-> [n \in Numas |-> 0]]
  /\ write_progress = [p \in Places |-> [key \in KeysOf(Scenario) |-> [e \in 0 .. 1 |-> 0]]]
  /\ consume_progress = [p \in Places |-> [key \in KeysOf(Scenario) |-> [e \in 0 .. 1 |-> 0]]]
  /\ reader_done = [p \in Places |-> [key \in KeysOf(Scenario) |-> [e \in 0 .. 1 |-> [id \in 0 .. MaxReaders - 1 |-> 0]]]]
  /\ num_readers = [p \in Places |-> [key \in KeysOf(Scenario) |-> 0]]
  /\ user = [r \in Ranks |-> [at |-> 1, step |-> "call", attempt |-> 0, generation |-> 0]]
  /\ pool = [r \in Ranks |-> [n \in Numas |-> <<>>]]
  /\ working = [r \in Ranks |-> [n \in Numas |-> {}]]
  /\ completions = [r \in Ranks |-> {}]
  /\ ex = [e \in Executors |-> NoExecutor]
  /\ stream = [e \in Executors |-> <<>>]
  /\ rung = [e \in Executors |-> 0]
  /\ released = [e \in Executors |-> 0]
  /\ signalled = [e \in Executors |-> {}]
  /\ mem = [c \in HostCells(Scenario) \cup DeviceCells(Scenario) |-> Garbage]

-----------------------------------------------------------------------------
(* The user thread of rank r *)

Calls(r, name) == user[r].at <= Len(Scenario.script) /\ Scenario.script[user[r].at][1] = name

(* The executor of the call *)
Called(r) == <<Scenario.script[user[r].at][2], r>>

Returned(r) == [user EXCEPT ![r].at = @ + 1, ![r].step = "call", ![r].attempt = 0]

(* userReadyCommSlot, called by pcclCommInitRank, looks at one place and   *)
(* claims it if it is free or the communicator's own; the executor is      *)
(* created.                                                                *)
ClaimPlace(r) ==
  LET c == Comm(Called(r))
      p == (Scenario.index[c] + user[r].attempt) % NumPlaces
  IN  /\ Calls(r, "init") /\ user[r].step = "call"
      /\ user[r].attempt < 2 * NumPlaces
      /\ place_hash[p] \in {Free, c}
      /\ place_hash' = [place_hash EXCEPT ![p] = c]
      /\ place_refs' = [place_refs EXCEPT ![p] = IF place_hash[p] = Free THEN 1 ELSE @ + 1]
      /\ ex' = [ex EXCEPT ![Called(r)] = FreshExecutor(p)]
      /\ user' = [user EXCEPT ![r].step = "arrive"]
      /\ UNCHANGED <<scenario, barriers, leases, counters, num_readers, engine, streams, mem>>

(* ... and goes to the next place if another communicator has it. *)
SkipPlace(r) ==
  LET c == Comm(Called(r))
      p == (Scenario.index[c] + user[r].attempt) % NumPlaces
  IN  /\ Calls(r, "init") /\ user[r].step = "call"
      /\ user[r].attempt < 2 * NumPlaces
      /\ place_hash[p] \notin {Free, c}
      /\ user' = [user EXCEPT ![r].attempt = @ + 1]
      /\ UNCHANGED <<scenario, places, barriers, leases, counters, num_readers, engine, ex, streams, mem>>

(* No place: pcclCommInitRank fails and there is no communicator. *)
NoPlace(r) ==
  /\ Calls(r, "init") /\ user[r].step = "call"
  /\ user[r].attempt = 2 * NumPlaces
  /\ user' = Returned(r)
  /\ UNCHANGED <<scenario, places, barriers, leases, counters, num_readers, engine, ex, streams, mem>>

(* The barrier at the end of pcclCommInitRank *)
ArriveInit(r) ==
  /\ Calls(r, "init") /\ user[r].step = "arrive"
  /\ Arrive(Place(Called(r)), "init")
  /\ user' = [user EXCEPT ![r].step = "await", ![r].generation = barrier_generation[Place(Called(r))]["init"]]
  /\ UNCHANGED <<scenario, places, leases, counters, num_readers, engine, ex, streams, mem>>

PassInit(r) ==
  /\ Calls(r, "init") /\ user[r].step = "await"
  /\ Passed(Place(Called(r)), "init", user[r].generation)
  /\ user' = Returned(r)
  /\ UNCHANGED <<scenario, places, barriers, leases, counters, num_readers, engine, ex, streams, mem>>

(* Mutation: the first rank to leave frees the place. *)
DropPlace_FirstFrees(p) ==
  /\ place_refs' = [place_refs EXCEPT ![p] = 0]
  /\ place_hash' = [place_hash EXCEPT ![p] = Free]

(* releaseUserReadyCommSlot: the last one frees the place; its barriers    *)
(* stay as they are.                                                       *)
DropPlace(p) ==
  /\ place_refs' = [place_refs EXCEPT ![p] = @ - 1]
  /\ place_hash' = [place_hash EXCEPT ![p] = IF place_refs[p] = 1 THEN Free ELSE @]

(* The barrier times out: the place is given up ... *)
TimeOutInit(r) ==
  /\ Scenario.failures
  /\ Calls(r, "init") /\ user[r].step = "await"
  /\ ~Passed(Place(Called(r)), "init", user[r].generation)
  /\ DropPlace(Place(Called(r)))
  /\ ex' = [ex EXCEPT ![Called(r)].pc = "dropped"]
  /\ user' = [user EXCEPT ![r].step = "delete"]
  /\ UNCHANGED <<scenario, barriers, leases, counters, num_readers, engine, streams, mem>>

(* ... and then the communicator and its executor are deleted. *)
DeleteComm(r) ==
  /\ Calls(r, "init") /\ user[r].step = "delete"
  /\ ex' = [ex EXCEPT ![Called(r)] = NoExecutor]
  /\ user' = Returned(r)
  /\ UNCHANGED <<scenario, places, barriers, leases, counters, num_readers, engine, streams, mem>>

(* ensureCommInternalBuffer: a larger buffer replaces the old one *)
Grow(e, elements) ==
  [c \in DOMAIN mem |-> IF c[1] = Comm(e) /\ c[2][1] = "INTERNAL" /\ c[2][2] = Rank(e) THEN Garbage ELSE mem[c]]

(* Mutation: the buffer is replaced without waiting for the work under way. *)
MayGrow_NotDrained(e) == TRUE

(* ... once the executor is drained. *)
MayGrow(e) == Idle(e)

(* submitCollective and GraphExecutor::submit: the internal buffer is      *)
(* large enough and, under mutex_, the work is admitted: the executor has  *)
(* not failed, there is room in the queue, and it gets its number.         *)
Admit(r) ==
  LET e    == Called(r)
      seq  == ex[e].submitted + 1
      need == WorkOf(e, seq).internal[r + 1]
      grow == need > ex[e].internal
  IN  /\ Calls(r, "submit") /\ user[r].step = "call"
      /\ ex[e].pc # "none" /\ ~ex[e].failed
      /\ grow => MayGrow(e)
      /\ (IF Busy(e) THEN 1 ELSE 0) + Len(ex[e].queue) < QueueDepth
      /\ ex' = [ex EXCEPT ![e].submitted = seq, ![e].internal = IF grow THEN need ELSE @]
      /\ mem' = IF grow THEN Grow(e, need) ELSE mem
      /\ user' = [user EXCEPT ![r].step = "prepare"]
      /\ UNCHANGED <<scenario, places, barriers, leases, counters, num_readers, engine, streams>>

(* prepareUserWait, the mutex released: the user's stream is given a       *)
(* doorbell and a wait ...                                                 *)
PrepareUserWait(r) ==
  /\ Calls(r, "submit") /\ user[r].step = "prepare"
  /\ stream' = [stream EXCEPT ![Called(r)] = Append(@, ex[Called(r)].submitted)]
  /\ user' = [user EXCEPT ![r].step = "push"]
  /\ UNCHANGED <<scenario, places, barriers, leases, counters, num_readers, engine, ex, rung, released,
                 signalled, mem>>

(* ... or this fails, before the wait is on the stream or after it, and    *)
(* the number is lost.                                                     *)
PrepareFails(r) ==
  /\ Scenario.failures
  /\ Calls(r, "submit") /\ user[r].step = "prepare"
  /\ stream' \in {stream, [stream EXCEPT ![Called(r)] = Append(@, ex[Called(r)].submitted)]}
  /\ ex' = [ex EXCEPT ![Called(r)].astray = TRUE]
  /\ user' = Returned(r)
  /\ UNCHANGED <<scenario, places, barriers, leases, counters, num_readers, engine, rung, released, signalled,
                 mem>>

(* The work is queued, even if the executor has failed since.              *)
PushWork(r) ==
  /\ Calls(r, "submit") /\ user[r].step = "push"
  /\ ex' = [ex EXCEPT ![Called(r)].queue = Append(@, ex[Called(r)].submitted)]
  /\ user' = Returned(r)
  /\ UNCHANGED <<scenario, places, barriers, leases, counters, num_readers, engine, streams, mem>>

(* A failed executor refuses; without a communicator there is no call. *)
RefuseSubmit(r) ==
  /\ Calls(r, "submit") /\ user[r].step = "call"
  /\ ex[Called(r)].pc = "none" \/ ex[Called(r)].failed
  /\ user' = Returned(r)
  /\ UNCHANGED <<scenario, places, barriers, leases, counters, num_readers, engine, ex, streams, mem>>

(* The user waits for the communicator's stream. *)
Synchronize(r) ==
  /\ Calls(r, "sync")
  /\ stream[Called(r)] = <<>> /\ released[Called(r)] = rung[Called(r)]
  /\ user' = Returned(r)
  /\ UNCHANGED <<scenario, places, barriers, leases, counters, num_readers, engine, ex, streams, mem>>

(* pcclCommDestroy: the executor's destructor drains, stops and joins its  *)
(* thread ...                                                              *)
JoinExecutor(r) ==
  /\ Calls(r, "destroy") /\ user[r].step = "call"
  /\ ex[Called(r)].pc = "idle" /\ ex[Called(r)].queue = <<>>
  /\ ex' = [ex EXCEPT ![Called(r)].pc = "joined"]
  /\ user' = [user EXCEPT ![r].step = "release"]
  /\ UNCHANGED <<scenario, places, barriers, leases, counters, num_readers, engine, streams, mem>>

(* ... then the place is released. *)
ReleasePlace(r) ==
  /\ Calls(r, "destroy") /\ user[r].step = "release"
  /\ DropPlace(Place(Called(r)))
  /\ ex' = [ex EXCEPT ![Called(r)].pc = "none"]
  /\ user' = Returned(r)
  /\ UNCHANGED <<scenario, barriers, leases, counters, num_readers, engine, streams, mem>>

NothingToDestroy(r) ==
  /\ Calls(r, "destroy") /\ user[r].step = "call"
  /\ ex[Called(r)].pc = "none"
  /\ user' = Returned(r)
  /\ UNCHANGED <<scenario, places, barriers, leases, counters, num_readers, engine, ex, streams, mem>>

(* The user's stream: past the wait before, it produces the inputs of the  *)
(* next work and records its ready event; a wait for a completion that is  *)
(* already written is no wait.                                             *)
RingDoorbell(e) ==
  LET seq  == Head(stream[e])
      mine == {loc \in WorkOf(e, seq).produced : loc[2] = Rank(e)}
      into(c) == {loc \in mine : c[1] = Comm(e) /\ WorkOf(e, seq).home[loc] = c[2]}
  IN  /\ rung[e] = released[e]
      /\ stream[e] # <<>>
      /\ stream' = [stream EXCEPT ![e] = Tail(@)]
      /\ rung' = [rung EXCEPT ![e] = seq]
      /\ released' = [released EXCEPT ![e] = IF seq \in signalled[e] THEN seq ELSE @]
      /\ mem' = [c \in DOMAIN mem |-> IF into(c) = {} THEN mem[c]
                                      ELSE {<<seq, loc[2], loc[3], c[3]>> : loc \in into(c)}]
      /\ UNCHANGED <<scenario, places, barriers, leases, counters, num_readers, user, engine, ex, signalled>>

(* signalComplete for these works *)
Signal(e, seqs) ==
  /\ signalled' = [signalled EXCEPT ![e] = @ \cup seqs]
  /\ released' = [released EXCEPT ![e] = IF rung[e] \in seqs THEN rung[e] ELSE @]
  /\ UNCHANGED <<stream, rung>>

-----------------------------------------------------------------------------
(* The executor thread: taking a work item *)

(* executorThreadFunc takes the next item, whether or not the executor has *)
(* failed, and zeroes the reader counts of its keys ...                    *)
PopZeroesReaders(e) ==
  LET seq   == Head(ex[e].queue)
      graph == WorkOf(e, seq).graphs[Rank(e) + 1]
      zero  == [n \in DOMAIN graph.nodes |-> 0]
  IN  /\ ex[e].pc = "idle" /\ ex[e].queue # <<>>
      /\ ex' = [ex EXCEPT ![e].pc = "popped", ![e].queue = Tail(@), ![e].seq = seq,
                          ![e].astray = @ \/ ex[e].failed,
                          ![e].next = zero, ![e].completed = zero, ![e].pending = {}]
      /\ num_readers' = [num_readers EXCEPT ![Place(e)] =
            [key \in Keys |-> IF key \in graph.active_progress_keys THEN 0 ELSE @[key]]]
      /\ UNCHANGED <<scenario, places, barriers, leases, counters, user, engine, streams, mem>>

(* ... then it stores the compiled ones. *)
PopSetsReaders(e) ==
  /\ ex[e].pc = "popped"
  /\ num_readers' = [num_readers EXCEPT ![Place(e)] =
        [key \in Keys |-> IF \E n \in 1 .. MaxReaders : <<key, n>> \in Graph(e).num_readers
                          THEN CHOOSE n \in 1 .. MaxReaders : <<key, n>> \in Graph(e).num_readers
                          ELSE @[key]]]
  /\ ex' = [ex EXCEPT ![e].pc = "lease"]
  /\ UNCHANGED <<scenario, places, barriers, leases, counters, user, engine, streams, mem>>

-----------------------------------------------------------------------------
(* Staging regions *)

AlignUp(n) == ((n + Alignment - 1) \div Alignment) * Alignment

Overlap(start1, size1, start2, size2) == start1 < start2 + size2 /\ start2 < start1 + size1

(* Mutation: a region is placed at the start of the buffer. *)
Fitting_AtZero(e, numa) == {o \in {0} : AlignUp(Work(e).required[numa]) <= Scenario.capacity[numa]}

(* Where the cursor of acquireHostStagingRegion may stop: at 0 or behind   *)
(* another region, clear of all others and within the buffer.              *)
Fitting(e, numa) ==
  LET bytes  == AlignUp(Work(e).required[numa])
      others == {p \in Places \ {Place(e)} : staging_bytes[p][numa] # 0}
  IN  {o \in {0} \cup {AlignUp(staging_offset[p][numa] + staging_bytes[p][numa]) : p \in others} :
         /\ o + bytes <= Scenario.capacity[numa]
         /\ \A p \in others : ~Overlap(o, bytes, staging_offset[p][numa], staging_bytes[p][numa])}

(* An executor arrives at a barrier of its place and waits there. *)
ArriveAt(e, slot) ==
  /\ Arrive(Place(e), slot)
  /\ ex' = [ex EXCEPT ![e].pc = slot, ![e].generation = barrier_generation[Place(e)][slot]]

(* acquireHostStagingRegion.  Rank 0 reserves, under the staging lock, the *)
(* first fitting region of every NUMA node the work needs; then the ranks  *)
(* meet.                                                                   *)
LeaseRegion(e) ==
  LET needs(numa) == AlignUp(Work(e).required[numa]) # 0
  IN  /\ ex[e].pc = "lease"
      /\ \/ Rank(e) # 0 /\ UNCHANGED leases
         \/ /\ Rank(e) = 0
            /\ \A numa \in Numas : needs(numa) => Fitting(e, numa) # {}
            /\ staging_offset' = [staging_offset EXCEPT ![Place(e)] =
                  [numa \in Numas |-> IF needs(numa) THEN Min(Fitting(e, numa)) ELSE 0]]
            /\ staging_bytes' = [staging_bytes EXCEPT ![Place(e)] =
                  [numa \in Numas |-> AlignUp(Work(e).required[numa])]]
      /\ ArriveAt(e, "acquire")
      /\ UNCHANGED <<scenario, places, counters, num_readers, user, engine, streams, mem>>

(* resetEpochKeys at the beginning of runGraph *)
ResetEpochKeys(e) ==
  LET keys == Graph(e).active_progress_keys
      cleared(f, zero) == [f EXCEPT ![Place(e)] =
        [key \in Keys |-> IF key \in keys THEN [@[key] EXCEPT ![Epoch(e)] = zero] ELSE @[key]]]
  IN  /\ write_progress' = cleared(write_progress, 0)
      /\ consume_progress' = cleared(consume_progress, 0)
      /\ reader_done' = cleared(reader_done, [id \in 0 .. MaxReaders - 1 |-> 0])

(* All ranks are there and rank 0 has reserved: the offsets are read, the  *)
(* counters cleared, and the ranks meet again.                             *)
PassAcquire(e) ==
  /\ ex[e].pc = "acquire"
  /\ Passed(Place(e), "acquire", ex[e].generation)
  /\ ResetEpochKeys(e)
  /\ Arrive(Place(e), "start")
  /\ ex' = [ex EXCEPT ![e].pc = "start", ![e].generation = barrier_generation[Place(e)]["start"],
                      ![e].offset = staging_offset[Place(e)]]
  /\ UNCHANGED <<scenario, places, leases, num_readers, user, engine, streams, mem>>

(* Mutation: the ranks do not wait for each other's reset. *)
PassStart_NotAwaited(e) ==
  /\ ex[e].pc = "start"
  /\ ex' = [ex EXCEPT ![e].pc = "doorbell"]
  /\ UNCHANGED <<scenario, places, barriers, leases, counters, num_readers, user, engine, streams, mem>>

PassStart(e) ==
  /\ ex[e].pc = "start"
  /\ Passed(Place(e), "start", ex[e].generation)
  /\ ex' = [ex EXCEPT ![e].pc = "doorbell"]
  /\ UNCHANGED <<scenario, places, barriers, leases, counters, num_readers, user, engine, streams, mem>>

(* The release barrier is behind the executor. *)
Left(e) == [ex EXCEPT ![e].pc = IF @ = "release" THEN "idle" ELSE "unfinished"]

(* Mutation: the region stays reserved. *)
PassRelease_Keeps(e) ==
  /\ ex[e].pc \in {"release", "give_back"}
  /\ Passed(Place(e), "release", ex[e].generation)
  /\ ex' = Left(e)
  /\ UNCHANGED <<scenario, places, barriers, leases, counters, num_readers, user, engine, streams, mem>>

(* releaseHostStagingRegion: rank 0 gives the region back. *)
PassRelease(e) ==
  /\ ex[e].pc \in {"release", "give_back"}
  /\ Passed(Place(e), "release", ex[e].generation)
  /\ staging_bytes' = IF Rank(e) = 0 THEN [staging_bytes EXCEPT ![Place(e)] = [n \in Numas |-> 0]]
                      ELSE staging_bytes
  /\ ex' = Left(e)
  /\ UNCHANGED <<scenario, places, barriers, staging_offset, counters, num_readers, user, engine, streams, mem>>

-----------------------------------------------------------------------------
(* Running the graph *)

AtomicMax(old, new) == IF new > old THEN new ELSE old

(* publishNodeProgress and publishInputReaders for slices up to count; a   *)
(* node counts as a reader of its first input at most.                     *)
Publish(e, node, count) ==
  LET p    == Place(e)
      ep   == Epoch(e)
      in   == node.inputs[1]
      done == [reader_done[p][in.key][ep] EXCEPT ![in.reader_id] = AtomicMax(@, count)]
  IN  /\ write_progress' = [write_progress EXCEPT ![p][node.output][ep] = AtomicMax(@, count)]
      /\ IF in.reads
         THEN /\ reader_done' = [reader_done EXCEPT ![p][in.key][ep] = done]
              /\ consume_progress' = [consume_progress EXCEPT ![p][in.key][ep] =
                   AtomicMax(@, Min({count} \cup {done[id] : id \in 0 .. num_readers[p][in.key] - 1}))]
         ELSE UNCHANGED <<reader_done, consume_progress>>

(* waitForUserReadyAndPublishInputs *)
SeeDoorbell(e) ==
  /\ ex[e].pc = "doorbell"
  /\ rung[e] >= ex[e].seq
  /\ write_progress' = [write_progress EXCEPT ![Place(e)] =
        [key \in Keys |-> IF key \in Graph(e).initial_ready_inputs
                          THEN [@[key] EXCEPT ![Epoch(e)] = Work(e).subchunks] ELSE @[key]]]
  /\ ex' = [ex EXCEPT ![e].pc = "run"]
  /\ UNCHANGED <<scenario, places, barriers, leases, consume_progress, reader_done, num_readers, user, engine,
                 streams, mem>>

(* inputsReady *)
InputsReady(e, node, sc) ==
  \A j \in DOMAIN node.inputs : write_progress[Place(e)][node.inputs[j].key][Epoch(e)] >= sc + 1

(* overwriteReady *)
OverwriteReady(e, node, sc) ==
  /\ node.guard[2] > 0 => write_progress[Place(e)][node.guard][Epoch(e)] >= sc + 1
  /\ \/ num_readers[Place(e)][node.guard] = 0
     \/ consume_progress[Place(e)][node.guard][Epoch(e)] >= sc + 1

(* graphUsesMultipleHostNumas *)
UsesMultipleHostNumas(e) ==
  Cardinality({key[1][2] : key \in {k \in Graph(e).active_progress_keys : k[1][1] = "HOST"}}) > 1

(* A D2H node runs at most LeadWindow slices ahead of its readers. *)
WithinLeadWindow(e, node, sc) ==
  ~ /\ UsesMultipleHostNumas(e)
    /\ node.op = "D2H"
    /\ num_readers[Place(e)][node.output] > 0
    /\ sc >= consume_progress[Place(e)][node.output][Epoch(e)] + LeadWindow

(* selectDmaLane, one lane per direction (PCCL_DMA_LANES_PER_DIRECTION) *)
DmaLane(node) ==
  CASE node.op = "D2D"       -> "D2D_LOCAL"
    [] node.op = "D2DReduce" -> "D2D_REDUCE"
    [] OTHER                 -> node.op

(* An empty slice, or a copy onto itself *)
NothingToMove(e, node, sc) ==
  \/ <<node.output[1], sc>> \in Work(e).empty
  \/ node.op \in {"D2D", "H2H"} /\ CellOf(e, node.inputs[1].key[1], sc) = CellOf(e, node.output[1], sc)

(* A failed executor leaves the loop before it submits anything.           *)
Submittable(e, n) ==
  LET node == Graph(e).nodes[n]
      sc   == ex[e].next[n]
  IN  /\ ex[e].pc = "run" /\ ~ex[e].failed
      /\ sc < Work(e).subchunks
      /\ InputsReady(e, node, sc)
      /\ OverwriteReady(e, node, sc)

(* trySubmitNode: nothing to move, published at once *)
SkipSlice(e, n) ==
  /\ Submittable(e, n)
  /\ NothingToMove(e, Graph(e).nodes[n], ex[e].next[n])
  /\ ex' = [ex EXCEPT ![e].next[n] = @ + 1, ![e].completed[n] = @ + 1]
  /\ Publish(e, Graph(e).nodes[n], ex[e].next[n] + 1)
  /\ UNCHANGED <<scenario, places, barriers, leases, num_readers, user, engine, streams, mem>>

Transfer(e, n, sc) ==
  [exec |-> e, seq |-> ex[e].seq, node |-> n, sc |-> sc,
   to   |-> CellOf(e, Graph(e).nodes[n].output[1], sc),
   from |-> [j \in DOMAIN Graph(e).nodes[n].inputs |-> CellOf(e, Graph(e).nodes[n].inputs[j].key[1], sc)],
   got  |-> [j \in DOMAIN Graph(e).nodes[n].inputs |-> mem[CellOf(e, Graph(e).nodes[n].inputs[j].key[1], sc)]]]

(* trySubmitNode: a device transfer goes to its lane ... *)
SubmitDma(e, n) ==
  LET node == Graph(e).nodes[n]
      sc   == ex[e].next[n]
  IN  /\ Submittable(e, n)
      /\ node.op # "H2H"
      /\ ~NothingToMove(e, node, sc)
      /\ WithinLeadWindow(e, node, sc)
      /\ Len(ex[e].lanes[DmaLane(node)]) < LaneDepth
      /\ ex' = [ex EXCEPT ![e].next[n] = @ + 1, ![e].lanes[DmaLane(node)] = Append(@, Transfer(e, n, sc))]
      /\ mem' = [mem EXCEPT ![CellOf(e, node.output[1], sc)] = Torn]
      /\ UNCHANGED <<scenario, places, barriers, leases, counters, num_readers, user, engine, streams>>

(* ... and a host copy, in shards, to the pool of its destination's node   *)
(* (H2HEngine::submitCopy).                                                *)
SubmitH2H(e, n) ==
  LET node == Graph(e).nodes[n]
      sc   == ex[e].next[n]
  IN  /\ Submittable(e, n)
      /\ node.op = "H2H"
      /\ ~NothingToMove(e, node, sc)
      /\ ex' = [ex EXCEPT ![e].next[n] = @ + 1]
      /\ pool' = [pool EXCEPT ![Rank(e)][node.output[1][2]] =
            @ \o [shard \in 1 .. Workers |-> [transfer |-> Transfer(e, n, sc), shard |-> shard]]]
      /\ mem' = [mem EXCEPT ![CellOf(e, node.output[1], sc)] = Torn]
      /\ UNCHANGED <<scenario, places, barriers, leases, counters, num_readers, user, working, completions,
                     streams>>

(* What a transfer leaves in its destination. *)
Moved(transfer) ==
  IF /\ mem[transfer.to] = Torn
     /\ \A j \in DOMAIN transfer.from :
          transfer.from[j] # transfer.to => mem[transfer.from[j]] = transfer.got[j]
  THEN Combine(transfer.got) ELSE Garbage

(* pollDeviceLane: the oldest event of a lane.  A failing executor waits   *)
(* for its lanes.                                                          *)
PollLane(e, lane) ==
  LET transfer == Head(ex[e].lanes[lane])
  IN  /\ ex[e].pc \in {"run", "failing"}
      /\ ex[e].lanes[lane] # <<>>
      /\ mem' = [mem EXCEPT ![transfer.to] = Moved(transfer)]
      /\ ex' = [ex EXCEPT ![e].lanes[lane] = Tail(@), ![e].completed[transfer.node] = @ + 1]
      /\ Publish(e, Graph(e).nodes[transfer.node], transfer.sc + 1)
      /\ UNCHANGED <<scenario, places, barriers, leases, num_readers, user, engine, streams>>

(* h2h_completion_pending_: how many slices of a node are finished without *)
(* a gap                                                                   *)
PublishedPrefix(e, n, pending) ==
  Max({ex[e].completed[n]} \cup
      {k \in 1 .. Work(e).subchunks : \A sc \in ex[e].completed[n] .. k - 1 : <<n, sc>> \in pending})

(* The completions of the current work that the engine has for node n *)
Completed(e, n) == {d \in completions[Rank(e)] : d.exec = e /\ d.seq = ex[e].seq /\ d.node = n}

(* pollH2HCompletions: the engine hands over the completions of the node   *)
(* for the current work, and drops the executor's older ones.              *)
PollH2H(e, n) ==
  LET mine    == Completed(e, n)
      old     == {d \in completions[Rank(e)] : d.exec = e /\ d.seq < ex[e].seq}
      pending == ex[e].pending \cup {<<d.node, d.sc>> : d \in mine}
      prefix  == PublishedPrefix(e, n, pending)
  IN  /\ ex[e].pc \in {"run", "failing"}
      /\ mine # {}
      /\ completions' = [completions EXCEPT ![Rank(e)] = @ \ (mine \cup old)]
      /\ ex' = [ex EXCEPT ![e].completed[n] = prefix,
                          ![e].pending = {f \in pending : f[1] # n \/ f[2] >= prefix}]
      /\ IF prefix > ex[e].completed[n]
         THEN Publish(e, Graph(e).nodes[n], prefix)
         ELSE UNCHANGED counters
      /\ UNCHANGED <<scenario, places, barriers, leases, num_readers, user, pool, working, streams, mem>>

TerminalsComplete(e) ==
  /\ \A n \in DOMAIN Graph(e).nodes : ex[e].completed[n] >= Work(e).subchunks
  /\ \A key \in Graph(e).terminal_outputs : write_progress[Place(e)][key][Epoch(e)] >= Work(e).subchunks

(* runGraph leaves its loop. *)
FinishLoop(e) ==
  /\ ex[e].pc = "run" /\ ~ex[e].failed
  /\ TerminalsComplete(e)
  /\ ArriveAt(e, "end")
  /\ UNCHANGED <<scenario, places, leases, counters, num_readers, user, engine, streams, mem>>

(* The work item is over, and the executor in state `fields`; what it      *)
(* leased is given back when the ranks meet once more.                     *)
LeaveWork(e, fields) ==
  /\ Arrive(Place(e), "release")
  /\ ex' = [ex EXCEPT ![e] =
        [fields EXCEPT !.pc = "release", !.generation = barrier_generation[Place(e)]["release"]]]

(* The end barrier is passed: signalComplete, finishCurrentWork, and only  *)
(* then the region.                                                        *)
PassEnd(e) ==
  /\ ex[e].pc = "end"
  /\ Passed(Place(e), "end", ex[e].generation)
  /\ Signal(e, {ex[e].seq})
  /\ LeaveWork(e, ex[e])
  /\ UNCHANGED <<scenario, places, leases, counters, num_readers, user, engine, mem>>

-----------------------------------------------------------------------------
(* Timeouts *)

(* finishCurrentWork with an error completes the work and the queued ones, *)
(* drops the queue and lets the executor admit no more; a work admitted    *)
(* before may still be pushed, popped and failed.                          *)
SignalAll(e) == Signal(e, {ex[e].seq} \cup {ex[e].queue[i] : i \in DOMAIN ex[e].queue})

Failed(e) == [ex[e] EXCEPT !.queue = <<>>, !.failed = TRUE, !.lanes = [l \in Lanes |-> <<>>]]

(* No region, or the acquire barrier times out: rank 0 takes back what it  *)
(* reserved.                                                               *)
TimeOutAcquire(e) ==
  /\ Scenario.failures
  /\ \/ ex[e].pc = "lease" /\ Rank(e) = 0
     \/ ex[e].pc = "acquire" /\ ~Passed(Place(e), "acquire", ex[e].generation)
  /\ staging_bytes' = IF Rank(e) = 0 /\ ex[e].pc = "acquire"
                      THEN [staging_bytes EXCEPT ![Place(e)] = [n \in Numas |-> 0]] ELSE staging_bytes
  /\ ex' = [ex EXCEPT ![e].pc = "unfinished"]
  /\ UNCHANGED <<scenario, places, barriers, staging_offset, counters, num_readers, user, engine, streams, mem>>

(* The start barrier times out: the region is given back first. *)
TimeOutStart(e) ==
  /\ Scenario.failures
  /\ ex[e].pc = "start" /\ ~Passed(Place(e), "start", ex[e].generation)
  /\ Arrive(Place(e), "release")
  /\ ex' = [ex EXCEPT ![e].pc = "give_back", ![e].generation = barrier_generation[Place(e)]["release"]]
  /\ UNCHANGED <<scenario, places, leases, counters, num_readers, user, engine, streams, mem>>

(* A work that was not started is finished with an error. *)
FinishUnstarted(e) ==
  /\ ex[e].pc = "unfinished"
  /\ SignalAll(e)
  /\ ex' = [ex EXCEPT ![e] = [Failed(e) EXCEPT !.pc = "idle"]]
  /\ UNCHANGED <<scenario, places, barriers, leases, counters, num_readers, user, engine, mem>>

(* The end barrier times out. *)
TimeOutEnd(e) ==
  /\ Scenario.failures
  /\ ex[e].pc = "end" /\ ~Passed(Place(e), "end", ex[e].generation)
  /\ SignalAll(e)
  /\ LeaveWork(e, Failed(e))
  /\ UNCHANGED <<scenario, places, leases, counters, num_readers, user, engine, mem>>

(* The loop ends with a timeout, or, once the doorbell has rung, because   *)
(* an earlier work has failed: the lanes are waited for, the completions   *)
(* there are taken ...                                                     *)
TimeOutRun(e) ==
  /\ Scenario.failures
  /\ ex[e].pc \in {"doorbell", "run"}
  /\ ex' = [ex EXCEPT ![e].pc = "failing"]
  /\ UNCHANGED <<scenario, places, barriers, leases, counters, num_readers, user, engine, streams, mem>>

(* ... and the work is finished with an error. *)
FinishFailed(e) ==
  /\ ex[e].pc = "failing"
  /\ \A l \in Lanes : ex[e].lanes[l] = <<>>
  /\ \A n \in DOMAIN ex[e].next : Completed(e, n) = {}
  /\ SignalAll(e)
  /\ LeaveWork(e, Failed(e))
  /\ UNCHANGED <<scenario, places, leases, counters, num_readers, user, engine, mem>>

(* The release barrier times out: the region stays reserved. *)
TimeOutRelease(e) ==
  /\ Scenario.failures
  /\ ex[e].pc \in {"release", "give_back"} /\ ~Passed(Place(e), "release", ex[e].generation)
  /\ ex' = Left(e)
  /\ UNCHANGED <<scenario, places, barriers, leases, counters, num_readers, user, engine, streams, mem>>

-----------------------------------------------------------------------------
(* The H2H engine of rank r *)

(* workerLoop: a worker takes the oldest shard of its node's queue ... *)
TakeShard(r, numa) ==
  /\ pool[r][numa] # <<>>
  /\ Cardinality(working[r][numa]) < Workers
  /\ working' = [working EXCEPT ![r][numa] = @ \cup {Head(pool[r][numa])}]
  /\ pool' = [pool EXCEPT ![r][numa] = Tail(@)]
  /\ UNCHANGED <<scenario, places, barriers, leases, counters, num_readers, user, completions, ex, streams, mem>>

(* The shards of the copy that are not done are this one. *)
LastShard(r, numa, item) ==
  /\ \A other \in working[r][numa] : other.transfer = item.transfer => other = item
  /\ \A i \in DOMAIN pool[r][numa] : pool[r][numa][i].transfer # item.transfer

(* ... and copies it; the last shard reports the completion                *)
(* (completeWorkItem).                                                     *)
FinishShard(r, numa) ==
  \E item \in working[r][numa] :
    /\ working' = [working EXCEPT ![r][numa] = @ \ {item}]
    /\ IF LastShard(r, numa, item)
       THEN /\ mem' = [mem EXCEPT ![item.transfer.to] = Moved(item.transfer)]
            /\ completions' = [completions EXCEPT ![r] = @ \cup
                 {[exec |-> item.transfer.exec, seq |-> item.transfer.seq,
                   node |-> item.transfer.node, sc |-> item.transfer.sc]}]
       ELSE UNCHANGED <<mem, completions>>
    /\ UNCHANGED <<scenario, places, barriers, leases, counters, num_readers, user, pool, ex, streams>>

-----------------------------------------------------------------------------

UserStep(r) ==
  \/ ClaimPlace(r) \/ SkipPlace(r) \/ NoPlace(r)
  \/ ArriveInit(r) \/ PassInit(r) \/ TimeOutInit(r) \/ DeleteComm(r)
  \/ Admit(r) \/ PrepareUserWait(r) \/ PrepareFails(r) \/ PushWork(r) \/ RefuseSubmit(r) \/ Synchronize(r)
  \/ JoinExecutor(r) \/ ReleasePlace(r) \/ NothingToDestroy(r)

NodeStep(e) ==
  \E n \in DOMAIN ex[e].next :
    SkipSlice(e, n) \/ SubmitDma(e, n) \/ SubmitH2H(e, n) \/ PollH2H(e, n)

ExecutorStep(e) ==
  \/ PopZeroesReaders(e) \/ PopSetsReaders(e)
  \/ LeaseRegion(e) \/ PassAcquire(e) \/ PassStart(e)
  \/ SeeDoorbell(e) \/ NodeStep(e) \/ (\E lane \in Lanes : PollLane(e, lane))
  \/ FinishLoop(e) \/ PassEnd(e) \/ PassRelease(e)
  \/ TimeOutAcquire(e) \/ TimeOutStart(e) \/ FinishUnstarted(e)
  \/ TimeOutEnd(e) \/ TimeOutRun(e) \/ FinishFailed(e) \/ TimeOutRelease(e)

EngineStep(r) == \E numa \in Numas : TakeShard(r, numa) \/ FinishShard(r, numa)

Next ==
  \/ \E r \in Ranks : UserStep(r) \/ EngineStep(r)
  \/ \E e \in Executors : ExecutorStep(e) \/ RingDoorbell(e)

Spec == Init /\ [][Next]_vars

-----------------------------------------------------------------------------
(* Properties *)

(* Places, regions, counters and queues keep to their ranges.              *)
TypeOK ==
  /\ place_hash \in [Places -> Comms \cup {Free}]
  /\ place_refs \in [Places -> 0 .. Cardinality(Ranks)]
  /\ barrier_count \in [Places -> [Slots -> 0 .. Cardinality(Ranks) - 1]]
  /\ write_progress \in [Places -> [Keys -> [0 .. 1 -> 0 .. MaxSubchunks]]]
  /\ consume_progress \in [Places -> [Keys -> [0 .. 1 -> 0 .. MaxSubchunks]]]
  /\ num_readers \in [Places -> [Keys -> 0 .. MaxReaders]]
  /\ \A e \in Executors :
       /\ released[e] <= rung[e] /\ rung[e] <= ex[e].submitted
       /\ Len(ex[e].queue) <= QueueDepth
       /\ \A l \in Lanes : Len(ex[e].lanes[l]) <= LaneDepth

(* A rank has lost a number the others keep and its program went on, or    *)
(* its executor has failed and then taken a work that was pushed late.     *)
(* From then on the ranks may meet with different works.                   *)
Parted(c) == \E r \in Ranks : ex[<<c, r>>].astray

Running(e) == ex[e].pc \in {"doorbell", "run"}

(* What work seq must leave in slice sc of an output location *)
Wanted(e, seq, loc, sc) == {<<in[1], in[2], in[3], sc>> : in \in WorkOf(e, seq).expected[loc]}

(* From the moment a user stream is released from a work item until it     *)
(* rings for the next, the rank's outputs hold exactly the result: no      *)
(* stale progress, no region shared with another communicator, no slice    *)
(* published before its copy is done, no buffer replaced under a transfer. *)
ResultCorrect ==
  \A e \in Executors :
    (~ex[e].failed /\ ~Parted(Comm(e)) /\ released[e] > 0 /\ rung[e] = released[e]) =>
      \A loc \in DOMAIN WorkOf(e, released[e]).expected, sc \in 0 .. WorkOf(e, released[e]).subchunks - 1 :
        (loc[2] = Rank(e) /\ <<loc, sc>> \notin WorkOf(e, released[e]).empty) =>
          mem[<<Comm(e), WorkOf(e, released[e]).home[loc], sc>>] = Wanted(e, released[e], loc, sc)

(* A work item that may touch the staging buffers uses the region reserved *)
(* for its place, and no reserved region overlaps another                  *)
(* (shared_state.hpp: "Active communicators reserve disjoint byte          *)
(* ranges"), the ranks' works being the same.                              *)
RegionHeld ==
  /\ \A e \in Executors : ((Running(e) \/ ex[e].pc = "failing") /\ ~Parted(Comm(e))) =>
       \A n \in Numas : /\ staging_bytes[Place(e)][n] >= Work(e).required[n]
                        /\ Work(e).required[n] > 0 => staging_offset[Place(e)][n] = ex[e].offset[n]
  /\ \A p, q \in Places : p # q =>
       \A n \in Numas : (staging_bytes[p][n] > 0 /\ staging_bytes[q][n] > 0) =>
         ~Overlap(staging_offset[p][n], staging_bytes[p][n], staging_offset[q][n], staging_bytes[q][n])

(* While a rank runs a work item nobody clears its counters or changes the *)
(* reader counts they are compared with (runGraph: "Resetting at the end   *)
(* lets a faster rank enter the next graph while a slower rank is still    *)
(* clearing overlapping keys").  The exception: an executor that fails may *)
(* be pushed a work it had admitted before, and takes it while the others  *)
(* still run the one that failed.                                          *)
NoResetUnderway ==
  [][\A e \in Executors : (Running(e) /\ Running(e)' /\ ~Parted(Comm(e))') =>
       \A key \in Graph(e).active_progress_keys :
         /\ write_progress'[Place(e)][key][Epoch(e)] >= write_progress[Place(e)][key][Epoch(e)]
         /\ consume_progress'[Place(e)][key][Epoch(e)] >= consume_progress[Place(e)][key][Epoch(e)]
         /\ num_readers'[Place(e)][key] = num_readers[Place(e)][key]]_vars

(* The place of a live executor is its communicator's, and so no other     *)
(* communicator's counters and barriers are there (shared_state.hpp: a     *)
(* slot "is not reusable until every rank has destroyed its local          *)
(* communicator").  An executor whose communicator failed to set up is     *)
(* deleted after its place, and is given nothing to do in between.         *)
PlaceHeld == \A e \in Executors : ex[e].pc \notin {"none", "dropped"} => place_hash[Place(e)] = Comm(e)

(* What a communicator uses in shared memory is its own while it uses it. *)
ResourcesHeld == TypeOK /\ RegionHeld /\ PlaceHeld

Finished ==
  /\ \A r \in Ranks : user[r].at > Len(Scenario.script)
  /\ \A e \in Executors : ex[e].pc \in {"none", "idle"} /\ ex[e].queue = <<>>

(* Until every call has returned and every work item has ended somebody    *)
(* can go on: the ranks never wait for each other's barriers, regions,     *)
(* doorbells and slices in a circle.  No step is ever repeated, so that    *)
(* everything ends.                                                        *)
NobodyStuck == Finished \/ ENABLED Next

=============================================================================
