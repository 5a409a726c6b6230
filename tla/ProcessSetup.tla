---------------------------- MODULE ProcessSetup ----------------------------
(***************************************************************************)
(* How the processes of a PCCL job come together: the first communicator   *)
(* sets up the process (shared state segment, host pool passed on through  *)
(* a bootstrap segment and a socket, a barrier), every communicator claims *)
(* a place in the shared state, sets up its own resources and crosses two  *)
(* barriers; collectives with peer access publish their buffers in the     *)
(* shared state, meet, and map what the peers published.                   *)
(*                                                                         *)
(* A process runs one program.  A shared-memory name may be left from a    *)
(* job that crashed; the object it then stands for has version 0, the one  *)
(* this job makes has version 1.  The barrier is the one of SharedBarrier, *)
(* taken here at its promise (BarrierPromise).                             *)
(***************************************************************************)
EXTENDS Integers, Sequences, FiniteSets, Functions

CONSTANTS
  Scenarios,     \* programs, communicators, failures
  Leftovers      \* whether names of a crashed job with the same id may exist

ASSUME SetupAssumption ==
  /\ Leftovers \subseteq BOOLEAN
  /\ \A s \in Scenarios : s.places \in Nat \ {0}

VARIABLES
  scenario,
  ip, pc, result,              \* each process: position, step, results of its calls
  attached, s_initialized,     \* each process: its shared state object, and whether set-up is done
  pool, boot,                  \* each process: the pool being opened, the bootstrap object it sees
  comm_id, attempt,            \* each process: places of its communicators, probes made
  where, my_gen,               \* each process: the barrier it is in
  local_ipc, rd, remote_ipc,   \* each process: what it published, a read under way, its mappings
  files,                       \* shared-memory names: version of the object, or -1
  ready, served,               \* bootstrap objects; joiners that have got the descriptors
  inited, table,               \* shared state objects: constructed; user_ready_comm_hash
  count, generation,           \* shared state objects: the barriers
  published, device_ipc,       \* shared state objects: set-ups announced; records of buffers
  bound                        \* history: the memory bound for each call

program == <<scenario>>
position == <<ip, pc, result>>
opening == <<attached, s_initialized, pool, boot>>
claiming == <<comm_id, attempt>>
waiting == <<where, my_gen>>
reading == <<local_ipc, rd, remote_ipc, bound>>
names == <<files, ready, served>>
segment == <<inited, table, published>>
barriers == <<count, generation>>
vars == <<program, position, opening, claiming, waiting, reading, names, segment, barriers, device_ipc>>

ProcIds == 1..3                       \* bound on the processes of a scenario
MaxPlaces == 3                        \* bound on PCCL_MAX_CONCURRENT_COMMS

Procs == DOMAIN scenario.prog
Comms == {"X", "Y", "Z"}
Members(c) == {p \in Procs : \E o \in Range(scenario.prog[p]) : o.op = "init" /\ o.comm = c}
RankIn(p, c) == Cardinality({q \in Members(c) : q < p})
Op(p) == scenario.prog[p][ip[p]]
At(p, label) == p \in Procs /\ ip[p] <= Len(scenario.prog[p]) /\ pc[p] = label
Place == 0..MaxPlaces - 1
Objects == Comms \X {0, 1}            \* shared state objects: unique id, version
Names == Comms \X {"state", "host", "small"}
None == -1
NoBuffer == [base |-> 0, alloc |-> 0, offset |-> 0]
NoRecord == [seq |-> 0, fields |-> NoBuffer, handle |-> 0]
NoMapping == [base |-> 0, alloc |-> 0]

Init ==
  /\ scenario \in Scenarios
  /\ ip = [p \in Procs |-> 1]
  /\ pc = [p \in Procs |-> "call"]
  /\ result = {}
  /\ attached = [p \in Procs |-> <<"none", 0>>]
  /\ s_initialized = [p \in Procs |-> FALSE]
  /\ pool = [p \in Procs |-> "host"]
  /\ boot = [p \in Procs |-> None]
  /\ comm_id = [p \in Procs |-> [c \in Comms |-> None]]
  /\ attempt = [p \in Procs |-> 0]
  /\ where = [p \in Procs |-> "none"]
  /\ my_gen = [p \in Procs |-> 0]
  /\ local_ipc = [p \in Procs |-> NoBuffer]
  /\ rd = [p \in Procs |-> NoRecord]
  /\ remote_ipc = [p \in Procs |-> [q \in Procs |-> NoMapping]]
  /\ \E left \in Leftovers :
       /\ files = [n \in Names |-> IF left THEN 0 ELSE None]
       /\ ready = {<<n, 0>> : n \in {m \in Names : left}}
  /\ served = {}
  /\ inited = {<<c, 0>> : c \in Comms}
  /\ table = [o \in Objects |-> [i \in Place |-> "empty"]]
  /\ count = [o \in Objects |-> [i \in Place |-> [k \in {0, 1} |-> 0]]]
  /\ generation = [o \in Objects |-> [i \in Place |-> [k \in {0, 1} |-> 0]]]
  /\ published = {}
  /\ device_ipc = [o \in Objects |-> [p \in Procs |-> NoRecord]]
  /\ bound = {}

Goto(p, label) == pc' = [pc EXCEPT ![p] = label]
Return(p, ret) ==
  /\ ip' = [ip EXCEPT ![p] = @ + 1]
  /\ pc' = [pc EXCEPT ![p] = "call"]
  /\ result' = result \cup 
       {[comm |-> Op(p).comm, proc |-> p, op |-> Op(p).op, ret |-> ret,
         state |-> attached[p], place |-> comm_id[p][Op(p).comm]]}

(* what a call of the program has come to, from the outside *)
Failed(c) == \E r \in result : r.comm = c /\ r.op = "init" /\ r.ret # "success"

(***************************************************************************)
(* pcclCommInitRank, first part: pcclInitInternal on the first             *)
(* communicator.  Rank 0 of that communicator creates.                     *)
(***************************************************************************)
pcclCommInitRank(p) ==
  /\ At(p, "call") /\ Op(p).op = "init"
  /\ Goto(p, IF s_initialized[p] THEN "claim"
             ELSE IF RankIn(p, Op(p).comm) = 0 THEN "unlink" ELSE "open")
  /\ attempt' = [attempt EXCEPT ![p] = 0]
  /\ UNCHANGED <<program, ip, result, opening, comm_id, waiting, reading, names, segment, barriers, device_ipc>>

(* SharedStateManager, creator: unlink a stale name, create, construct *)
UnlinkStale(p) ==
  /\ At(p, "unlink")
  /\ files' = [files EXCEPT ![<<Op(p).comm, "state">>] = None]
  /\ Goto(p, "create")
  /\ UNCHANGED <<program, ip, result, opening, claiming, waiting, reading, ready, served, segment, barriers, device_ipc>>

(* mutant: leaves the new segment as the kernel gives it *)
CreateState_NotConstructed(p) ==
  /\ At(p, "create")
  /\ files' = [files EXCEPT ![<<Op(p).comm, "state">>] = 1]
  /\ attached' = [attached EXCEPT ![p] = <<Op(p).comm, 1>>]
  /\ Goto(p, "bootstrap")
  /\ UNCHANGED <<program, ip, result, s_initialized, pool, boot, claiming, waiting, reading, ready, served,
                 segment, barriers, device_ipc>>

CreateState(p) ==
  /\ At(p, "create")
  /\ files' = [files EXCEPT ![<<Op(p).comm, "state">>] = 1]
  /\ attached' = [attached EXCEPT ![p] = <<Op(p).comm, 1>>]
  /\ Goto(p, "construct")
  /\ UNCHANGED <<program, ip, result, s_initialized, pool, boot, claiming, waiting, reading, ready, served,
                 segment, barriers, device_ipc>>

(* memset of the whole segment: what others have written is gone *)
ConstructState(p) ==
  LET o == attached[p]
  IN /\ At(p, "construct")
     /\ inited' = inited \cup {o}
     /\ table' = [table EXCEPT ![o] = [i \in Place |-> "empty"]]
     /\ count' = [count EXCEPT ![o] = [i \in Place |-> [k \in {0, 1} |-> 0]]]
     /\ generation' = [generation EXCEPT ![o] = [i \in Place |-> [k \in {0, 1} |-> 0]]]
     /\ pool' = [pool EXCEPT ![p] = "host"]
     /\ Goto(p, "bootstrap")
     /\ UNCHANGED <<program, ip, result, attached, s_initialized, boot, claiming, waiting, reading, names,
                    published, device_ipc>>

(* joiner: opens the name as soon as it exists *)
OpenState(p) ==
  LET n == <<Op(p).comm, "state">>
  IN /\ At(p, "open")
     /\ files[n] # None
     /\ attached' = [attached EXCEPT ![p] = <<Op(p).comm, files[n]>>]
     /\ pool' = [pool EXCEPT ![p] = "host"]
     /\ Goto(p, "openBootstrap")
     /\ UNCHANGED <<program, ip, result, s_initialized, boot, claiming, waiting, reading, names, segment,
                    barriers, device_ipc>>

(***************************************************************************)
(* HostMemoryPool: the creator makes a bootstrap segment, allocates,       *)
(* listens, marks it ready and hands the descriptors to nranks - 1         *)
(* joiners; a joiner waits for the mark and fetches them.  Used for the    *)
(* host pool of the process and the small-message pool of a communicator.  *)
(***************************************************************************)
PoolName(p) == <<Op(p).comm, pool[p]>>
AfterPool(p) == IF pool[p] = "host" THEN "initialize" ELSE "publish"

CreateBootstrap(p) ==
  /\ At(p, "bootstrap")
  /\ files' = [files EXCEPT ![PoolName(p)] = 1]
  /\ Goto(p, "ready")
  /\ UNCHANGED <<program, ip, result, opening, claiming, waiting, reading, ready, served, segment, barriers, device_ipc>>

MarkReady(p) ==
  /\ At(p, "ready")
  /\ ready' = ready \cup {<<PoolName(p), 1>>}
  /\ Goto(p, "serve")
  /\ UNCHANGED <<program, ip, result, opening, claiming, waiting, reading, files, served, segment, barriers, device_ipc>>

Joined(n) == {q \in Procs : <<n, q>> \in served}

ServeFds(p) ==
  LET n == PoolName(p)
      joiners == Members(Op(p).comm) \ {p}
  IN /\ At(p, "serve")
     /\ \/ \E q \in joiners \ Joined(n) :
             /\ At(q, "connect") /\ PoolName(q) = n
             /\ served' = served \cup {<<n, q>>}
             /\ UNCHANGED pc
        \/ /\ Joined(n) = joiners
           /\ Goto(p, AfterPool(p))
           /\ UNCHANGED served
     /\ UNCHANGED <<program, ip, result, opening, claiming, waiting, reading, files, ready, segment, barriers, device_ipc>>

OpenBootstrap(p) ==
  /\ At(p, "openBootstrap")
  /\ files[PoolName(p)] # None
  /\ boot' = [boot EXCEPT ![p] = files[PoolName(p)]]
  /\ Goto(p, "awaitReady")
  /\ UNCHANGED <<program, ip, result, attached, s_initialized, pool, claiming, waiting, reading, names, segment,
                 barriers, device_ipc>>

(* mutant: polls for the name for ever *)
GiveUpBootstrap_Never(p) ==
  /\ At(p, "openBootstrap") /\ FALSE
  /\ UNCHANGED vars

(* the name does not appear within 10 s: no small-message pool *)
GiveUpBootstrap(p) ==
  /\ At(p, "openBootstrap") /\ pool[p] = "small"
  /\ files[PoolName(p)] = None /\ Failed(Op(p).comm)
  /\ Goto(p, "publish")
  /\ UNCHANGED <<program, ip, result, opening, claiming, waiting, reading, names, segment, barriers, device_ipc>>

AwaitReady(p) ==
  /\ At(p, "awaitReady")
  /\ <<PoolName(p), boot[p]>> \in ready
  /\ Goto(p, "connect")
  /\ UNCHANGED <<program, ip, result, opening, claiming, waiting, reading, names, segment, barriers, device_ipc>>

ReceiveFds(p) ==
  /\ At(p, "connect")
  /\ <<PoolName(p), p>> \in served
  /\ Goto(p, AfterPool(p))
  /\ UNCHANGED <<program, ip, result, opening, claiming, waiting, reading, names, segment, barriers, device_ipc>>

(***************************************************************************)
(* SharedStateManager::barrier: the counter is chosen by communicator and  *)
(* by where the caller stands (barrierSlotForWhere).                       *)
(***************************************************************************)
BarrierComm(p) == IF where[p] = "initialize" THEN 0 ELSE comm_id[p][Op(p).comm]
BarrierSlot(p) == IF where[p] = "submit" THEN 1 ELSE 0

EnterBarrier(p) ==
  /\ \E w \in {"initialize", "small_fastpath", "commInit", "submit"} :
       At(p, w) /\ where' = [where EXCEPT ![p] = w]
  /\ Goto(p, "arrive")
  /\ UNCHANGED <<program, ip, result, opening, claiming, my_gen, reading, names, segment, barriers, device_ipc>>

AfterBarrier(p) ==
  CASE where[p] = "initialize" -> Goto(p, "claim") /\ UNCHANGED <<ip, result>>
    [] where[p] = "small_fastpath" -> Goto(p, "commInit") /\ UNCHANGED <<ip, result>>
    [] where[p] = "commInit" -> Return(p, "success")
    [] where[p] = "submit" -> Goto(p, "read") /\ UNCHANGED <<ip, result>>

MarkInitialized(p) ==
  s_initialized' = [s_initialized EXCEPT ![p] = @ \/ where[p] = "initialize"]

Arrive(p) ==
  LET o == attached[p]
      i == BarrierComm(p)
      k == BarrierSlot(p)
      last == count[o][i][k] + 1 = Cardinality(Members(Op(p).comm))
  IN /\ At(p, "arrive")
     /\ count' = [count EXCEPT ![o][i][k] = IF last THEN 0 ELSE @ + 1]
     /\ my_gen' = [my_gen EXCEPT ![p] = generation[o][i][k]]
     /\ IF last
        THEN /\ generation' = [generation EXCEPT ![o][i][k] = @ + 1]
             /\ AfterBarrier(p) /\ MarkInitialized(p)
        ELSE /\ Goto(p, "wait")
             /\ UNCHANGED <<ip, result, generation, s_initialized>>
     /\ UNCHANGED <<program, attached, pool, boot, claiming, where, reading, names, segment, device_ipc>>

(* mutant: does not wait for the generation to move *)
PassBarrier_AtOnce(p) ==
  /\ At(p, "wait")
  /\ AfterBarrier(p) /\ MarkInitialized(p)
  /\ UNCHANGED <<program, attached, pool, boot, claiming, waiting, reading, names, segment, barriers, device_ipc>>

PassBarrier(p) ==
  /\ At(p, "wait")
  /\ generation[attached[p]][BarrierComm(p)][BarrierSlot(p)] > my_gen[p]
  /\ AfterBarrier(p) /\ MarkInitialized(p)
  /\ UNCHANGED <<program, attached, pool, boot, claiming, waiting, reading, names, segment, barriers, device_ipc>>

(* PCCL_BARRIER_TIMEOUT_MS passes; only where a rank will never come *)
BarrierTimeout(p) ==
  /\ At(p, "wait") /\ Failed(Op(p).comm)
  /\ generation[attached[p]][BarrierComm(p)][BarrierSlot(p)] <= my_gen[p]
  /\ Return(p, "timeout")
  /\ UNCHANGED <<program, opening, claiming, waiting, reading, names, segment, barriers, device_ipc>>

(***************************************************************************)
(* pcclCommInitRank, second part.                                          *)
(***************************************************************************)
(* userReadyCommSlot: one compare-and-swap per probe *)
ProbeAt(p) == (scenario.hash[Op(p).comm] + attempt[p]) % scenario.places

(* mutant: a load and a store in place of the compare-and-swap *)
UserReadyCommSlot_LoadThenStore(p) ==
  LET o == attached[p]
      c == Op(p).comm
      i == ProbeAt(p)
  IN /\ \/ /\ At(p, "claim")
           /\ attempt[p] < 2 * scenario.places
           /\ IF table[o][i] \in {"empty", c}
              THEN Goto(p, "store") /\ UNCHANGED attempt
              ELSE /\ attempt' = [attempt EXCEPT ![p] = @ + 1]
                   /\ UNCHANGED pc
           /\ UNCHANGED <<table, comm_id>>
        \/ /\ At(p, "store")
           /\ table' = [table EXCEPT ![o][i] = c]
           /\ comm_id' = [comm_id EXCEPT ![p][c] = i]
           /\ Goto(p, "setup")
           /\ UNCHANGED attempt
     /\ UNCHANGED <<program, ip, result, opening, waiting, reading, names, inited, published, barriers, device_ipc>>

UserReadyCommSlot(p) ==
  LET o == attached[p]
      c == Op(p).comm
      i == ProbeAt(p)
  IN /\ At(p, "claim")
     /\ attempt[p] < 2 * scenario.places
     /\ table' = [table EXCEPT ![o][i] = IF @ = "empty" THEN c ELSE @]
     /\ IF table[o][i] \in {"empty", c}
        THEN /\ comm_id' = [comm_id EXCEPT ![p][c] = i]
             /\ Goto(p, "setup")
             /\ UNCHANGED attempt
        ELSE /\ attempt' = [attempt EXCEPT ![p] = @ + 1]
             /\ UNCHANGED <<comm_id, pc>>
     /\ UNCHANGED <<program, ip, result, opening, waiting, reading, names, inited, published, barriers, device_ipc>>

NoPlace(p) ==
  /\ At(p, "claim")
  /\ attempt[p] = 2 * scenario.places
  /\ Return(p, "internalError")
  /\ UNCHANGED <<program, opening, claiming, waiting, reading, names, segment, barriers, device_ipc>>

(* the device, its kernels, the internal buffer, the completion flag *)
SetUpDevice(p) ==
  LET c == Op(p).comm
  IN /\ At(p, "setup")
     /\ IF <<p, c>> \in scenario.fails
        THEN Return(p, "deviceError") /\ UNCHANGED pool
        ELSE /\ pool' = [pool EXCEPT ![p] = "small"]
             /\ Goto(p, IF RankIn(p, c) = 0 THEN "bootstrap" ELSE "openBootstrap")
             /\ UNCHANGED <<ip, result>>
     /\ UNCHANGED <<program, attached, s_initialized, boot, claiming, waiting, reading, names, segment, barriers, device_ipc>>

PublishFastpathStatus(p) ==
  /\ At(p, "publish")
  /\ published' = published \cup {<<attached[p], comm_id[p][Op(p).comm], p>>}
  /\ Goto(p, "small_fastpath")
  /\ UNCHANGED <<program, ip, result, opening, claiming, waiting, reading, names, inited, table, barriers, device_ipc>>

(***************************************************************************)
(* A collective with peer access: registerDeviceBuffers publishes the      *)
(* buffer under a sequence number that is odd meanwhile, the ranks meet,   *)
(* and each maps what its peers have published.                            *)
(***************************************************************************)
RegisterDeviceBuffers(p) ==
  /\ At(p, "call") /\ Op(p).op = "collective"
  /\ Goto(p, IF local_ipc[p] = Op(p).buffer THEN "submit" ELSE "beginPublish")
  /\ UNCHANGED <<program, ip, result, opening, claiming, waiting, reading, names, segment, barriers, device_ipc>>

Publishing(p, label, next) == At(p, label) /\ Goto(p, next)
PublishRest(p) ==
  UNCHANGED <<program, ip, result, opening, claiming, waiting, names, segment, barriers>>

BeginPublish(p) ==
  /\ Publishing(p, "beginPublish", "publishFields")
  /\ device_ipc' = [device_ipc EXCEPT ![attached[p]][p].seq = @ + 1]
  /\ UNCHANGED reading /\ PublishRest(p)

PublishFields(p) ==
  /\ Publishing(p, "publishFields", "publishHandle")
  /\ device_ipc' = [device_ipc EXCEPT ![attached[p]][p].fields = Op(p).buffer]
  /\ UNCHANGED reading /\ PublishRest(p)

PublishHandle(p) ==
  /\ Publishing(p, "publishHandle", "endPublish")
  /\ device_ipc' = [device_ipc EXCEPT ![attached[p]][p].handle = Op(p).buffer.alloc]
  /\ UNCHANGED reading /\ PublishRest(p)

EndPublish(p) ==
  /\ Publishing(p, "endPublish", "submit")
  /\ device_ipc' = [device_ipc EXCEPT ![attached[p]][p].seq = @ + 1]
  /\ local_ipc' = [local_ipc EXCEPT ![p] = Op(p).buffer]
  /\ UNCHANGED <<rd, remote_ipc, bound>> /\ PublishRest(p)

(* readDeviceIpcBuffer for the peer (collectives here have two ranks) *)
Peer(p) == CHOOSE q \in Members(Op(p).comm) : q # p
RecordOf(p) == device_ipc[attached[p]][Peer(p)]
ReadRest(p) ==
  UNCHANGED <<program, opening, claiming, waiting, local_ipc, names, segment, barriers, device_ipc>>

ReadSeq(p) ==
  /\ At(p, "read")
  /\ RecordOf(p).seq # 0 /\ RecordOf(p).seq % 2 = 0
  /\ rd' = [rd EXCEPT ![p] = [NoRecord EXCEPT !.seq = RecordOf(p).seq]]
  /\ Goto(p, "readFields")
  /\ UNCHANGED <<ip, result, remote_ipc, bound>> /\ ReadRest(p)

ReadFields(p) ==
  /\ At(p, "readFields")
  /\ rd' = [rd EXCEPT ![p].fields = RecordOf(p).fields]
  /\ Goto(p, "readHandle")
  /\ UNCHANGED <<ip, result, remote_ipc, bound>> /\ ReadRest(p)

ReadHandle(p) ==
  /\ At(p, "readHandle")
  /\ rd' = [rd EXCEPT ![p].handle = RecordOf(p).handle]
  /\ Goto(p, "checkSeq")
  /\ UNCHANGED <<ip, result, remote_ipc, bound>> /\ ReadRest(p)

(* mutant: takes the copy without looking at the sequence number again *)
CheckSeq_Skipped(p) ==
  /\ At(p, "checkSeq")
  /\ Goto(p, "map")
  /\ UNCHANGED <<ip, result, rd, remote_ipc, bound>> /\ ReadRest(p)

CheckSeq(p) ==
  /\ At(p, "checkSeq")
  /\ Goto(p, IF RecordOf(p).seq = rd[p].seq THEN "map" ELSE "read")
  /\ UNCHANGED <<ip, result, rd, remote_ipc, bound>> /\ ReadRest(p)

(* getRemoteDeviceBuffer: a mapping of the same base address is kept *)
MapRemote(p) ==
  LET q == Peer(p)
      kept == remote_ipc[p][q].base = rd[p].fields.base
      m == IF kept THEN remote_ipc[p][q]
           ELSE [base |-> rd[p].fields.base, alloc |-> rd[p].handle]
  IN /\ At(p, "map")
     /\ remote_ipc' = [remote_ipc EXCEPT ![p][q] = m]
     /\ bound' = bound \cup {[proc |-> p, peer |-> q, call |-> ip[p],
                              alloc |-> m.alloc, offset |-> rd[p].fields.offset]}
     /\ Return(p, "success")
     /\ UNCHANGED rd /\ ReadRest(p)

(***************************************************************************)
(* pcclFinalize: mappings and segments are given up; the creator removes   *)
(* the names.  The next pcclCommInitRank sets the process up again.        *)
(***************************************************************************)
pcclFinalize(p) ==
  LET u == attached[p][1]
      creator == attached[p] # <<"none", 0>> /\ RankIn(p, u) = 0
  IN /\ At(p, "call") /\ Op(p).op = "finalize"
     /\ s_initialized' = [s_initialized EXCEPT ![p] = FALSE]
     /\ attached' = [attached EXCEPT ![p] = <<"none", 0>>]
     /\ comm_id' = [comm_id EXCEPT ![p] = [c \in Comms |-> None]]
     /\ local_ipc' = [local_ipc EXCEPT ![p] = NoBuffer]
     /\ remote_ipc' = [remote_ipc EXCEPT ![p] = [q \in Procs |-> NoMapping]]
     /\ files' = [n \in Names |-> IF creator /\ n \in {u} \X {"state", "host"} THEN None ELSE files[n]]
     /\ Return(p, "success")
     /\ UNCHANGED <<program, pool, boot, attempt, waiting, rd, bound, ready, served, segment, barriers, device_ipc>>

Finished == \A p \in Procs : ip[p] > Len(scenario.prog[p])

Step(p) ==
  \/ pcclCommInitRank(p) \/ UnlinkStale(p) \/ CreateState(p) \/ ConstructState(p) \/ OpenState(p)
  \/ CreateBootstrap(p) \/ MarkReady(p) \/ ServeFds(p) \/ OpenBootstrap(p) \/ GiveUpBootstrap(p)
  \/ AwaitReady(p) \/ ReceiveFds(p)
  \/ EnterBarrier(p) \/ Arrive(p) \/ PassBarrier(p) \/ BarrierTimeout(p)
  \/ UserReadyCommSlot(p) \/ NoPlace(p) \/ SetUpDevice(p) \/ PublishFastpathStatus(p)
  \/ RegisterDeviceBuffers(p) \/ BeginPublish(p) \/ PublishFields(p) \/ PublishHandle(p) \/ EndPublish(p)
  \/ ReadSeq(p) \/ ReadFields(p) \/ ReadHandle(p) \/ CheckSeq(p) \/ MapRemote(p)
  \/ pcclFinalize(p)

Next == \E p \in ProcIds : Step(p)

(* every process runs; waits poll *)
Spec == Init /\ [][Next]_vars /\ \A p \in ProcIds : WF_vars(Step(p))

(* Ranges of the shared counters: no barrier counts more arrivals than its *)
(* ranks, and nobody is served twice.                                      *)
TypeOK ==
  /\ \A p \in Procs : ip[p] \in 1..Len(scenario.prog[p]) + 1 /\ comm_id[p] \in [Comms -> Place \cup {None}]
  /\ \A o \in Objects, i \in Place, k \in {0, 1} : count[o][i][k] \in 0..Cardinality(Procs) - 1
  /\ files \in [Names -> {None, 0, 1}]
  /\ table \in [Objects -> [Place -> Comms \cup {"empty"}]]

(* A process that uses the shared state (it is in a barrier or past the    *)
(* first one) uses a constructed object, the one the creator of the job    *)
(* made: no arrival is wiped out by the creator's memset                   *)
(* (shared_state.cpp:116-120, kept apart by the order in                   *)
(* ProcessState::initialize).                                              *)
AttachedToJob ==
  \A p \in Procs :
    (s_initialized[p] \/ pc[p] \in {"initialize", "arrive", "wait"}) =>
      attached[p][2] = 1 /\ attached[p] \in inited

(* In a shared state a place belongs to one communicator and a             *)
(* communicator has one place, whichever rank claims first; a communicator *)
(* that finds no place finds none on any rank (shared_state.cpp:408-424).  *)
PlaceIdentifies ==
  /\ \A p, q \in Procs, c, d \in Comms :
       comm_id[p][c] # None /\ comm_id[q][d] # None /\ attached[p] = attached[q] =>
         (c = d <=> comm_id[p][c] = comm_id[q][d])
  /\ \A r \in result : r.ret = "internalError" =>
       \A q \in Members(r.comm) : comm_id[q][r.comm] = None

(* pcclCommInitRank succeeds on a rank only when every rank has finished   *)
(* its own set-up: a first collective never meets a peer that is not there *)
(* (pccl_api.cpp:815-830).                                                 *)
InitTogether ==
  \A r \in result : r.op = "init" /\ r.ret = "success" =>
    \A q \in Members(r.comm) :
      <<r.state, r.place, q>> \in published

(* The memory a rank maps for a call is one its peer registered for this   *)
(* call or a later one: never a mixture of two records, an older buffer or *)
(* a mapping of another allocation (shared_state.cpp:183-235,              *)
(* process_state.cpp:440-505).                                             *)
BindsRegistered ==
  \A b \in bound :
    \E j \in b.call..Len(scenario.prog[b.peer]) :
      LET o == scenario.prog[b.peer][j]
      IN o.op = "collective" /\ o.buffer.alloc = b.alloc /\ o.buffer.offset = b.offset

(* Processes that come in any order end up in one shared state, at the     *)
(* same places, and together.                                              *)
SetUpTogether == TypeOK /\ AttachedToJob /\ PlaceIdentifies /\ InitTogether

(* Every call returns on every process, also when rank 0 of a communicator *)
(* fails in its set-up.                                                    *)
EveryCallReturns == <>Finished
====
