----------------------------- MODULE ParamStore -----------------------------
(***************************************************************************)
(* The orchestrator's feedback loop: before every collective the ranks of  *)
(* a communicator meet in a shared-memory segment (ShmParamStore), rank 0  *)
(* turns the measurements of earlier collectives into new split            *)
(* parameters, all ranks take them over and cross a barrier, so that each  *)
(* of them plans the same split.  Measurements arrive from host callbacks  *)
(* that run when the collectives end, concurrently with later launches.    *)
(* Parameters are numbered by the update that made them; 0 is the default. *)
(***************************************************************************)
EXTENDS Integers, Sequences, FiniteSets

CONSTANTS
  NRanks,        \* ranks of the communicator
  Keys,          \* operation keys the program uses
  SplitKeys,     \* keys whose messages reach AMPCCL_MIN_MSG_SIZE
  Programs,      \* what may happen: the keys of the application's collectives, how
                 \*   many it leaves running, outcomes of the PCIe submissions
  Leftovers,     \* what the segment may hold at the start
  FastOnlyLog    \* AMPCCL_FAST_ONLY_BW_LOG: unsplit collectives are measured too

Ranks == 0..NRanks - 1

ASSUME StoreAssumption ==
  /\ NRanks \in Nat /\ NRanks > 1
  /\ SplitKeys \subseteq Keys
  /\ \A p \in Programs : p.keys \in Seq(Keys) /\ p.depth \in Nat \ {0} /\ p.results \subseteq BOOLEAN
  /\ Leftovers \subseteq {"absent", "clean", "crashed"}
  /\ Leftovers \subseteq {"absent"} \/ SplitKeys # {}    \* what an earlier job left is about one
  /\ FastOnlyLog \in BOOLEAN

VARIABLES
  program,            \* the program all ranks run
  \* the segment
  magic, stat_epoch, slots, param_read_count, barrier_count, barrier_sense, entries, pver,
  \* each rank: launching thread
  pc, attached, begun, launched, cache, my_sense, v1, snapshot, used,
  \* rank 0's aggregate, and the callback thread of each rank
  agg, pending, callback

stats == <<stat_epoch, slots>>
params == <<param_read_count, entries, pver>>
barrier == <<barrier_count, barrier_sense>>
progress == <<program, attached, begun, launched, used>>
reading == <<cache, v1, snapshot, agg>>
callbacks == <<pending, callback>>
segment == <<magic, stats, params, barrier>>
launcher == <<pc, progress, reading, my_sense>>
vars == <<segment, launcher, callbacks>>

(* ParamValue and Plan: alpha by the number of the update it comes from *)
Default == [alpha |-> 0, use_pcie |-> TRUE]
NoEntry == [key |-> "none", val |-> Default]
NoStat == [epoch |-> 0, coll |-> 0, ok |-> TRUE, valid |-> FALSE]
Idle == [coll |-> 0, ok |-> TRUE]
Values == [alpha : Nat, use_pcie : BOOLEAN]
Entries == [key : Keys \cup {"none"}, val : Values]
KeyOf(c) == program.keys[c]

(* Counters of the segment stay in range: param_read_count never passes    *)
(* the number of readers, the barrier count the number of ranks.           *)
TypeOK ==
  /\ program \in Programs
  /\ magic \in BOOLEAN
  /\ stat_epoch \in Nat
  /\ \A r \in Ranks : slots[r].epoch \in Nat /\ slots[r].coll \in 0..Len(program.keys)
  /\ param_read_count \in 0..NRanks - 1      \* an unsigned counter: never below 0
  /\ barrier_count \in 0..NRanks /\ barrier_sense \in {0, 1}
  /\ entries \in Entries /\ pver \in Nat
  /\ attached \in [Ranks -> BOOLEAN]
  /\ \A r \in Ranks : launched[r] <= begun[r] /\ begun[r] <= Len(program.keys)
  /\ cache \in [Ranks -> [Keys -> Values]]

(* Init: a segment of this name may be left from an earlier job, since no  *)
(* destructor unlinks it: after a clean end nobody is inside the protocol, *)
(* after a crash a count may be.                                           *)
StaleEntry == [key |-> CHOOSE k \in SplitKeys : TRUE,
               val |-> [alpha |-> 9, use_pcie |-> TRUE]]
StaleStat == [epoch |-> 1, coll |-> 0, ok |-> TRUE, valid |-> TRUE]

Init ==
  /\ program \in Programs
  /\ \E left \in Leftovers :
       /\ magic = (left # "absent")
       /\ stat_epoch = IF left = "absent" THEN 0 ELSE 1
       /\ slots = [r \in Ranks |-> IF left = "absent" THEN NoStat ELSE StaleStat]
       /\ param_read_count = IF left = "crashed" THEN NRanks - 1 ELSE 0
       /\ barrier_count = 0
       /\ barrier_sense = IF left = "absent" THEN 0 ELSE 1
       /\ entries = IF left = "absent" THEN NoEntry ELSE StaleEntry
       /\ pver = IF left = "absent" THEN 0 ELSE 1
  /\ pc = [r \in Ranks |-> "app"]
  /\ attached = [r \in Ranks |-> FALSE]
  /\ begun = [r \in Ranks |-> 0]
  /\ launched = [r \in Ranks |-> 0]
  /\ cache = [r \in Ranks |-> [k \in Keys |-> Default]]
  /\ my_sense = [r \in Ranks |-> 0]
  /\ v1 = [r \in Ranks |-> 0]
  /\ snapshot = [r \in Ranks |-> NoEntry]
  /\ used = [r \in Ranks |-> <<>>]
  /\ agg = [key |-> "none", ok |-> TRUE]
  /\ pending = [r \in Ranks |-> <<>>]
  /\ callback = [r \in Ranks |-> Idle]

goto(r, to) == pc' = [pc EXCEPT ![r] = to]

-----------------------------------------------------------------------------
(* Launching a collective: PrepareCollectiveLaunch *)

InFlight(r) == Len(pending[r]) + (IF callback[r] = Idle THEN 0 ELSE 1)

Begin(r) ==
  /\ pc[r] = "app"
  /\ begun[r] < Len(program.keys)
  /\ InFlight(r) < program.depth
  /\ begun' = [begun EXCEPT ![r] = @ + 1]
  /\ goto(r, IF ~attached[r] THEN "attach" ELSE IF r = 0 THEN "consumed" ELSE "read")
  /\ UNCHANGED <<segment, reading, callbacks, program, attached, launched, used, my_sense>>

(* Mutation: whoever attaches resets the counters of a segment in use. *)
Attach_AnyRankResets(r) ==
  /\ pc[r] = "attach"
  /\ magic' = TRUE
  /\ slots' = [q \in Ranks |-> IF magic THEN [slots[q] EXCEPT !.valid = FALSE] ELSE NoStat]
  /\ stat_epoch' = 0 /\ param_read_count' = 0 /\ barrier_count' = 0 /\ barrier_sense' = 0
  /\ entries' = IF magic THEN entries ELSE NoEntry
  /\ pver' = IF magic THEN pver ELSE 0
  /\ attached' = [attached EXCEPT ![r] = TRUE]
  /\ goto(r, IF r = 0 THEN "consumed" ELSE "read")
  /\ UNCHANGED <<reading, callbacks, program, begun, launched, used, my_sense>>

(* Under a file lock: the first rank initialises a segment it does not     *)
(* recognise; of a segment it does, only rank 0 resets what concerns the   *)
(* rounds and the statistics, and the parameters stay.                     *)
Attach(r) ==
  /\ pc[r] = "attach"
  /\ IF ~magic
     THEN /\ magic' = TRUE
          /\ slots' = [q \in Ranks |-> NoStat]
          /\ stat_epoch' = 0 /\ param_read_count' = 0 /\ barrier_count' = 0 /\ barrier_sense' = 0
          /\ entries' = NoEntry /\ pver' = 0
     ELSE /\ IF r = 0
             THEN /\ slots' = [q \in Ranks |-> [slots[q] EXCEPT !.valid = FALSE]]
                  /\ stat_epoch' = 0 /\ param_read_count' = 0
                  /\ barrier_count' = 0 /\ barrier_sense' = 0
             ELSE UNCHANGED <<stats, barrier, param_read_count>>
          /\ UNCHANGED <<magic, entries, pver>>
  /\ attached' = [attached EXCEPT ![r] = TRUE]
  /\ goto(r, IF r = 0 THEN "consumed" ELSE "read")
  /\ UNCHANGED <<reading, callbacks, program, begun, launched, used, my_sense>>

WaitUntilParamConsumed ==
  /\ pc[0] = "consumed"
  /\ param_read_count = 0
  /\ goto(0, "any")
  /\ UNCHANGED <<segment, progress, reading, callbacks, my_sense>>

Current(r) == slots[r].valid /\ slots[r].epoch = stat_epoch

(* ReadAllStatsAndAggregate: nothing of this epoch, nothing to do *)
AnyCurrentEpoch ==
  /\ pc[0] = "any"
  /\ goto(0, IF \E r \in Ranks : Current(r) THEN "all" ELSE "signal")
  /\ UNCHANGED <<segment, progress, reading, callbacks, my_sense>>

(* Mutation: rank 0 takes what is there instead of waiting for everybody. *)
AllCurrentEpoch_NotAwaited ==
  /\ pc[0] = "all"
  /\ agg' = [key |-> KeyOf(CHOOSE c \in {slots[r].coll : r \in {q \in Ranks : Current(q)}} : TRUE),
             ok |-> \A r \in Ranks : slots[r].ok]
  /\ goto(0, "clear")
  /\ UNCHANGED <<segment, progress, callbacks, cache, v1, snapshot, my_sense>>

(* It waits until every rank has published, and aggregates: the key is     *)
(* that of rank 0's slot, a path is good if it was good everywhere.        *)
AllCurrentEpoch ==
  /\ pc[0] = "all"
  /\ \A r \in Ranks : Current(r)
  /\ agg' = [key |-> KeyOf(slots[0].coll), ok |-> \A r \in Ranks : slots[r].ok]
  /\ goto(0, "clear")
  /\ UNCHANGED <<segment, progress, callbacks, cache, v1, snapshot, my_sense>>

ClearSlots ==
  /\ pc[0] = "clear"
  /\ slots' = [r \in Ranks |-> [slots[r] EXCEPT !.valid = FALSE]]
  /\ goto(0, "epoch")
  /\ UNCHANGED <<params, barrier, progress, reading, callbacks, magic, stat_epoch, my_sense>>

(* Mutation: the readers are let in before the entry is written. *)
AdvanceEpoch_SignalsEarly ==
  /\ pc[0] = "epoch"
  /\ stat_epoch' = stat_epoch + 1
  /\ cache' = [cache EXCEPT ![0][agg.key] = [alpha |-> stat_epoch + 1, use_pcie |-> TRUE]]
  /\ param_read_count' = NRanks - 1
  /\ goto(0, "write")
  /\ UNCHANGED <<barrier, progress, callbacks, magic, slots, entries, pver, v1, snapshot, agg, my_sense>>

(* The epoch advances and AdaptiveController::Update computes the next     *)
(* parameters: PCIe stays in use only if it worked for everybody.          *)
AdvanceEpoch ==
  /\ pc[0] = "epoch"
  /\ stat_epoch' = stat_epoch + 1
  /\ cache' = [cache EXCEPT ![0][agg.key] =
                 [alpha |-> stat_epoch + 1, use_pcie |-> IF agg.key \in SplitKeys THEN agg.ok ELSE @.use_pcie]]
  /\ goto(0, "write")
  /\ UNCHANGED <<params, barrier, progress, callbacks, magic, slots, v1, snapshot, agg, my_sense>>

(* WriteParams: the entry, then its version *)
WriteEntry ==
  /\ pc[0] = "write"
  /\ entries' = [key |-> agg.key, val |-> cache[0][agg.key]]
  /\ goto(0, "version")
  /\ UNCHANGED <<stats, barrier, progress, reading, callbacks, magic, param_read_count, pver, my_sense>>

WriteVersion ==
  /\ pc[0] = "version"
  /\ pver' = pver + 1
  /\ goto(0, "signal")
  /\ UNCHANGED <<stats, barrier, progress, reading, callbacks, magic, param_read_count, entries, my_sense>>

SignalParamWritten ==
  /\ pc[0] = "signal"
  /\ param_read_count' = NRanks - 1
  /\ goto(0, "read")
  /\ UNCHANGED <<stats, barrier, progress, reading, callbacks, magic, entries, pver, my_sense>>

(* Mutation: the signal is not awaited. *)
ReadVersion_NotAwaited(r) ==
  /\ pc[r] = "read"
  /\ v1' = [v1 EXCEPT ![r] = pver]
  /\ goto(r, "snapshot")
  /\ UNCHANGED <<segment, progress, callbacks, cache, snapshot, agg, my_sense>>

(* ReadParams: wait for rank 0's signal, load the version, *)
ReadVersion(r) ==
  /\ pc[r] = "read"
  /\ r # 0 => param_read_count # 0
  /\ v1' = [v1 EXCEPT ![r] = pver]
  /\ goto(r, "snapshot")
  /\ UNCHANGED <<segment, progress, callbacks, cache, snapshot, agg, my_sense>>

(* copy the entry, *)
CopyEntry(r) ==
  /\ pc[r] = "snapshot"
  /\ snapshot' = [snapshot EXCEPT ![r] = entries]
  /\ goto(r, "recheck")
  /\ UNCHANGED <<segment, progress, callbacks, cache, v1, agg, my_sense>>

(* and take it over if the version is still the same, else try again.  The *)
(* 2000 attempts of the code are not counted: see NobodyReadsDuringWrite.  *)
MergeParams(r) ==
  /\ pc[r] = "recheck"
  /\ IF pver = v1[r]
     THEN /\ goto(r, IF r = 0 THEN "sense" ELSE "consume")
          /\ cache' = IF snapshot[r] = NoEntry \/ snapshot[r].key \notin Keys THEN cache
                      ELSE [cache EXCEPT ![r][snapshot[r].key] = snapshot[r].val]
     ELSE /\ goto(r, "read")
          /\ UNCHANGED cache
  /\ UNCHANGED <<segment, progress, callbacks, v1, snapshot, agg, my_sense>>

(* Mutation: the reader does not report that it is done. *)
Consume_Forgotten(r) ==
  /\ pc[r] = "consume"
  /\ goto(r, "sense")
  /\ UNCHANGED <<segment, progress, reading, callbacks, my_sense>>

Consume(r) ==
  /\ pc[r] = "consume"
  /\ param_read_count' = param_read_count - 1
  /\ goto(r, "sense")
  /\ UNCHANGED <<stats, barrier, progress, reading, callbacks, magic, entries, pver, my_sense>>

(* BarrierSync: the sense to wait for, the arrival, the release *)
LoadSense(r) ==
  /\ pc[r] = "sense"
  /\ my_sense' = [my_sense EXCEPT ![r] = 1 - barrier_sense]
  /\ goto(r, "arrive")
  /\ UNCHANGED <<segment, progress, reading, callbacks>>

Arrive(r) ==
  /\ pc[r] = "arrive"
  /\ barrier_count' = barrier_count + 1
  /\ goto(r, IF barrier_count + 1 = NRanks THEN "reset" ELSE "wait")
  /\ UNCHANGED <<stats, params, progress, reading, callbacks, magic, barrier_sense, my_sense>>

ResetCount(r) ==
  /\ pc[r] = "reset"
  /\ barrier_count' = 0
  /\ goto(r, "flip")
  /\ UNCHANGED <<stats, params, progress, reading, callbacks, magic, barrier_sense, my_sense>>

FlipSense(r) ==
  /\ pc[r] = "flip"
  /\ barrier_sense' = my_sense[r]
  /\ goto(r, "plan")
  /\ UNCHANGED <<stats, params, progress, reading, callbacks, magic, barrier_count, my_sense>>

(* Mutation: a waiting rank leaves at once. *)
SeeSense_NotAwaited(r) ==
  /\ pc[r] = "wait"
  /\ goto(r, "plan")
  /\ UNCHANGED <<segment, progress, reading, callbacks, my_sense>>

SeeSense(r) ==
  /\ pc[r] = "wait"
  /\ barrier_sense = my_sense[r]
  /\ goto(r, "plan")
  /\ UNCHANGED <<segment, progress, reading, callbacks, my_sense>>

(* Lookup, SuggestAlpha and CreatePlan, then both backends are submitted;  *)
(* a split collective (or any, with FastOnlyLog) registers a callback.     *)
Launch(r) ==
  /\ pc[r] = "plan"
  /\ \E ok \in program.results :
       LET c     == begun[r]
           val   == cache[r][KeyOf(c)]
           split == val.use_pcie /\ KeyOf(c) \in SplitKeys
       IN /\ used' = [used EXCEPT ![r] = Append(@, [alpha |-> val.alpha, split |-> split])]
          /\ pending' = IF split \/ FastOnlyLog
                        THEN [pending EXCEPT ![r] = Append(@, [coll |-> c, ok |-> (split => ok)])]
                        ELSE pending
  /\ launched' = [launched EXCEPT ![r] = @ + 1]
  /\ goto(r, "app")
  /\ UNCHANGED <<segment, reading, program, attached, begun, my_sense, callback>>

-----------------------------------------------------------------------------
(* The host callback at the end of a collective: OnStreamSynchronized and  *)
(* WriteMyStat.  A collective ends when all ranks have launched it.        *)

BeginStat(r) ==
  /\ callback[r] = Idle
  /\ pending[r] # <<>>
  /\ \A q \in Ranks : launched[q] >= Head(pending[r]).coll
  /\ callback' = [callback EXCEPT ![r] = Head(pending[r])]
  /\ pending' = [pending EXCEPT ![r] = Tail(@)]
  /\ slots' = [slots EXCEPT ![r].epoch = stat_epoch, ![r].coll = Head(pending[r]).coll,
                            ![r].ok = Head(pending[r]).ok]
  /\ UNCHANGED <<launcher, params, barrier, magic, stat_epoch>>

PublishStat(r) ==
  /\ callback[r] # Idle
  /\ slots' = [slots EXCEPT ![r].valid = TRUE]
  /\ callback' = [callback EXCEPT ![r] = Idle]
  /\ UNCHANGED <<launcher, params, barrier, magic, stat_epoch, pending>>

ShmRoundBegin ==
  \/ WaitUntilParamConsumed \/ AnyCurrentEpoch \/ AllCurrentEpoch \/ ClearSlots
  \/ AdvanceEpoch \/ WriteEntry \/ WriteVersion \/ SignalParamWritten

LaunchStep(r) ==
  \/ Begin(r) \/ Attach(r)
  \/ r = 0 /\ ShmRoundBegin
  \/ ReadVersion(r) \/ CopyEntry(r) \/ MergeParams(r) \/ Consume(r)
  \/ LoadSense(r) \/ Arrive(r) \/ ResetCount(r) \/ FlipSense(r) \/ SeeSense(r)
  \/ Launch(r)

CallbackStep(r) == BeginStat(r) \/ PublishStat(r)

Next == \E r \in Ranks : LaunchStep(r) \/ CallbackStep(r)

Spec == Init /\ [][Next]_vars

(* Ranks and callback threads keep running; futex sleeps end by themselves *)
(* after a millisecond, so a condition that stays true is noticed.         *)
FairSpec == Spec /\ \A r \in Ranks : WF_vars(LaunchStep(r)) /\ WF_vars(CallbackStep(r))

-----------------------------------------------------------------------------
(* Properties *)

(* All ranks split a collective the same way: whatever was measured, and   *)
(* whenever it was published, the k-th plan of one rank is the k-th plan   *)
(* of every other (virtual_collective.h, PrepareCollectiveLaunch).         *)
SamePlan ==
  \A r, q \in Ranks : \A k \in 1..Len(used[r]) :
    k <= Len(used[q]) => used[r][k] = used[q][k]

(* Rank 0 rewrites the entry only while nobody reads it: the version check *)
(* of ReadParams and its 2000 attempts are never needed.                   *)
NobodyReadsDuringWrite ==
  pc[0] \in {"write", "version"} =>
    \A r \in Ranks \ {0} : pc[r] \notin {"snapshot", "recheck"}

(* param_read_count is the number of ranks that still have to take over    *)
(* the parameters of rank 0's last signal: no rank is counted twice, and   *)
(* none reads a round's parameters twice.                                  *)
Signals == IF pc[0] \in {"attach", "consumed", "any", "all", "clear", "epoch", "write",
                         "version", "signal"} THEN begun[0] - 1 ELSE begun[0]
Taken(r) == IF pc[r] \in {"attach", "read", "snapshot", "recheck", "consume"}
            THEN begun[r] - 1 ELSE begun[r]
ReadersAccounted ==
  attached[0] => param_read_count = Cardinality({r \in Ranks \ {0} : Taken(r) < Signals})

(* When the application lets one collective end before it starts the next, *)
(* the statistics rank 0 combines are all of one collective, for which the *)
(* code only logs a warning otherwise.                                     *)
StatsOfOneCollective ==
  program.depth = 1 /\ pc[0] = "clear" => \A r, q \in Ranks : slots[r].coll = slots[q].coll

(* The sense barrier keeps the promise that the executor's generation      *)
(* barrier keeps: nobody plans before everybody has the parameters.        *)
Arrivals(r) == IF pc[r] \in {"wait", "reset", "flip", "plan"} THEN begun[r] ELSE launched[r]
Promise == INSTANCE BarrierPromise WITH
  Parties <- Ranks,
  entered <- [r \in Ranks |-> Arrivals(r)],
  left    <- [r \in Ranks |-> IF pc[r] = "plan" THEN begun[r] ELSE launched[r]]

(* ShmParamStore's barrier: no rank begins to plan a collective before    *)
(* every rank has arrived in its launch of it.                             *)
ImplementsPromise == Promise!Spec

(* The hand-over as a whole: counters in range, no reader of a half-written *)
(* entry, the readers rank 0 waits for are those that still have to read,   *)
(* and updates made from one collective's statistics.                       *)
HandOver == TypeOK /\ NobodyReadsDuringWrite /\ ReadersAccounted /\ StatsOfOneCollective

(* Every collective that all ranks begin is launched by all of them: the   *)
(* exchange of parameters never holds a rank for ever.                     *)
EveryLaunchReturns == <>(\A r \in Ranks : launched[r] = Len(program.keys))

=============================================================================
