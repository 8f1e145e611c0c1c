----------------------------- MODULE Debugger_proof -----------------------------
(***************************************************************************)
(* Proofs about Debugger for any connections and any number of commands.   *)
(***************************************************************************)
EXTENDS Debugger, FiniteSetTheorems, TLAPS

(* The flag is not up before the first attach(). *)
FlagStartsDown == FlagAtStart \subseteq {FALSE}

-------------------------------------------------------------------------------
(* The types are preserved by every step.                                  *)

LEMMA CpuKeepsTypes ==
  DebuggerTypeOK /\ CpuThread => DebuggerTypeOK'
<1> SUFFICES ASSUME DebuggerTypeOK, CpuThread PROVE DebuggerTypeOK'
  OBVIOUS
<1> USE DEF DebuggerTypeOK, shared, clientVars, CpuPlaces, Int1
<1>1. CASE WaitForAttach
  BY <1>1 DEF WaitForAttach
<1>2. CASE Fetch
  BY <1>2 DEF Fetch
<1>3. CASE Execute
  BY <1>3 DEF Execute
<1>4. CASE Interrupt1
  BY <1>4 DEF Interrupt1
<1>5. CASE Interrupt3
  BY <1>5 DEF Interrupt3
<1>6. CASE LoopWhileAttached
  BY <1>6 DEF LoopWhileAttached
<1>7. CASE Peek
  BY <1>7 DEF Peek
<1>8. CASE Idle
  BY <1>8 DEF Idle
<1>9. CASE Pop
  <2>1. Head(cmds) \in Commands /\ Tail(cmds) \in Seq(Commands)
    BY <1>9 DEF Pop
  <2>2. QED
    BY <1>9, <2>1 DEF Pop
<1>10. CASE Apply
  BY <1>10 DEF Apply
<1>11. QED
  BY <1>1, <1>2, <1>3, <1>4, <1>5, <1>6, <1>7, <1>8, <1>9, <1>10 DEF CpuThread

LEMMA ClientKeepsTypes ==
  ASSUME NEW c \in Clients, DebuggerTypeOK, Proceed(c) \/ UserActs(c)
  PROVE  DebuggerTypeOK'
<1> USE DebuggerAssumption
    DEF DebuggerTypeOK, shared, cpuVars, Go, At, ClientPlaces, Open
<1>1. CASE EmplaceInt3(c)
  BY <1>1 DEF EmplaceInt3
<1>2. CASE StoreAttached(c)
  BY <1>2 DEF StoreAttached
<1>3. CASE Answer(c)
  BY <1>3 DEF Answer
<1>4. CASE Reply(c)
  BY <1>4 DEF Reply
<1>5. CASE EraseInt1(c)
  BY <1>5 DEF EraseInt1
<1>6. CASE EraseInt3(c)
  BY <1>6 DEF EraseInt3
<1>7. CASE ClearAttached(c)
  BY <1>7 DEF ClearAttached
<1>8. CASE Connect(c)
  BY <1>8 DEF Connect
<1>9. CASE Disconnect(c)
  BY <1>9 DEF Disconnect
<1>10. CASE OtherVPacket(c)
  BY <1>10 DEF OtherVPacket
<1>11. ASSUME NEW cmd \in Commands, Request(c, cmd) PROVE DebuggerTypeOK'
  <2>1. Append(cmds, cmd) \in Seq(Commands)
    OBVIOUS
  <2>2. sent' \in 0..MaxCommands
    BY <1>11 DEF Request
  <2>3. client' \in [Clients -> ClientPlaces]
    BY <1>11 DEF Request
  <2>4. QED
    BY <1>11, <2>1, <2>2, <2>3 DEF Request
<1>12. CASE HandleStop(c)
  BY <1>12 DEF HandleStop
<1>13. QED
  BY <1>1, <1>2, <1>3, <1>4, <1>5, <1>6, <1>7, <1>8, <1>9, <1>10, <1>11, <1>12
  DEF Proceed, UserActs

LEMMA StepKeepsTypes ==
  DebuggerTypeOK /\ [DebuggerNext]_dbgVars => DebuggerTypeOK'
<1>1. ASSUME DebuggerTypeOK, UNCHANGED dbgVars PROVE DebuggerTypeOK'
  BY <1>1 DEF DebuggerTypeOK, dbgVars, shared, cpuVars, clientVars
<1>2. QED
  BY <1>1, CpuKeepsTypes, ClientKeepsTypes DEF DebuggerNext

LEMMA InitHasTypes == DebuggerInit => DebuggerTypeOK
<1> SUFFICES ASSUME DebuggerInit PROVE DebuggerTypeOK
  OBVIOUS
<1>1. client \in [Clients -> ClientPlaces]
  BY DEF DebuggerInit, ClientPlaces
<1>2. attached \in BOOLEAN /\ cpu \in CpuPlaces
  BY DebuggerAssumption DEF DebuggerInit, CpuPlaces
<1>3. cmds \in Seq(Commands) /\ sent \in 0..MaxCommands
  BY DebuggerAssumption DEF DebuggerInit
<1>4. QED
  BY <1>1, <1>2, <1>3 DEF DebuggerInit, DebuggerTypeOK

-------------------------------------------------------------------------------
(* What holds however sessions overlap.  Parked says what makes a stop     *)
(* reply true: until a session has ended nothing takes the flag down, so   *)
(* int1() is left only by a command, and a command ends "stopped".         *)

Parked ==
  FirstSession =>
    /\ cpu \in {"peek", "idle", "pop", "apply"} => attached
    /\ state = "stopped" => attached /\ cpu \in Int1

Holding == cpu = "apply" => taken # "none"

DebuggerInv ==
  /\ DebuggerTypeOK
  /\ Holding
  /\ AttachedHasSession
  /\ PopNeverBlocks
  /\ WaitsForDebugger
  /\ Parked

LEMMA InitDebuggerInv ==
  ASSUME FlagStartsDown PROVE DebuggerInit => DebuggerInv
<1> SUFFICES ASSUME DebuggerInit PROVE DebuggerInv
  OBVIOUS
<1>1. DebuggerTypeOK
  BY InitHasTypes
<1>2. ~attached /\ (WaitForDebugger => cpu = "wait") /\ cpu \in {"wait", "fetch"}
      /\ state = "stepping"
  BY DEF DebuggerInit, FlagStartsDown
<1>3. QED
  BY <1>1, <1>2 DEF DebuggerInv, AttachedHasSession, PopNeverBlocks, WaitsForDebugger, Parked,
                    Holding

LEMMA CpuKeepsInv == DebuggerInv /\ CpuThread => DebuggerInv'
<1> SUFFICES ASSUME DebuggerInv, CpuThread PROVE DebuggerInv'
  OBVIOUS
<1>1. DebuggerTypeOK'
  BY CpuKeepsTypes DEF DebuggerInv
<1>2. UNCHANGED <<attached, client>>
  BY DEF CpuThread, WaitForAttach, Fetch, Execute, Interrupt1, Interrupt3, LoopWhileAttached,
     Peek, Idle, Pop, Apply, shared, clientVars
<1>3. AttachedHasSession'
  BY <1>2 DEF DebuggerInv, AttachedHasSession
<1>4. PopNeverBlocks'
  BY DEF CpuThread, WaitForAttach, Fetch, Execute, Interrupt1, Interrupt3, LoopWhileAttached,
     Peek, Idle, Pop, Apply, shared, DebuggerInv, DebuggerTypeOK, PopNeverBlocks, Int1
<1>5. WaitsForDebugger'
  <2>1. CASE cpu = "wait"
    <3>1. attached
      BY <2>1 DEF CpuThread, WaitForAttach, Fetch, Execute, Interrupt1, Interrupt3,
         LoopWhileAttached, Peek, Idle, Pop, Apply
    <3>2. EverOpen' # {}
      BY <3>1, <1>2 DEF DebuggerInv, AttachedHasSession, EverOpen, Open
    <3>3. QED
      BY <3>2 DEF WaitsForDebugger
  <2>2. CASE cpu # "wait"
    BY <2>2, <1>2 DEF DebuggerInv, WaitsForDebugger, EverOpen
  <2>3. QED
    BY <2>1, <2>2
<1>6. Parked'
  <2> SUFFICES ASSUME FirstSession'
               PROVE  /\ cpu' \in {"peek", "idle", "pop", "apply"} => attached'
                      /\ state' = "stopped" => attached' /\ cpu' \in Int1
    BY DEF Parked
  <2>1. FirstSession
    BY <1>2 DEF FirstSession
  <2>2. QED
    BY <2>1, <1>2 DEF CpuThread, WaitForAttach, Fetch, Execute, Interrupt1, Interrupt3,
       LoopWhileAttached, Peek, Idle, Pop, Apply, shared, DebuggerInv, DebuggerTypeOK, Parked,
       Int1
<1>7. Holding'
  BY DEF CpuThread, WaitForAttach, Fetch, Execute, Interrupt1, Interrupt3, LoopWhileAttached,
     Peek, Idle, Pop, Apply, DebuggerInv, DebuggerTypeOK, Holding, Commands
<1>8. QED
  BY <1>1, <1>3, <1>4, <1>5, <1>6, <1>7 DEF DebuggerInv

LEMMA ClientKeepsInv ==
  ASSUME NEW c \in Clients, DebuggerInv, Proceed(c) \/ UserActs(c)
  PROVE  DebuggerInv'
<1>1. DebuggerTypeOK'
  BY ClientKeepsTypes DEF DebuggerInv
<1>2. client \in [Clients -> ClientPlaces] /\ cmds \in Seq(Commands)
  BY DEF DebuggerInv, DebuggerTypeOK
<1>3. UNCHANGED <<cpu, state>> /\ \A d \in Clients \ {c} : client'[d] = client[d]
  BY <1>2 DEF Proceed, UserActs, EmplaceInt3, StoreAttached, Answer, Reply, EraseInt1, EraseInt3,
     ClearAttached, Connect, Disconnect, OtherVPacket, HandleStop, Request, Go, shared, cpuVars
<1>4. /\ client[c] # "gone"
      /\ client[c] \notin {"new", "emplace3", "store"}
           => client'[c] \notin {"new", "emplace3", "store"}
  BY <1>2 DEF Proceed, UserActs, EmplaceInt3, StoreAttached, Answer, Reply, EraseInt1, EraseInt3,
     ClearAttached, Connect, Disconnect, OtherVPacket, HandleStop, Request, Go, At
<1>5. \/ ClearAttached(c) /\ ~attached' /\ client'[c] = "gone"
      \/ StoreAttached(c) /\ attached' /\ client'[c] = "serve"
      \/ /\ attached' = attached /\ client'[c] # "gone"
         /\ client[c] \in Open \cup {"erase1", "erase3", "clear"}
              => client'[c] \in Open \cup {"erase1", "erase3", "clear"}
  BY <1>2 DEF Proceed, UserActs, EmplaceInt3, StoreAttached, Answer, Reply, EraseInt1, EraseInt3,
     ClearAttached, Connect, Disconnect, OtherVPacket, HandleStop, Request, Go, At, shared, Open
<1>6. AttachedHasSession'
  BY <1>3, <1>5 DEF DebuggerInv, AttachedHasSession, Open
<1>7. PopNeverBlocks'
  <2>1. cmds' = cmds \/ \E cmd \in Commands : cmds' = Append(cmds, cmd)
    BY DEF Proceed, UserActs, EmplaceInt3, StoreAttached, Answer, Reply, EraseInt1, EraseInt3,
       ClearAttached, Connect, Disconnect, OtherVPacket, HandleStop, Request, shared
  <2>2. \A cmd \in Commands : Append(cmds, cmd) # <<>>
    BY <1>2
  <2>3. QED
    BY <2>1, <2>2, <1>3 DEF DebuggerInv, PopNeverBlocks
<1>8. WaitsForDebugger'
  <2>1. EverOpen \subseteq EverOpen'
    BY <1>3, <1>4 DEF EverOpen
  <2>2. QED
    BY <2>1, <1>3 DEF DebuggerInv, WaitsForDebugger
<1>9. Parked'
  <2> SUFFICES ASSUME FirstSession' PROVE FirstSession /\ (attached => attached')
    BY <1>3 DEF DebuggerInv, Parked
  <2>1. client'[c] # "gone"
    BY DEF FirstSession
  <2>2. QED
    BY <2>1, <1>3, <1>4, <1>5 DEF FirstSession
<1>10. Holding'
  BY DEF Proceed, UserActs, EmplaceInt3, StoreAttached, Answer, Reply, EraseInt1, EraseInt3,
     ClearAttached, Connect, Disconnect, OtherVPacket, HandleStop, Request, cpuVars,
     DebuggerInv, Holding
<1>11. QED
  BY <1>1, <1>6, <1>7, <1>8, <1>9, <1>10 DEF DebuggerInv

LEMMA StepKeepsInv == DebuggerInv /\ [DebuggerNext]_dbgVars => DebuggerInv'
<1>1. ASSUME DebuggerInv, UNCHANGED dbgVars PROVE DebuggerInv'
  BY <1>1 DEF dbgVars, shared, cpuVars, clientVars, DebuggerInv, DebuggerTypeOK,
     AttachedHasSession, PopNeverBlocks, WaitsForDebugger, EverOpen, Parked, FirstSession,
     Holding
<1>2. QED
  BY <1>1, CpuKeepsInv, ClientKeepsInv DEF DebuggerNext

(* However many sessions overlap: the flag is backed by a session, the CPU *)
(* thread never blocks in pop(), and with -W it waits for the first        *)
(* attach() (debugger.cpp 28-74, cpu.cpp 1320-1349).                       *)
THEOREM SessionsBackTheFlag ==
  ASSUME FlagStartsDown
  PROVE  DebuggerSpec => [](DebuggerTypeOK /\ AttachedHasSession
                            /\ PopNeverBlocks /\ WaitsForDebugger)
<1>1. DebuggerInit => DebuggerInv
  BY InitDebuggerInv
<1>2. DebuggerInv => DebuggerTypeOK /\ AttachedHasSession /\ PopNeverBlocks /\ WaitsForDebugger
  BY DEF DebuggerInv
<1>3. QED
  BY <1>1, <1>2, StepKeepsInv, PTL DEF DebuggerSpec

(* Each of the others by itself: the types; that the one consumer of the   *)
(* queue never waits in pop() (debugger.cpp 51-65); and that -W waits      *)
(* (cpu.cpp 1321-1326).                                                    *)
COROLLARY DebuggerIsTyped == ASSUME FlagStartsDown PROVE DebuggerSpec => []DebuggerTypeOK
BY SessionsBackTheFlag, PTL

COROLLARY NobodyBlocksInPop == ASSUME FlagStartsDown PROVE DebuggerSpec => []PopNeverBlocks
BY SessionsBackTheFlag, PTL

COROLLARY FirstSessionIsAwaited ==
  ASSUME FlagStartsDown PROVE DebuggerSpec => []WaitsForDebugger
BY SessionsBackTheFlag, PTL

(* As long as a stop reply may be on its way that was read with nothing    *)
(* under way, the state is still that stop and nothing has come since.     *)
SettledInv ==
  settled # {} =>
    /\ cmds = <<>> /\ taken = "none" /\ state = "stopped"
    /\ cpu \notin {"pop", "apply"}

LEMMA ClientKeepsSettled ==
  ASSUME NEW c \in Clients, DebuggerInv, SettledInv, Proceed(c) \/ UserActs(c)
  PROVE  SettledInv'
<1>1. CASE \E cmd \in Commands : Request(c, cmd)
  BY <1>1 DEF Request, SettledInv
<1>2. CASE Answer(c)
  <2>1. UNCHANGED <<cmds, taken, state, cpu>>  BY <1>2 DEF Answer, shared, cpuVars
  <2>2. CASE state = "stopped" /\ ~UnderWay
    <3>1. cpu # "pop"  BY <2>2 DEF DebuggerInv, PopNeverBlocks, UnderWay
    <3>2. cpu # "apply"  BY <2>2 DEF DebuggerInv, Holding, UnderWay
    <3>3. QED BY <2>1, <2>2, <3>1, <3>2 DEF SettledInv, UnderWay
  <2>3. CASE ~(state = "stopped" /\ ~UnderWay)
    <3>1. UNCHANGED settled  BY <1>2, <2>3 DEF Answer
    <3>2. QED BY <2>1, <3>1 DEF SettledInv
  <2>4. QED BY <2>2, <2>3
<1>3. CASE Proceed(c) /\ ~Answer(c)
  BY <1>3 DEF Proceed, EmplaceInt3, StoreAttached, Reply, EraseInt1, EraseInt3, ClearAttached,
     shared, cpuVars, SettledInv
<1>4. CASE Connect(c) \/ Disconnect(c) \/ OtherVPacket(c) \/ HandleStop(c)
  BY <1>4 DEF Connect, Disconnect, OtherVPacket, HandleStop, shared, cpuVars, SettledInv
<1>5. QED BY <1>1, <1>2, <1>3, <1>4 DEF UserActs

LEMMA StepKeepsSettled ==
  DebuggerInv /\ SettledInv /\ [DebuggerNext]_dbgVars => SettledInv'
<1>1. ASSUME DebuggerInv, SettledInv, CpuThread PROVE SettledInv'
  <2>1. UNCHANGED settled
    BY <1>1 DEF CpuThread, WaitForAttach, Fetch, Execute, Interrupt1, Interrupt3,
       LoopWhileAttached, Peek, Idle, Pop, Apply, clientVars
  <2>2. ASSUME settled # {}
        PROVE  /\ cmds' = <<>> /\ taken' = "none" /\ state' = "stopped"
               /\ cpu' \notin {"pop", "apply"}
    BY <1>1, <2>2 DEF CpuThread, WaitForAttach, Fetch, Execute, Interrupt1, Interrupt3,
       LoopWhileAttached, Peek, Idle, Pop, Apply, shared, SettledInv, DebuggerInv, DebuggerTypeOK
  <2>3. QED BY <2>1, <2>2 DEF SettledInv
<1>2. ASSUME SettledInv, UNCHANGED dbgVars PROVE SettledInv'
  BY <1>2 DEF dbgVars, shared, cpuVars, clientVars, SettledInv
<1>3. QED
  BY <1>1, <1>2, ClientKeepsSettled DEF DebuggerNext

(* Until a session ends, from the moment gdb's stop reply is decided on,   *)
(* with no command under way, until it has been sent, the program stays    *)
(* stopped in int1(), whatever other sessions do but pushing a command     *)
(* (gdb_debugger.cpp 263-268, debugger.cpp 49-74).                         *)
THEOREM StopRepliesAreTrue ==
  ASSUME FlagStartsDown
  PROVE  DebuggerSpec => []StopReplyIsTrue
<1>1. DebuggerInit => DebuggerInv /\ SettledInv
  BY InitDebuggerInv DEF DebuggerInit, SettledInv
<1>2. DebuggerInv /\ SettledInv => StopReplyIsTrue
  BY DEF DebuggerInv, Parked, SettledInv, StopReplyIsTrue, Int1
<1>3. QED
  BY <1>1, <1>2, StepKeepsInv, StepKeepsSettled, PTL DEF DebuggerSpec

-------------------------------------------------------------------------------
(* Sessions that do not overlap.  A session is hooked as far as its thread *)
(* has got with attach(), and no other thread takes the hooks away.        *)

Busy(c) == client[c] \notin {"new", "gone"}
NoOverlap == \A c, d \in Clients : Busy(c) /\ Busy(d) => c = d

HookedSoFar(c) ==
  /\ client[c] = "emplace3" => 1 \in handlers
  /\ client[c] = "store" => handlers = {1, 3}
  /\ client[c] \in Open => attached /\ handlers = {1, 3}

SessionInv == DebuggerTypeOK /\ NoOverlap /\ \A c \in Clients : HookedSoFar(c)

LEMMA ClientKeepsSessions ==
  ASSUME OneAtATime, NEW c \in Clients, SessionInv, Proceed(c) \/ UserActs(c)
  PROVE  SessionInv'
<1>1. DebuggerTypeOK'
  BY ClientKeepsTypes DEF SessionInv
<1>2. client \in [Clients -> ClientPlaces] /\ handlers \subseteq {1, 3}
  BY DEF SessionInv, DebuggerTypeOK
<1>3. \A d \in Clients \ {c} : client'[d] = client[d]
  BY <1>2 DEF Proceed, UserActs, EmplaceInt3, StoreAttached, Answer, Reply, EraseInt1, EraseInt3,
     ClearAttached, Connect, Disconnect, OtherVPacket, HandleStop, Request, Go
<1>4. \A d \in Clients \ {c} : ~Busy(d)
  <2>1. CASE Busy(c)
    BY <2>1 DEF SessionInv, NoOverlap
  <2>2. CASE ~Busy(c)
    <3>1. Connect(c)
      BY <2>2 DEF Proceed, UserActs, EmplaceInt3, StoreAttached, Answer, Reply, EraseInt1,
         EraseInt3, ClearAttached, Disconnect, OtherVPacket, HandleStop, Request, At, Busy
    <3>2. QED
      BY <3>1 DEF Connect, Busy
  <2>3. QED
    BY <2>1, <2>2
<1>5. \A d \in Clients \ {c} : ~Busy(d)'
  BY <1>3, <1>4 DEF Busy
<1>6. NoOverlap'
  BY <1>5 DEF NoOverlap
<1>7. HookedSoFar(c)'
  <2>1. HookedSoFar(c)
    BY DEF SessionInv
  <2>2. CASE Connect(c) \/ EmplaceInt3(c) \/ StoreAttached(c)
    BY <1>2, <2>1, <2>2 DEF HookedSoFar, Connect, EmplaceInt3, StoreAttached, Go, At, Open
  <2>3. CASE EraseInt1(c) \/ EraseInt3(c) \/ ClearAttached(c) \/ Disconnect(c)
    BY <1>2, <2>3 DEF HookedSoFar, EraseInt1, EraseInt3, ClearAttached, Disconnect, Go, Open
  <2>4. CASE Answer(c) \/ Reply(c) \/ OtherVPacket(c) \/ HandleStop(c)
             \/ \E cmd \in Commands : Request(c, cmd)
    <3>1. /\ client[c] \in Open /\ UNCHANGED <<attached, handlers>>
          /\ client'[c] \in Open \cup {"erase1"}
      BY <1>2, <2>4 DEF Answer, Reply, OtherVPacket, HandleStop, Request, Go, At, shared, Open
    <3>2. QED
      BY <2>1, <3>1 DEF HookedSoFar, Open
  <2>5. QED
    BY <2>2, <2>3, <2>4 DEF Proceed, UserActs
<1>8. \A d \in Clients \ {c} : HookedSoFar(d)'
  BY <1>5 DEF Busy, HookedSoFar, Open
<1>9. QED
  BY <1>1, <1>6, <1>7, <1>8 DEF SessionInv

LEMMA StepKeepsSessions ==
  ASSUME OneAtATime PROVE SessionInv /\ [DebuggerNext]_dbgVars => SessionInv'
<1>1. ASSUME SessionInv, CpuThread PROVE SessionInv'
  <2>1. DebuggerTypeOK'
    BY <1>1, CpuKeepsTypes DEF SessionInv
  <2>2. UNCHANGED <<attached, handlers, client>>
    BY <1>1 DEF CpuThread, WaitForAttach, Fetch, Execute, Interrupt1, Interrupt3,
       LoopWhileAttached, Peek, Idle, Pop, Apply, shared, clientVars
  <2>3. QED
    BY <1>1, <2>1, <2>2 DEF SessionInv, NoOverlap, Busy, HookedSoFar
<1>2. ASSUME SessionInv, UNCHANGED dbgVars PROVE SessionInv'
  BY <1>2 DEF dbgVars, shared, cpuVars, clientVars, SessionInv, DebuggerTypeOK, NoOverlap, Busy,
     HookedSoFar
<1>3. QED
  BY <1>1, <1>2, ClientKeepsSessions DEF DebuggerNext

(* If sessions do not overlap, an open one has the flag up and both        *)
(* handlers in place at every moment (debugger.cpp 28-42).                 *)
THEOREM OpenSessionIsHooked ==
  ASSUME OneAtATime PROVE DebuggerSpec => []SessionIsHooked
<1>1. DebuggerInit => SessionInv
  BY InitHasTypes DEF DebuggerInit, SessionInv, NoOverlap, Busy, HookedSoFar, Open
<1>2. SessionInv => SessionIsHooked
  BY DEF SessionInv, SessionIsHooked, HookedSoFar, OpenSessions
<1>3. QED
  BY <1>1, <1>2, StepKeepsSessions, PTL DEF DebuggerSpec

-------------------------------------------------------------------------------
(* The step budget.  Until somebody continues, what may still be executed  *)
(* under a session is backed by a command not yet used: one in the queue,  *)
(* one just popped, or, in the last summand, one that has just let the CPU *)
(* go on or the session's own allowance.                                   *)

InFlight == IF OpenSessions # {} /\ cpu = "do" THEN 1 ELSE 0
Popped == IF cpu = "apply" THEN 1 ELSE 0

Budget ==
  ~continued =>
    /\ ran + Len(cmds) + Popped + InFlight <= sent + Cardinality(EverOpen)
    /\ state # "running"
    /\ taken # "cont" /\ \A i \in DOMAIN cmds : cmds[i] # "cont"

BudgetInv == SessionInv /\ Budget

LEMMA EverOpenIsFinite == IsFiniteSet(EverOpen) /\ Cardinality(EverOpen) \in Nat
<1>1. EverOpen \subseteq Clients
  BY DEF EverOpen
<1>2. IsFiniteSet(EverOpen)
  BY <1>1, DebuggerAssumption, FS_Subset
<1>3. QED
  BY <1>2, FS_CardinalityType

LEMMA SessionsHooked == SessionInv => SessionIsHooked
BY DEF SessionInv, SessionIsHooked, HookedSoFar, OpenSessions

LEMMA CpuKeepsBudget ==
  ASSUME BudgetInv, SessionInv', CpuThread PROVE Budget'
<1> SUFFICES ASSUME ~continued' PROVE Budget'
  BY DEF Budget
<1> DEFINE n == Cardinality(EverOpen)
<1>1. UNCHANGED <<attached, handlers, client, sent, continued>>
  BY DEF CpuThread, WaitForAttach, Fetch, Execute, Interrupt1, Interrupt3, LoopWhileAttached,
     Peek, Idle, Pop, Apply, shared, clientVars
<1>2. OpenSessions' = OpenSessions /\ EverOpen' = EverOpen
  BY <1>1 DEF OpenSessions, EverOpen
<1>3. n \in Nat /\ n' = n
  BY <1>2, EverOpenIsFinite
<1>4. /\ sent \in Nat /\ ran \in Nat /\ cmds \in Seq(Commands)
      /\ cpu \in CpuPlaces /\ after \in {"do", "fetch"}
      /\ taken \in Commands \cup {"none"}
  BY DEF BudgetInv, SessionInv, DebuggerTypeOK
<1>5. /\ ran + Len(cmds) + Popped + InFlight <= sent + n
      /\ state # "running"
      /\ taken # "cont" /\ \A i \in DOMAIN cmds : cmds[i] # "cont"
  BY <1>1 DEF BudgetInv, Budget
<1>6. OpenSessions # {} => attached /\ 1 \in handlers
  BY SessionsHooked DEF BudgetInv, SessionIsHooked
<1>7. Len(cmds) \in Nat
  BY <1>4
<1> HIDE DEF n
<1> USE <1>1, <1>2, <1>3, <1>4, <1>5, <1>6, <1>7 DEF Popped, InFlight, shared
<1>a. SUFFICES /\ ran' + Len(cmds)' + Popped' + InFlight' <= sent + n
               /\ state' # "running"
               /\ taken' # "cont" /\ \A i \in DOMAIN cmds' : cmds'[i] # "cont"
  BY DEF Budget, n
<1>8. CASE WaitForAttach \/ Fetch \/ Interrupt1 \/ Interrupt3 \/ LoopWhileAttached \/ Peek \/ Idle
  BY <1>8 DEF WaitForAttach, Fetch, Interrupt1, Interrupt3, LoopWhileAttached, Peek, Idle
<1>9. CASE Execute
  <2>1. ran' = ran \/ (ran' = ran + 1 /\ OpenSessions # {})
    BY <1>9 DEF Execute
  <2>2. /\ cpu = "do" /\ cpu' \in {"fetch", "find1", "find3", "halted"}
        /\ UNCHANGED <<cmds, state, taken>>
    BY <1>9 DEF Execute
  <2>3. QED
    BY <2>1, <2>2
<1>10. CASE Pop
  <2>1. Len(Tail(cmds)) = Len(cmds) - 1 /\ cmds # <<>>
    BY <1>10 DEF Pop
  <2>2. Head(cmds) # "cont" /\ \A i \in DOMAIN Tail(cmds) : Tail(cmds)[i] # "cont"
    BY <1>10 DEF Pop
  <2>3. QED
    BY <1>10, <2>1, <2>2 DEF Pop
<1>11. CASE Apply
  BY <1>11 DEF Apply
<1>12. QED
  BY <1>8, <1>9, <1>10, <1>11 DEF CpuThread

LEMMA ClientKeepsBudget ==
  ASSUME NEW c \in Clients, BudgetInv, SessionInv', Proceed(c) \/ UserActs(c)
  PROVE  Budget'
<1> SUFFICES ASSUME ~continued' PROVE Budget'
  BY DEF Budget
<1> DEFINE n == Cardinality(EverOpen)
<1>1. /\ client \in [Clients -> ClientPlaces]
      /\ sent \in Nat /\ ran \in Nat /\ cmds \in Seq(Commands)
  BY DEF BudgetInv, SessionInv, DebuggerTypeOK
<1>a. UNCHANGED <<cpu, taken, ran, state>>
  BY DEF Proceed, UserActs, EmplaceInt3, StoreAttached, Answer, Reply, EraseInt1, EraseInt3,
     ClearAttached, Connect, Disconnect, OtherVPacket, HandleStop, Request, shared, cpuVars
<1>b. ~continued
  <2>1. ASSUME NEW cmd \in Commands, Request(c, cmd) PROVE ~continued
    BY <2>1, Zenon DEF Request
  <2>2. ASSUME UNCHANGED continued PROVE ~continued
    BY <2>2
  <2>3. UNCHANGED continued \/ \E cmd \in Commands : Request(c, cmd)
    BY DEF Proceed, UserActs, EmplaceInt3, StoreAttached, Answer, Reply, EraseInt1, EraseInt3,
       ClearAttached, Connect, Disconnect, OtherVPacket, HandleStop
  <2>4. QED
    BY <2>1, <2>2, <2>3
<1>2. UNCHANGED <<cpu, taken, ran, state>> /\ ~continued
  BY <1>a, <1>b
<1>3. /\ ran + Len(cmds) + Popped + InFlight <= sent + n
      /\ state # "running"
      /\ taken # "cont" /\ \A i \in DOMAIN cmds : cmds[i] # "cont"
  BY <1>2 DEF BudgetInv, Budget
<1>4. n \in Nat /\ Len(cmds) \in Nat
  BY <1>1, EverOpenIsFinite
<1>5. CASE StoreAttached(c)
  <2>1. EverOpen' = EverOpen \cup {c} /\ c \notin EverOpen
    BY <1>1, <1>5 DEF StoreAttached, Go, At, EverOpen
  <2>2. n' = n + 1
    BY <2>1, EverOpenIsFinite, FS_AddElement
  <2>3. UNCHANGED <<cmds, sent>> /\ InFlight' <= 1 /\ 0 <= InFlight /\ Popped' = Popped
    BY <1>2, <1>5 DEF StoreAttached, InFlight, Popped
  <2> HIDE DEF n
  <2>4. (ran + Len(cmds) + Popped + InFlight)' <= sent' + n'
    BY <1>1, <1>2, <1>3, <1>4, <2>2, <2>3 DEF InFlight, Popped
  <2>5. QED
    BY <1>2, <1>3, <2>3, <2>4 DEF Budget, n
<1>6. ASSUME ~StoreAttached(c) PROVE EverOpen' = EverOpen /\ OpenSessions' \subseteq OpenSessions
  BY <1>1, <1>6 DEF Proceed, UserActs, EmplaceInt3, Answer, Reply, EraseInt1, EraseInt3,
     ClearAttached, Connect, Disconnect, OtherVPacket, HandleStop, Request, Go, At, EverOpen, OpenSessions, Open
<1>7. ASSUME ~StoreAttached(c) PROVE InFlight' <= InFlight /\ Popped' = Popped /\ n' = n
  BY <1>2, <1>6, <1>7 DEF InFlight, Popped
<1>8. ASSUME NEW cmd \in Commands, Request(c, cmd), ~StoreAttached(c) PROVE Budget'
  <2>1. cmds' = Append(cmds, cmd) /\ sent' = sent + 1 /\ cmd # "cont"
    BY <1>2, <1>8 DEF Request
  <2>2. Len(cmds') = Len(cmds) + 1 /\ \A i \in DOMAIN cmds' : cmds'[i] # "cont"
    BY <1>1, <1>3, <2>1
  <2> HIDE DEF n
  <2>3. (ran + Len(cmds) + Popped + InFlight)' <= sent' + n'
    BY <1>1, <1>2, <1>3, <1>4, <1>7, <1>8, <2>1, <2>2 DEF InFlight, Popped
  <2>4. QED
    BY <1>2, <1>3, <2>2, <2>3 DEF Budget, n
<1>9. CASE ~StoreAttached(c) /\ ~\E cmd \in Commands : Request(c, cmd)
  <2>1. UNCHANGED <<cmds, sent>>
    BY <1>9 DEF Proceed, UserActs, EmplaceInt3, Answer, Reply, EraseInt1, EraseInt3,
       ClearAttached, Connect, Disconnect, OtherVPacket, HandleStop, shared
  <2> HIDE DEF n
  <2>2. (ran + Len(cmds) + Popped + InFlight)' <= sent' + n'
    BY <1>1, <1>2, <1>3, <1>4, <1>7, <1>9, <2>1 DEF InFlight, Popped
  <2>3. QED
    BY <1>2, <1>3, <2>1, <2>2 DEF Budget, n
<1>10. QED
  BY <1>5, <1>8, <1>9

(* If sessions do not overlap, the program executes at most one            *)
(* instruction per step command and one per session before somebody        *)
(* continues (cpu.cpp 1346-1349, debugger.cpp 49-74).                      *)
THEOREM StepsAreBudgeted ==
  ASSUME OneAtATime PROVE DebuggerSpec => []StepBudget
<1>1. DebuggerInit => BudgetInv
  <2> SUFFICES ASSUME DebuggerInit PROVE BudgetInv
    OBVIOUS
  <2>1. SessionInv
    BY InitHasTypes DEF DebuggerInit, SessionInv, NoOverlap, Busy, HookedSoFar, Open
  <2>2. OpenSessions = {} /\ Len(cmds) = 0 /\ DOMAIN cmds = {}
    BY DEF DebuggerInit, OpenSessions, Open
  <2>3. QED
    BY <2>1, <2>2, EverOpenIsFinite DEF DebuggerInit, BudgetInv, Budget, InFlight, Popped
<1>2. BudgetInv /\ [DebuggerNext]_dbgVars => BudgetInv'
  <2>1. ASSUME BudgetInv, UNCHANGED dbgVars PROVE Budget'
    BY <2>1 DEF dbgVars, shared, cpuVars, clientVars, BudgetInv, Budget, InFlight, Popped,
       OpenSessions, EverOpen
  <2>2. QED
    BY <2>1, StepKeepsSessions, CpuKeepsBudget, ClientKeepsBudget DEF BudgetInv, DebuggerNext
<1>3. BudgetInv => StepBudget
  <2> SUFFICES ASSUME BudgetInv, ~continued PROVE ran <= sent + Cardinality(EverOpen)
    BY DEF StepBudget
  <2>1. /\ ran \in Nat /\ sent \in Nat /\ Len(cmds) \in Nat
        /\ ran + Len(cmds) + Popped + InFlight <= sent + Cardinality(EverOpen)
    BY DEF BudgetInv, SessionInv, DebuggerTypeOK, Budget
  <2>2. Popped \in Nat /\ InFlight \in Nat
    BY DEF Popped, InFlight
  <2>3. QED
    BY <2>1, <2>2, EverOpenIsFinite
<1>4. QED
  BY <1>1, <1>2, <1>3, PTL DEF DebuggerSpec

-------------------------------------------------------------------------------
(* What CommandsAreCarriedOut and StepComesToAStop promise comes about in  *)
(* a bounded number of steps of the CPU thread: it has a command to take   *)
(* or a stop to come to as long as it is hooked, and a measure of the      *)
(* commands to come, those in the queue and its own way through int1().    *)
Owed == attached /\ 1 \in handlers /\ (cmds # <<>> \/ state = "stepping")
WayAt(p, s) ==
  CASE p \in {"pop", "halted"} -> 0
    [] p = "peek" -> 1
    [] p = "loop" -> 2
    [] p \in {"find1", "find3"} -> 3
    [] p = "fetch" -> 4
    [] p = "do" -> 5
    [] p = "wait" -> 6
    [] p = "idle" -> IF s = "stepping" THEN 0 ELSE 6
    [] OTHER -> 14
Mood(s) == IF s = "stepping" THEN 8 ELSE 0
ToServe == 33 * (MaxCommands - sent) + 32 * Len(cmds) + Mood(state) + WayAt(cpu, state)
ServesSooner ==
  Owed /\ Owed' => /\ ToServe' \in Nat /\ ToServe' <= ToServe
                   /\ CpuThread => (ToServe' < ToServe)

LEMMA WayIs ==
  ASSUME NEW s
  PROVE  /\ WayAt("pop", s) = 0 /\ WayAt("halted", s) = 0 /\ WayAt("peek", s) = 1
         /\ WayAt("loop", s) = 2 /\ WayAt("find1", s) = 3 /\ WayAt("find3", s) = 3
         /\ WayAt("fetch", s) = 4 /\ WayAt("do", s) = 5 /\ WayAt("wait", s) = 6
         /\ WayAt("idle", s) = (IF s = "stepping" THEN 0 ELSE 6) /\ WayAt("apply", s) = 14
<1>1. WayAt("pop", s) = 0 /\ WayAt("halted", s) = 0 /\ WayAt("peek", s) = 1
  BY DEF WayAt
<1>2. WayAt("loop", s) = 2 /\ WayAt("find1", s) = 3 /\ WayAt("find3", s) = 3
  BY DEF WayAt
<1>3. WayAt("fetch", s) = 4 /\ WayAt("do", s) = 5 /\ WayAt("wait", s) = 6
  BY DEF WayAt
<1>4. WayAt("idle", s) = (IF s = "stepping" THEN 0 ELSE 6)
  BY DEF WayAt
<1>5. WayAt("apply", s) = 14
  BY DEF WayAt
<1>6. QED BY <1>1, <1>2, <1>3, <1>4, <1>5

(* What a step of the CPU thread does to the measure.                      *)
LEMMA CpuServes ==
  ASSUME DebuggerTypeOK, CpuThread, Owed, Owed'
  PROVE  /\ UNCHANGED sent
         /\ \/ UNCHANGED cmds /\ Mood(state') + WayAt(cpu', state') < Mood(state) + WayAt(cpu, state)
            \/ /\ cmds # <<>> /\ cmds' = Tail(cmds)
               /\ Mood(state') + WayAt(cpu', state') < Mood(state) + WayAt(cpu, state) + 32
<1> DEFINE a == Mood(state)
           b == Mood(state')
           v == WayAt(cpu, state)
           w == WayAt(cpu', state')
           Lower == b + w < a + v
<1>1. /\ UNCHANGED sent /\ attached /\ 1 \in handlers /\ after \in {"do", "fetch"}
      /\ cmds = <<>> => state = "stepping"
  BY DEF CpuThread, WaitForAttach, Fetch, Execute, Interrupt1, Interrupt3, LoopWhileAttached,
         Peek, Idle, Pop, Apply, clientVars, DebuggerTypeOK, Owed
<1>2. a \in {0, 8} /\ b \in {0, 8} /\ (state' = state => b = a)
      /\ (state = "stepping" => a = 8) /\ (state # "stepping" => a = 0)
      /\ (state' = "stopped" => b = 0)
  BY DEF Mood
<1> DEFINE f == WayAt(after, state')
<1>3. f \in {4, 5}  BY <1>1, WayIs
<1> HIDE DEF a, b, v, w, f
<1>4. CASE WaitForAttach \/ Fetch \/ Execute \/ Interrupt1 \/ Interrupt3 \/ LoopWhileAttached
  <2>1. UNCHANGED <<cmds, state>>
    BY <1>4 DEF WaitForAttach, Fetch, Execute, Interrupt1, Interrupt3, LoopWhileAttached, shared
  <2>2. w < v /\ w \in Nat /\ v \in Nat
    <3>1. CASE WaitForAttach
      <4>1. cpu = "wait" /\ cpu' = "fetch"  BY <3>1 DEF WaitForAttach
      <4>2. v = 6 /\ w = 4  BY <4>1, WayIs DEF v, w
      <4>3. QED BY <4>2
    <3>2. CASE Fetch
      <4>1. cpu = "fetch" /\ cpu' = "find1"  BY <1>1, <3>2 DEF Fetch
      <4>2. v = 4 /\ w = 3  BY <4>1, WayIs DEF v, w
      <4>3. QED BY <4>2
    <3>3. CASE Execute
      <4>1. cpu = "do" /\ cpu' \in {"fetch", "find1", "find3", "halted"}  BY <3>3 DEF Execute
      <4>2. v = 5 /\ w \in {4, 3, 0}  BY <4>1, WayIs DEF v, w
      <4>3. QED BY <4>2
    <3>4. CASE Interrupt1 \/ Interrupt3
      <4>1. cpu \in {"find1", "find3"} /\ cpu' \in {"loop", "halted"}
        BY <1>1, <3>4 DEF Interrupt1, Interrupt3
      <4>2. v = 3 /\ w \in {2, 0}  BY <4>1, WayIs DEF v, w
      <4>3. QED BY <4>2
    <3>5. CASE LoopWhileAttached
      <4>1. cpu = "loop" /\ cpu' = "peek"  BY <1>1, <3>5 DEF LoopWhileAttached
      <4>2. v = 2 /\ w = 1  BY <4>1, WayIs DEF v, w
      <4>3. QED BY <4>2
    <3>6. QED BY <1>4, <3>1, <3>2, <3>3, <3>4, <3>5
  <2>3. Lower  BY <1>2, <2>1, <2>2
  <2>4. QED BY <1>1, <2>1, <2>3 DEF a, b, v, w
<1>5. CASE Peek
  <2>1. /\ cpu = "peek" /\ UNCHANGED <<cmds, state>>
        /\ \/ cmds = <<>> /\ cpu' = "idle" /\ state' = "stepping"
           \/ cpu' = "pop"
    BY <1>1, <1>5 DEF Peek, shared
  <2>2. v = 1 /\ w = 0  BY <2>1, WayIs DEF v, w
  <2>3. Lower  BY <1>2, <2>1, <2>2
  <2>4. QED BY <1>1, <2>1, <2>3 DEF a, b, v, w
<1>6. CASE Idle
  <2>1. cpu = "idle" /\ UNCHANGED cmds  BY <1>6 DEF Idle
  <2>2. v = IF state = "stepping" THEN 0 ELSE 6  BY <2>1, WayIs DEF v
  <2>3. CASE state = "running" /\ cpu' = after /\ UNCHANGED state
    <3>1. w = f  BY <2>3 DEF w, f
    <3>2. Lower  BY <1>2, <1>3, <2>2, <2>3, <3>1
    <3>3. QED BY <1>1, <2>1, <3>2 DEF a, b, v, w
  <2>4. CASE cpu' = "loop" /\ state' = "stopped"
    <3>1. w = 2 /\ b = 0  BY <1>2, <2>4, WayIs DEF w
    <3>2. a + v \in {6, 8}  BY <1>2, <2>2
    <3>3. Lower  BY <3>1, <3>2
    <3>4. QED BY <1>1, <2>1, <3>3 DEF a, b, v, w
  <2>5. QED BY <1>6, <2>3, <2>4 DEF Idle
<1>7. CASE Pop
  <2>1. cpu = "pop" /\ cpu' = "apply" /\ cmds # <<>> /\ cmds' = Tail(cmds) /\ UNCHANGED state
    BY <1>7 DEF Pop
  <2>2. v = 0 /\ w = 14  BY <2>1, WayIs DEF v, w
  <2>3. b + w < a + v + 32  BY <1>2, <2>1, <2>2
  <2>4. QED BY <1>1, <2>1, <2>3 DEF a, b, v, w
<1>8. CASE Apply
  <2>1. cpu = "apply" /\ cpu' = after /\ UNCHANGED cmds  BY <1>8 DEF Apply
  <2>2. v = 14  BY <2>1, WayIs DEF v
  <2>3. w = f  BY <2>1 DEF w, f
  <2>4. Lower  BY <1>2, <1>3, <2>2, <2>3
  <2>5. QED BY <1>1, <2>1, <2>4 DEF a, b, v, w
<1>9. QED BY <1>4, <1>5, <1>6, <1>7, <1>8 DEF CpuThread

LEMMA StepServes ==
  ASSUME DebuggerTypeOK, DebuggerTypeOK', [DebuggerNext]_dbgVars
  PROVE  ServesSooner
<1>0. SUFFICES ASSUME Owed, Owed'
               PROVE  ToServe' \in Nat /\ ToServe' <= ToServe /\ (CpuThread => (ToServe' < ToServe))
  BY DEF ServesSooner
<1>1. /\ cmds \in Seq(Commands) /\ cmds' \in Seq(Commands)
      /\ sent \in 0..MaxCommands /\ sent' \in 0..MaxCommands /\ MaxCommands \in Nat
      /\ cpu \in CpuPlaces /\ cpu' \in CpuPlaces
  BY DebuggerAssumption DEF DebuggerTypeOK
<1> DEFINE k == MaxCommands - sent
           l == MaxCommands - sent'
           m == Len(cmds)
           n == Len(cmds')
           a == Mood(state)
           b == Mood(state')
           v == WayAt(cpu, state)
           w == WayAt(cpu', state')
<1>2. m \in Nat /\ n \in Nat /\ k \in Nat /\ l \in Nat
  <2>1. Len(cmds) \in Nat /\ Len(cmds') \in Nat  BY <1>1
  <2>2. \A x \in 0..MaxCommands : MaxCommands - x \in Nat  BY DebuggerAssumption
  <2>3. k \in Nat /\ l \in Nat  BY <1>1, <2>2
  <2>4. QED BY <2>1, <2>3
<1>3. a \in {0, 8} /\ b \in {0, 8}  BY DEF Mood
<1>4. v \in Nat /\ w \in Nat
  BY <1>1, WayIs DEF CpuPlaces, Int1
<1>5. ToServe = 33 * k + 32 * m + a + v /\ ToServe' = 33 * l + 32 * n + b + w
  BY DEF ToServe, Mood, WayAt
<1>6. CASE CpuThread
  <2>1. \/ UNCHANGED cmds /\ b + w < a + v
        \/ cmds # <<>> /\ cmds' = Tail(cmds) /\ b + w < a + v + 32
    BY <1>0, <1>6, CpuServes
  <2>2. l = k  BY <1>0, <1>6, CpuServes
  <2>3. \/ n = m /\ b + w < a + v
        \/ n = m - 1 /\ b + w < a + v + 32
    <3>1. UNCHANGED cmds => n = m  OBVIOUS
    <3>2. cmds # <<>> => Len(Tail(cmds)) = m - 1  BY <1>1
    <3>3. cmds # <<>> /\ cmds' = Tail(cmds) => n = m - 1  BY <3>2
    <3> HIDE DEF n, m
    <3>4. QED BY <2>1, <3>1, <3>3
  <2> HIDE DEF k, l, m, n, a, b, v, w
  <2>4. /\ 33 * l + 32 * n + b + w < 33 * k + 32 * m + a + v
        /\ 33 * l + 32 * n + b + w \in Nat
    BY <1>2, <1>3, <1>4, <2>2, <2>3
  <2>5. QED BY <1>2, <1>3, <1>4, <1>5, <2>4
<1>7. CASE \E c \in Clients, cmd \in Commands : Request(c, cmd)
  <2>1. PICK cmd \in Commands : /\ cmds' = Append(cmds, cmd) /\ sent' = sent + 1
                                /\ UNCHANGED <<state, cpu>>
    BY <1>7 DEF Request, cpuVars
  <2>2. l = k - 1  BY <1>1, <2>1
  <2>3. n = m + 1  BY <1>1, <2>1
  <2>4. b = a /\ w = v  BY <2>1 DEF WayAt, Mood
  <2>5. ~CpuThread
    BY <1>1, <2>1 DEF CpuThread, WaitForAttach, Fetch, Execute, Interrupt1, Interrupt3,
         LoopWhileAttached, Peek, Idle, Pop, Apply, clientVars
  <2> HIDE DEF k, l, m, n, a, b, v, w
  <2>6. QED BY <1>2, <1>3, <1>4, <1>5, <2>2, <2>3, <2>4, <2>5
<1>8. CASE ~CpuThread /\ ~(\E c \in Clients, cmd \in Commands : Request(c, cmd))
  <2>1. UNCHANGED <<cmds, state, cpu, sent>>
    BY <1>8 DEF DebuggerNext, Proceed, UserActs, EmplaceInt3, StoreAttached, Answer, Reply,
         EraseInt1, EraseInt3, ClearAttached, Connect, Disconnect, OtherVPacket, HandleStop,
         dbgVars, shared, cpuVars, clientVars
  <2>2. l = k /\ n = m /\ b = a /\ w = v  BY <2>1 DEF WayAt, Mood
  <2> HIDE DEF k, l, m, n, a, b, v, w
  <2>3. QED BY <1>2, <1>3, <1>4, <1>5, <1>8, <2>2
<1>9. QED BY <1>6, <1>7, <1>8

(* Nothing that users do while a debugger is hooked takes the CPU thread   *)
(* further from the next command or the stop it owes, and each step of its *)
(* own takes it closer, however many sessions overlap (cpu.cpp 1339-1349,  *)
(* debugger.cpp 49-74).                                                    *)
THEOREM DebuggersAreServed == DebuggerSpec => [][ServesSooner]_dbgVars
<1>1. DebuggerTypeOK /\ [DebuggerNext]_dbgVars => DebuggerTypeOK' /\ [ServesSooner]_dbgVars
  BY StepKeepsTypes, StepServes
<1>2. QED BY <1>1, InitHasTypes, PTL DEF DebuggerSpec

(* The way out of int1() once the flag is down.                            *)
WayOut(p) ==
  CASE p = "loop" -> 1
    [] p \in {"idle", "apply"} -> 2
    [] p = "pop" -> 3
    [] p = "peek" -> 4
    [] OTHER -> 0
LeavesSooner == cpu \in Int1 /\ ~attached => UNCHANGED cpu \/ (WayOut(cpu)' < WayOut(cpu))

LEMMA WayOutIs ==
  /\ WayOut("loop") = 1 /\ WayOut("idle") = 2 /\ WayOut("apply") = 2 /\ WayOut("pop") = 3
  /\ WayOut("peek") = 4 /\ WayOut("do") = 0 /\ WayOut("fetch") = 0
<1>1. WayOut("loop") = 1 /\ WayOut("idle") = 2 /\ WayOut("apply") = 2  BY DEF WayOut
<1>2. WayOut("pop") = 3 /\ WayOut("peek") = 4  BY DEF WayOut
<1>3. WayOut("do") = 0 /\ WayOut("fetch") = 0  BY DEF WayOut
<1>4. QED BY <1>1, <1>2, <1>3

LEMMA StepLeaves ==
  ASSUME DebuggerTypeOK, [DebuggerNext]_dbgVars
  PROVE  LeavesSooner
<1>0. SUFFICES ASSUME cpu \in Int1, ~attached, cpu' # cpu PROVE WayOut(cpu') < WayOut(cpu)
  BY DEF LeavesSooner, WayOut
<1>1. CpuThread /\ after \in {"do", "fetch"}
  BY <1>0 DEF DebuggerNext, Proceed, UserActs, EmplaceInt3, StoreAttached, Answer, Reply,
       EraseInt1, EraseInt3, ClearAttached, Connect, Disconnect, OtherVPacket, HandleStop, Request,
       dbgVars, cpuVars, DebuggerTypeOK
<1>2. \/ cpu = "loop" /\ cpu' \in {"do", "fetch"}
      \/ cpu = "peek" /\ cpu' \in {"idle", "pop"}
      \/ cpu = "idle" /\ cpu' \in {"loop", "do", "fetch"}
      \/ cpu = "pop" /\ cpu' = "apply"
      \/ cpu = "apply" /\ cpu' \in {"do", "fetch"}
  BY <1>0, <1>1 DEF CpuThread, Int1, WaitForAttach, Fetch, Execute, Interrupt1, Interrupt3,
         LoopWhileAttached, Peek, Idle, Pop, Apply
<1>3. QED BY <1>2, WayOutIs

(* A program that is stopped as its debugger leaves comes out of int1() in *)
(* four steps of its thread at most, wherever the flag goes down under it  *)
(* (debugger.cpp 40-74); SessionsBackTheFlag has that none of them blocks. *)
THEOREM StoppedProgramsGoOn == DebuggerSpec => [][LeavesSooner]_dbgVars
<1>1. DebuggerTypeOK /\ [DebuggerNext]_dbgVars => DebuggerTypeOK' /\ [LeavesSooner]_dbgVars
  BY StepKeepsTypes, StepLeaves
<1>2. QED BY <1>1, InitHasTypes, PTL DEF DebuggerSpec
===============================================================================
