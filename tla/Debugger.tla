------------------------------- MODULE Debugger -------------------------------
(***************************************************************************)
(* The debugger of door86 (src/debugger) and the part of the CPU loop      *)
(* (src/cpu/x86/cpu.cpp) it stops: the thread that runs the program and    *)
(* one detached thread per debugger connection, which share a queue of     *)
(* commands, the interrupt handlers 1 and 3, a state under a mutex and the *)
(* atomic flag debugger_attached.                                          *)
(*                                                                         *)
(* Each action is one access to what the threads share.  A thread that     *)
(* only sleeps or polls again takes no step.  int_handlers_ and the        *)
(* queue's empty() are read without a lock, a data race: an access is      *)
(* taken to happen before or after another, never in the middle of it.     *)
(*                                                                         *)
(* Left out: the packets that touch none of this (queries, registers,      *)
(* memory), the commands nobody sends (step_in and so on), the response    *)
(* queue nobody fills, programs that hook INT 1 or INT 3, and what client  *)
(* threads do between the return of cpu.run() and the end of the process.  *)
(***************************************************************************)
EXTENDS Naturals, Sequences, FiniteSets

CONSTANTS
  Gdb, Lame,         \* the connections that may come in, port 2112 and 2113
  WaitForDebugger,   \* -W: wait_for_debugger
  FlagAtStart,       \* what debugger_attached may hold before anyone sets it
  OneAtATime,        \* the users never connect while another is connected
  MaxCommands        \* bound: commands sent in all

Clients == Gdb \cup Lame
Commands == {"cont", "step"}

ASSUME DebuggerAssumption ==
  /\ Gdb \cap Lame = {} /\ IsFiniteSet(Clients)
  /\ WaitForDebugger \in BOOLEAN /\ OneAtATime \in BOOLEAN
  /\ FlagAtStart \subseteq BOOLEAN
  /\ MaxCommands \in Nat

VARIABLES
  attached,   \* cpu.debugger_attached
  handlers,   \* the keys among 1 and 3 in cpu.int_handlers_
  cmds,       \* cmds_
  state,      \* state_
  cpu,        \* where the CPU thread is
  after,      \* where it goes on when the interrupt returns
  taken,      \* cmd of int1(), "none" outside its scope
  client,     \* where each connection's thread is
  sent,       \* bound: number of commands pushed
  continued,  \* history: a "cont" has been pushed
  settled,    \* history: the connections sending the S05 of a stop they found
              \* when no command was under way, and none was pushed since
  ran         \* history: instructions executed while a session was open and
              \* nobody had asked to continue (it stops above its limit)

shared == <<attached, handlers, cmds, state>>
cpuVars == <<cpu, after, taken, ran>>
clientVars == <<client, sent, continued, settled>>
dbgVars == <<shared, cpuVars, clientVars>>

Int1 == {"loop", "peek", "idle", "pop", "apply"}      \* inside int1()
CpuPlaces == {"wait", "fetch", "find1", "find3", "do", "halted"} \cup Int1
Open == {"serve", "answer", "reply"}                  \* between attach() and detach()
ClientPlaces ==
  {"new", "emplace3", "store", "erase1", "erase3", "clear", "gone"} \cup Open

OpenSessions == {c \in Clients : client[c] \in Open}
EverOpen == {c \in Clients : client[c] \notin {"new", "emplace3", "store"}}

DebuggerInit ==
  /\ attached \in FlagAtStart
  /\ handlers = {} /\ cmds = <<>> /\ state = "stepping"
  /\ cpu = (IF WaitForDebugger THEN "wait" ELSE "fetch")
  /\ after = "fetch" /\ taken = "none"
  /\ client = [c \in Clients |-> "new"]
  /\ sent = 0 /\ continued = FALSE /\ settled = {} /\ ran = 0

-------------------------------------------------------------------------------
(* The CPU thread: run(), execute() and call_interrupt().                  *)

WaitForNothing ==                \* wrong: the flag is not tested
  /\ cpu = "wait"
  /\ cpu' = "fetch"
  /\ UNCHANGED <<shared, after, taken, ran, clientVars>>

WaitForAttach ==
  /\ cpu = "wait" /\ attached
  /\ cpu' = "fetch"
  /\ UNCHANGED <<shared, after, taken, ran, clientVars>>

FetchOnly ==                     \* wrong: no INT 1 before the instruction
  /\ cpu = "fetch"
  /\ cpu' = "do" /\ after' = "do"
  /\ UNCHANGED <<shared, taken, ran, clientVars>>

(* The next instruction is decoded; INT 1 comes before it if the flag is set. *)
Fetch ==
  /\ cpu = "fetch"
  /\ cpu' = (IF attached THEN "find1" ELSE "do") /\ after' = "do"
  /\ UNCHANGED <<shared, taken, ran, clientVars>>

(* An instruction: one that does not concern the debugger, INT 1, INT 3 or *)
(* the program's last.                                                     *)
Execute ==
  /\ cpu = "do"
  /\ cpu' \in {"fetch", "find1", "find3", "halted"} /\ after' = "fetch"
  /\ ran' = IF OpenSessions # {} /\ ~continued /\ ran <= MaxCommands + Cardinality(Clients)
            THEN ran + 1 ELSE ran
  /\ UNCHANGED <<shared, taken, clientVars>>

(* call_interrupt(1): without a handler nothing happens.                   *)
Interrupt1 ==
  /\ cpu = "find1"
  /\ cpu' = IF 1 \in handlers THEN "loop" ELSE after
  /\ UNCHANGED <<shared, after, taken, ran, clientVars>>

(* call_interrupt(3): without a handler the program ends.                  *)
Interrupt3 ==
  /\ cpu = "find3"
  /\ cpu' = IF 3 \in handlers THEN "loop" ELSE "halted"
  /\ UNCHANGED <<shared, after, taken, ran, clientVars>>

-------------------------------------------------------------------------------
(* int1(), on the CPU thread; int3() calls it.                             *)

LoopForEver ==                   \* wrong: the flag is not tested
  /\ cpu = "loop"
  /\ cpu' = "peek"
  /\ UNCHANGED <<shared, after, taken, ran, clientVars>>

LoopWhileAttached ==
  /\ cpu = "loop"
  /\ cpu' = IF attached THEN "peek" ELSE after
  /\ UNCHANGED <<shared, after, taken, ran, clientVars>>

PeekNot ==                       \* wrong: pops whatever the queue holds
  /\ cpu = "peek"
  /\ cpu' = "pop"
  /\ UNCHANGED <<shared, after, taken, ran, clientVars>>

Peek ==
  /\ cpu = "peek"
  /\ cpu' = IF cmds = <<>> THEN "idle" ELSE "pop"
  /\ UNCHANGED <<shared, after, taken, ran, clientVars>>

IdleOnce ==                      \* wrong: leaves int1() after the sleep
  /\ cpu = "idle" /\ cpu' = after
  /\ state' = IF state = "running" THEN state ELSE "stopped"
  /\ UNCHANGED <<attached, handlers, cmds, after, taken, ran, clientVars>>

IdleUnseen ==                    \* wrong: state_ is not set
  /\ cpu = "idle" /\ cpu' = IF state = "running" THEN after ELSE "loop"
  /\ UNCHANGED <<shared, after, taken, ran, clientVars>>

Idle ==
  /\ cpu = "idle"
  /\ \/ state = "running" /\ cpu' = after /\ UNCHANGED state
     \/ state # "running" /\ cpu' = "loop" /\ state' = "stopped"
  /\ UNCHANGED <<attached, handlers, cmds, after, taken, ran, clientVars>>

(* pop() waits until the queue is not empty.                               *)
Pop ==
  /\ cpu = "pop" /\ cmds # <<>>
  /\ taken' = Head(cmds) /\ cmds' = Tail(cmds) /\ cpu' = "apply"
  /\ UNCHANGED <<attached, handlers, state, after, ran, clientVars>>

ApplyRaw ==                      \* wrong: keeps the command for the state
  /\ cpu = "apply"
  /\ state' = taken /\ taken' = "none" /\ cpu' = after
  /\ UNCHANGED <<attached, handlers, cmds, after, ran, clientVars>>

ApplyCont ==                     \* wrong: step falls into cont
  /\ cpu = "apply"
  /\ state' = "running" /\ taken' = "none" /\ cpu' = after
  /\ UNCHANGED <<attached, handlers, cmds, after, ran, clientVars>>

Apply ==
  /\ cpu = "apply"
  /\ state' = (IF taken = "cont" THEN "running" ELSE "stepping")
  /\ taken' = "none" /\ cpu' = after
  /\ UNCHANGED <<attached, handlers, cmds, after, ran, clientVars>>

CpuThread ==
  \/ WaitForAttach \/ Fetch \/ Execute \/ Interrupt1 \/ Interrupt3
  \/ LoopWhileAttached \/ Peek \/ Idle \/ Pop \/ Apply

-------------------------------------------------------------------------------
(* A connection's thread.                                                  *)

At(c, place) == cpu # "halted" /\ client[c] = place    \* and the process is alive
Go(c, place) == client' = [client EXCEPT ![c] = place]

ConnectInt1Only(c) ==            \* wrong: no handler for INT 3
  /\ At(c, "new")
  /\ OneAtATime => \A d \in Clients \ {c} : client[d] \in {"new", "gone"}
  /\ handlers' = handlers \cup {1} /\ Go(c, "store")
  /\ UNCHANGED <<attached, cmds, state, cpuVars, sent, continued, settled>>

(* attach(), called by the constructors of GdbDebugger and LameDebugger.   *)
Connect(c) ==
  /\ At(c, "new")
  /\ OneAtATime => \A d \in Clients \ {c} : client[d] \in {"new", "gone"}
  /\ handlers' = handlers \cup {1} /\ Go(c, "emplace3")
  /\ UNCHANGED <<attached, cmds, state, cpuVars, sent, continued, settled>>

EmplaceInt3(c) ==
  /\ At(c, "emplace3")
  /\ handlers' = handlers \cup {3} /\ Go(c, "store")
  /\ UNCHANGED <<attached, cmds, state, cpuVars, sent, continued, settled>>

StoreAttached(c) ==
  /\ At(c, "store")
  /\ attached' = TRUE /\ Go(c, "serve")
  /\ UNCHANGED <<handlers, cmds, state, cpuVars, sent, continued, settled>>

(* A line that asks to step or to continue.                                *)
Request(c, cmd) ==
  /\ At(c, "serve") /\ sent < MaxCommands
  /\ cmds' = Append(cmds, cmd) /\ sent' = sent + 1
  /\ continued' = (continued \/ cmd = "cont") /\ settled' = {}
  /\ Go(c, IF c \in Gdb THEN "answer" ELSE "serve")
  /\ UNCHANGED <<attached, handlers, state, cpuVars>>

(* Any other v packet but vMustReplyEmpty and vCont? sends no command.     *)
OtherVPacket(c) ==
  /\ c \in Gdb /\ At(c, "serve")
  /\ Go(c, "answer")
  /\ UNCHANGED <<shared, cpuVars, sent, continued, settled>>

(* After polling up to ten times: the stop reply S05, or none at all.      *)
UnderWay == cmds # <<>> \/ taken # "none"
Answer(c) ==
  /\ At(c, "answer")
  /\ Go(c, IF state = "stopped" THEN "reply" ELSE "serve")
  /\ settled' = IF state = "stopped" /\ ~UnderWay THEN settled \cup {c} ELSE settled
  /\ UNCHANGED <<shared, cpuVars, sent, continued>>

(* The packet ?: S05, whatever the state is.                               *)
HandleStop(c) ==
  /\ c \in Gdb /\ At(c, "serve")
  /\ Go(c, "reply")
  /\ UNCHANGED <<shared, cpuVars, sent, continued, settled>>

(* S05 is sent, and acknowledged or the connection is found closed.        *)
Reply(c) ==
  /\ At(c, "reply")
  /\ Go(c, "serve") \/ Go(c, "erase1")
  /\ settled' = settled \ {c}
  /\ UNCHANGED <<shared, cpuVars, sent, continued>>

(* Run() ends: the peer has closed the connection.                         *)
Disconnect(c) ==
  /\ At(c, "serve")
  /\ Go(c, "erase1")
  /\ UNCHANGED <<shared, cpuVars, sent, continued, settled>>

(* detach(), called by the destructors.                                    *)
EraseInt1(c) ==
  /\ At(c, "erase1")
  /\ handlers' = handlers \ {1} /\ Go(c, "erase3")
  /\ UNCHANGED <<attached, cmds, state, cpuVars, sent, continued, settled>>

EraseInt3(c) ==
  /\ At(c, "erase3")
  /\ handlers' = handlers \ {3} /\ Go(c, "clear")
  /\ UNCHANGED <<attached, cmds, state, cpuVars, sent, continued, settled>>

LeaveAttached(c) ==              \* wrong: the flag stays up
  /\ At(c, "clear")
  /\ Go(c, "gone")
  /\ UNCHANGED <<shared, cpuVars, sent, continued, settled>>

ClearAttached(c) ==
  /\ At(c, "clear")
  /\ attached' = FALSE /\ Go(c, "gone")
  /\ UNCHANGED <<handlers, cmds, state, cpuVars, sent, continued, settled>>

(* What a client thread does by itself, and what waits for its user.       *)
Proceed(c) ==
  \/ EmplaceInt3(c) \/ StoreAttached(c) \/ Answer(c) \/ Reply(c)
  \/ EraseInt1(c) \/ EraseInt3(c) \/ ClearAttached(c)
UserActs(c) ==
  \/ Connect(c) \/ Disconnect(c) \/ OtherVPacket(c) \/ HandleStop(c)
  \/ \E cmd \in Commands : Request(c, cmd)

DebuggerNext == CpuThread \/ \E c \in Clients : Proceed(c) \/ UserActs(c)

DebuggerSpec == DebuggerInit /\ [][DebuggerNext]_dbgVars

(* Both kinds of thread are scheduled again and again and no instruction   *)
(* waits for ever; users need not do anything.                             *)
Fairness == WF_dbgVars(CpuThread) /\ \A c \in Clients : WF_dbgVars(Proceed(c))
FairDebuggerSpec == DebuggerSpec /\ Fairness

-------------------------------------------------------------------------------
(* Types of the variables. *)
DebuggerTypeOK ==
  /\ attached \in BOOLEAN /\ handlers \subseteq {1, 3}
  /\ cmds \in Seq(Commands) /\ state \in {"running", "stepping", "stopped"}
  /\ cpu \in CpuPlaces /\ after \in {"do", "fetch"}
  /\ taken \in Commands \cup {"none"}
  /\ client \in [Clients -> ClientPlaces]
  /\ sent \in 0..MaxCommands /\ continued \in BOOLEAN /\ ran \in Nat
  /\ settled \subseteq Clients

(* "If true, we have an active debugger attached" (cpu.h 107): the flag is *)
(* up only while some session is open or about to take it down, however    *)
(* many sessions come and go at the same time.                             *)
AttachedHasSession ==
  attached => \E c \in Clients : client[c] \in Open \cup {"erase1", "erase3", "clear"}

(* The CPU thread never blocks inside pop(), where no detach() could wake  *)
(* it: the queue is still not empty when it gets there, though the test    *)
(* was made without the lock (debugger.cpp 51, 65).                        *)
PopNeverBlocks == cpu = "pop" => cmds # <<>>

(* With -W no instruction is executed before a debugger has attached       *)
(* (cpu.h 109-110, cpu.cpp 1321-1326).                                     *)
WaitsForDebugger == WaitForDebugger /\ EverOpen = {} => cpu = "wait"

(* While a session is open the flag is up and both handlers are in place,  *)
(* if sessions do not overlap: no instruction slips past INT 1 and INT 3   *)
(* does not end the program (debugger.cpp 28-42).                          *)
SessionIsHooked == OpenSessions # {} => attached /\ handlers = {1, 3}

(* Until somebody continues, the program executes at most one instruction  *)
(* per step command and one more per session, the one under way when the   *)
(* debugger attached (cpu.cpp 1346-1349, debugger.cpp 49-74).              *)
StepBudget == ~continued => ran <= sent + Cardinality(EverOpen)

(* gdb is told S05 in answer to a v packet (gdb_debugger.cpp 266-268) only *)
(* while the program is stopped: from the moment state_ is read until S05  *)
(* has been sent the CPU thread stays inside int1(), without a command to  *)
(* go on with.  Excepted are what the code does not try to get right: S05  *)
(* while a command is under way, which is of the stop before it; S05 sent  *)
(* as a command of another connection comes in; S05 after a session has    *)
(* ended, of whose state_ it may be; and the answer to ? ("Sorta BS        *)
(* response", gdb_debugger.cpp 340-344).                                   *)
FirstSession == \A c \in Clients : client[c] # "gone"
StopReplyIsTrue == FirstSession /\ settled # {} => cpu \in {"loop", "peek", "idle"}

(* Commands are carried out: the queue is emptied, unless the debugger     *)
(* detaches or the program ends first.                                     *)
CommandsAreCarriedOut ==
  cmds # <<>> /\ attached ~> cmds = <<>> \/ ~attached \/ cpu = "halted"

(* A step comes to a stop: "stepping" does not last while a debugger is    *)
(* attached.                                                               *)
StepComesToAStop ==
  state = "stepping" /\ attached
    ~> state \in {"running", "stopped"} \/ ~attached \/ cpu = "halted"

(* A program whose debugger has gone is not left stopped in int1().        *)
ResumesWithoutDebugger ==
  cpu \in Int1 /\ ~attached ~> cpu \notin Int1 \/ attached
===============================================================================
