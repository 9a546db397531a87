-------------------------- MODULE ProcessLife_proofs --------------------------
(***************************************************************************)
(* Proofs about ProcessLife for every number of workers and every channel  *)
(* capacity: types, the table, the order to stop, zombies, the mesh of     *)
(* channels.                                                               *)
(***************************************************************************)
EXTENDS ProcessLife, TLAPS

(* The slots in use are the first "last" ones and have had a child; a slot *)
(* beyond them is untouched.                                               *)
TableOK ==
  /\ \A s \in Slot : entry[s].used <=> s < last
  /\ \A s \in Slot : s < last <=> pc[s] # "none"
  /\ \A s \in Slot : s >= last => entry[s] = Free
  /\ mpc = "start" => last <= started
  /\ mpc = "start" => \A s \in Slot : ~entry[s].message

BaseInv == TypeOK /\ TableOK

(* A write leaves the types of the channels alone.                         *)
LEMMA WriteType ==
  ASSUME NEW S, NEW cmds \in SUBSET Command, TypeOK, Write(S, cmds)
  PROVE  channel' \in [Slot -> SUBSET Command] /\ held' \in [Slot -> 0 .. ChannelCap]
<1>1. channel' \in [Slot -> SUBSET Command]
  <2>1. channel \in [Slot -> SUBSET Command]
    BY DEF TypeOK
  <2> QED BY <2>1 DEF Write
<1>2. held' \in [Slot -> 0 .. ChannelCap]
  <2>1. held \in [Slot -> 0 .. ChannelCap]
    BY DEF TypeOK
  <2> QED BY <2>1, ProcessAssumption DEF Write, HasRoom
<1> QED BY <1>1, <1>2

Entry == [used : BOOLEAN, message : BOOLEAN, exiting : BOOLEAN, exited : BOOLEAN]

(* What the order to stop does to the table: only "exiting" changes.       *)
LEMMA SignalEntry ==
  ASSUME NEW signo \in Stop, entry \in [Slot -> Entry], SignalWorkers(signo)
  PROVE  /\ entry' \in [Slot -> Entry]
         /\ \A s \in Slot : /\ entry'[s].used = entry[s].used
                            /\ entry'[s].message = entry[s].message
                            /\ entry'[s].exited = entry[s].exited
                            /\ entry'[s].exiting /\ ~entry[s].exiting => s \in Told(signo)
                            /\ s \notin Used => entry'[s] = entry[s]
<1> DEFINE killed == {s \in Told(signo) : ~HasRoom(s)} \cup (Used \ Workers)
           gone   == {s \in killed : entry[s].exited}
           f(s)   == IF s \in gone THEN [entry[s] EXCEPT !.exiting = FALSE]
                     ELSE IF s \in Told(signo) THEN [entry[s] EXCEPT !.exiting = TRUE]
                     ELSE entry[s]
<1>1. entry' = [s \in Slot |-> f(s)]
  BY DEF SignalWorkers
<1>2. ASSUME NEW s \in Slot
      PROVE  /\ f(s) \in Entry
             /\ f(s).used = entry[s].used /\ f(s).message = entry[s].message
             /\ f(s).exited = entry[s].exited
             /\ f(s).exiting /\ ~entry[s].exiting => s \in Told(signo)
             /\ s \notin Used => f(s) = entry[s]
  <2>1. entry[s] \in Entry
    OBVIOUS
  <2>2. gone \subseteq Used /\ Told(signo) \subseteq Used
    BY DEF Told, Workers
  <2> HIDE DEF gone
  <2>3. CASE s \in gone
    BY <2>1, <2>2, <2>3 DEF Entry
  <2>4. CASE s \notin gone
    BY <2>1, <2>2, <2>4 DEF Entry
  <2> QED BY <2>3, <2>4
<1> HIDE DEF f
<1> QED BY <1>1, <1>2

(* The order to stop keeps the types.                                      *)
LEMMA SignalType ==
  ASSUME NEW signo \in Stop, TypeOK, SignalWorkers(signo)
  PROVE  /\ channel' \in [Slot -> SUBSET Command] /\ held' \in [Slot -> 0 .. ChannelCap]
         /\ sig' \in [Slot -> BOOLEAN]
         /\ entry' \in [Slot -> Entry]
<1>1. Write(Told(signo), {STOP}) /\ {STOP} \in SUBSET Command
  BY DEF SignalWorkers, Command
<1>2. channel' \in [Slot -> SUBSET Command] /\ held' \in [Slot -> 0 .. ChannelCap]
  BY <1>1, WriteType
<1>3. sig' \in [Slot -> BOOLEAN]
  BY DEF SignalWorkers
<1>4. entry' \in [Slot -> Entry]
  BY SignalEntry DEF TypeOK, Entry
<1> QED BY <1>2, <1>3, <1>4

(* What collecting the exited children does to the table.                  *)
LEMMA ReapEntry ==
  ASSUME entry \in [Slot -> Entry], Reap
  PROVE  /\ entry' \in [Slot -> Entry]
         /\ \A s \in Slot : /\ entry'[s].used = entry[s].used
                            /\ entry'[s].message = entry[s].message
                            /\ entry'[s].exiting = entry[s].exiting
                            /\ entry'[s].exited = (entry[s].exited \/ Zombie(s))
                            /\ ~Zombie(s) => entry'[s] = entry[s]
<1> DEFINE f(s) == IF Zombie(s) THEN [entry[s] EXCEPT !.exited = TRUE] ELSE entry[s]
<1>1. entry' = [s \in Slot |-> f(s)]
  BY DEF Reap
<1>2. ASSUME NEW s \in Slot
      PROVE  /\ f(s) \in Entry
             /\ f(s).used = entry[s].used /\ f(s).message = entry[s].message
             /\ f(s).exiting = entry[s].exiting
             /\ f(s).exited = (entry[s].exited \/ Zombie(s))
             /\ ~Zombie(s) => f(s) = entry[s]
  <2>1. entry[s] \in Entry
    OBVIOUS
  <2>2. CASE Zombie(s)
    BY <2>1, <2>2 DEF Entry
  <2>3. CASE ~Zombie(s)
    BY <2>1, <2>3 DEF Entry
  <2> QED BY <2>2, <2>3
<1> HIDE DEF f
<1> QED BY <1>1, <1>2

(* What a step of a child in slot s leaves alone.                          *)
LEMMA ChildFrame ==
  ASSUME NEW s \in Slot,
         \/ ChildRuns(s) \/ ChildInitFails(s) \/ Handler(s)
         \/ ClientEvent(s) \/ Publication(s) \/ Crash(s)
  PROVE  /\ UNCHANGED <<mpc, started, slot, last, entry, raised>>
         /\ pc[s] \notin {"none", "exited"} /\ pc' = [pc EXCEPT ![s] = pc'[s]]
  BY DEF ChildRuns, ChildInitFails, Handler, ClientEvent, Publication, Crash, ChildInit,
         Block, ChannelEvent, LoopOrExit, ChildStep, Returns, GoTo, Dies, Alive, masterVars

-------------------------------------------------------------------------------
(* Types.                                                                  *)

LEMMA BaseInit == Init => BaseInv
  BY ProcessAssumption DEF Init, BaseInv, TypeOK, TableOK, Free, Slot, Stop

(* fork() into a free slot.                                                *)
LEMMA ForkType ==
  ASSUME BaseInv, mpc = "start", last \in Slot, NEW e \in Entry, Fork(e)
  PROVE  /\ slot' \in 0 .. W /\ last' \in 0 .. W + 1
         /\ entry' \in [Slot -> Entry]
         /\ pc' \in [Slot -> {"none", "init", "enter", "blocked", "check", "exited"}]
         /\ known' \in [Slot -> SUBSET Slot]
  BY ProcessAssumption DEF BaseInv, TypeOK, Fork, Slot, Entry, Workers, Used

LEMMA TypeStep == BaseInv /\ [Next]_vars => TypeOK'
<1> SUFFICES ASSUME BaseInv, [Next]_vars PROVE TypeOK'
  OBVIOUS
<1> USE DEF BaseInv
<1>1. mpc = "start" => last \in Slot
  BY ProcessAssumption DEF TypeOK, TableOK, Slot
<1>2. CASE SpawnWorker
  <2>1. [Free EXCEPT !.used = TRUE] \in Entry
    BY DEF Free, Entry
  <2>2. {Open(last)} \in SUBSET Command
    BY <1>1, <1>2 DEF Command, SpawnWorker
  <2>3. channel' \in [Slot -> SUBSET Command] /\ held' \in [Slot -> 0 .. ChannelCap]
    BY <2>2, <1>2, WriteType DEF SpawnWorker, PassOpenChannel
  <2>4. /\ slot' \in 0 .. W /\ last' \in 0 .. W + 1
        /\ entry' \in [Slot -> Entry]
        /\ pc' \in [Slot -> {"none", "init", "enter", "blocked", "check", "exited"}]
        /\ known' \in [Slot -> SUBSET Slot]
    BY <2>1, <1>1, <1>2, ForkType DEF SpawnWorker
  <2>5. started' \in 0 .. W
    BY <1>2, ProcessAssumption DEF SpawnWorker, TypeOK
  <2> QED BY <2>3, <2>4, <2>5, <1>2 DEF SpawnWorker, TypeOK, Entry
<1>3. CASE SpawnWorkerNoChannel
  <2>1. {Open(slot)} \in SUBSET Command
    BY DEF Command, TypeOK, Slot
  <2>2. channel' \in [Slot -> SUBSET Command] /\ held' \in [Slot -> 0 .. ChannelCap]
    BY <2>1, <1>3, WriteType DEF SpawnWorkerNoChannel, PassOpenChannel
  <2>3. started' \in 0 .. W
    BY <1>3, ProcessAssumption DEF SpawnWorkerNoChannel, TypeOK
  <2> QED BY <2>2, <2>3, <1>3 DEF SpawnWorkerNoChannel, TypeOK
<1>4. CASE SpawnWorkerNoFork
  <2>1. started' \in 0 .. W /\ slot' \in 0 .. W
    BY <1>1, <1>4, ProcessAssumption DEF SpawnWorkerNoFork, TypeOK, Slot
  <2> QED BY <2>1, <1>4 DEF SpawnWorkerNoFork, TypeOK, childVars
<1>5. CASE SpawnMessageProcess
  <2>1. [Free EXCEPT !.used = TRUE, !.message = TRUE] \in Entry
    BY DEF Free, Entry
  <2>2. /\ slot' \in 0 .. W /\ last' \in 0 .. W + 1
        /\ entry' \in [Slot -> Entry]
        /\ pc' \in [Slot -> {"none", "init", "enter", "blocked", "check", "exited"}]
        /\ known' \in [Slot -> SUBSET Slot]
    BY <2>1, <1>1, <1>5, ForkType DEF SpawnMessageProcess
  <2> QED BY <2>2, <1>5 DEF SpawnMessageProcess, TypeOK, Entry
<1>6. CASE SpawnMessageProcessFails
  BY <1>1, <1>6 DEF SpawnMessageProcessFails, TypeOK, childVars, Slot
<1>7. CASE Wake
  <2>1. entry' \in [Slot -> Entry]
    BY <1>7, ReapEntry DEF Wake, TypeOK, Entry
  <2> QED BY <2>1, <1>7 DEF Wake, LoopBody, TypeOK, childVars, Stop, Entry
<1>8. CASE MasterTerminate
  BY <1>8, SignalType DEF MasterTerminate, TypeOK, Stop, Entry
<1>9. CASE MasterQuit
  BY <1>9, SignalType DEF MasterQuit, TypeOK, Stop, Entry
<1>10. CASE MasterExit
  BY <1>10 DEF MasterExit, TypeOK, childVars
<1>11. CASE WakeForNothing
  BY <1>11 DEF WakeForNothing, LoopBody, TypeOK, childVars
<1>12. ASSUME NEW signo \in Stop, UserSignal(signo) PROVE TypeOK'
  BY <1>12 DEF UserSignal, TypeOK, childVars
<1>13. ASSUME NEW s \in Slot,
              \/ ChildRuns(s) \/ ChildInitFails(s) \/ Handler(s)
              \/ ClientEvent(s) \/ Publication(s) \/ Crash(s)
       PROVE  TypeOK'
  <2>1. /\ pc' \in [Slot -> {"none", "init", "enter", "blocked", "check", "exited"}]
        /\ flag' \in [Slot -> BOOLEAN] /\ sig' \in [Slot -> BOOLEAN]
        /\ msig' \subseteq Stop \cup {"CHLD"}
    BY <1>13 DEF TypeOK, ChildRuns, ChildInitFails, Handler, ClientEvent, Publication, Crash,
       ChildInit, Block, ChannelEvent, LoopOrExit, ChildStep, Returns, GoTo, Dies, masterVars
  <2>2. known' \in [Slot -> SUBSET Slot]
    BY <1>13 DEF TypeOK, ChildRuns, ChildInitFails, Handler, ClientEvent, Publication, Crash,
       ChildInit, Block, ChannelEvent, LoopOrExit, ChildStep, Returns, GoTo, Dies, masterVars
  <2>3. channel' \in [Slot -> SUBSET Command] /\ held' \in [Slot -> 0 .. ChannelCap]
    <3>1. CASE Publication(s)
      <4>1. {} \in SUBSET Command /\ Write(known[s], {})
        BY <3>1 DEF Publication
      <4> QED BY <4>1, WriteType
    <3>2. CASE ChannelEvent(s)
      BY <3>2, ProcessAssumption DEF TypeOK, ChannelEvent
    <3>3. CASE ~Publication(s) /\ ~ChannelEvent(s)
      <4>1. UNCHANGED <<channel, held>>
        BY <1>13, <3>3 DEF ChildRuns, ChildInitFails, Handler, ClientEvent, Crash,
           ChildInit, Block, LoopOrExit, Dies
      <4> QED BY <4>1 DEF TypeOK
    <3> QED BY <3>1, <3>2, <3>3
  <2> QED BY <2>1, <2>2, <2>3, <1>13, ChildFrame DEF TypeOK
<1>14. CASE UNCHANGED vars
  BY <1>14 DEF vars, masterVars, childVars, TypeOK
<1> QED BY <1>2, <1>3, <1>4, <1>5, <1>6, <1>7, <1>8, <1>9, <1>10, <1>11, <1>12,
           <1>13, <1>14 DEF Next, MasterStep

(* Which slots are in use is settled by fork() alone.                      *)
LEMMA TableStep == BaseInv /\ [Next]_vars => TableOK'
<1> SUFFICES ASSUME BaseInv, [Next]_vars PROVE TableOK'
  OBVIOUS
<1> USE DEF BaseInv
<1>0. Slot \subseteq Int /\ last \in Int /\ started \in Int
  BY ProcessAssumption DEF Slot, TypeOK
<1>1. ASSUME NEW e \in Entry, e.used, Fork(e), mpc = "start"
      PROVE  /\ \A s \in Slot : entry'[s].used <=> s < last'
             /\ \A s \in Slot : s < last' <=> pc'[s] # "none"
             /\ \A s \in Slot : s >= last' => entry'[s] = Free
             /\ \A s \in Slot : entry'[s] = entry[s] \/ entry'[s] = e
  <2>1. /\ entry' = [entry EXCEPT ![last] = e] /\ pc' = [pc EXCEPT ![last] = "init"]
        /\ last' = last + 1
    BY <1>1 DEF Fork
  <2>2. ASSUME NEW s \in Slot, s = last
        PROVE  entry'[s] = e /\ pc'[s] = "init" /\ s < last'
    BY <2>1, <2>2, <1>0 DEF TypeOK
  <2>3. ASSUME NEW s \in Slot, s # last
        PROVE  entry'[s] = entry[s] /\ pc'[s] = pc[s] /\ (s < last' <=> s < last)
    BY <2>1, <2>3, <1>0 DEF TypeOK
  <2> QED BY <2>1, <2>2, <2>3, <1>0, <1>1 DEF TableOK
<1>2. CASE SpawnWorker
  <2>1. [Free EXCEPT !.used = TRUE] \in Entry /\ [Free EXCEPT !.used = TRUE].used
        /\ ~[Free EXCEPT !.used = TRUE].message
    BY DEF Free, Entry
  <2>2. /\ Fork([Free EXCEPT !.used = TRUE]) /\ mpc = "start" /\ mpc' = mpc
        /\ last' = last + 1 /\ started' = started + 1
    BY <1>2 DEF SpawnWorker, Fork
  <2>3. last' <= started'
    BY <2>2, <1>0 DEF TableOK
  <2>4. \A s \in Slot : ~entry'[s].message
    BY <2>1, <2>2, <1>1 DEF TableOK
  <2> QED BY <2>1, <2>2, <2>3, <2>4, <1>1 DEF TableOK
<1>3. CASE SpawnMessageProcess
  <2>1. [Free EXCEPT !.used = TRUE, !.message = TRUE] \in Entry
        /\ [Free EXCEPT !.used = TRUE, !.message = TRUE].used
    BY DEF Free, Entry
  <2> QED BY <2>1, <1>1, <1>3 DEF SpawnMessageProcess, TableOK
<1>4. CASE SpawnWorkerNoChannel \/ SpawnWorkerNoFork \/ SpawnMessageProcessFails
  BY <1>0, <1>4 DEF SpawnWorkerNoChannel, SpawnWorkerNoFork, SpawnMessageProcessFails,
     TableOK, childVars
<1>5. ASSUME UNCHANGED <<last, pc>>, mpc' # "start",
             \A s \in Slot : entry'[s].used = entry[s].used,
             \A s \in Slot : s \notin Used => entry'[s] = entry[s]
      PROVE  TableOK'
  <2>1. \A s \in Slot : s >= last => ~(s < last)
    BY <1>0
  <2>2. \A s \in Slot : s >= last => entry'[s] = Free
    BY <2>1, <1>5 DEF TableOK, Used
  <2>3. \A s \in Slot : entry'[s].used <=> s < last
    BY <1>5 DEF TableOK
  <2> QED BY <2>2, <2>3, <1>5 DEF TableOK
<1>6. CASE Wake
  <2>1. \A s \in Slot : entry'[s].used = entry[s].used
                        /\ (s \notin Used => entry'[s] = entry[s])
    <3>1. \A s \in Slot : s \notin Used => ~Zombie(s)
      BY DEF Used, Zombie, TableOK
    <3> QED BY <3>1, <1>6, ReapEntry DEF Wake, TypeOK, Entry
  <2> QED BY <2>1, <1>5, <1>6 DEF Wake, childVars, LoopBody
<1>7. CASE MasterTerminate \/ MasterQuit
  <2>1. PICK signo \in Stop : SignalWorkers(signo)
    BY <1>7 DEF MasterTerminate, MasterQuit, Stop
  <2>2. \A s \in Slot : entry'[s].used = entry[s].used
                        /\ (s \notin Used => entry'[s] = entry[s])
    BY <2>1, SignalEntry DEF TypeOK, Entry
  <2> QED BY <2>2, <1>5, <1>7 DEF MasterTerminate, MasterQuit
<1>8. CASE MasterExit \/ WakeForNothing
  BY <1>5, <1>8 DEF MasterExit, WakeForNothing, childVars, LoopBody
<1>9. ASSUME NEW signo \in Stop, UserSignal(signo) PROVE TableOK'
  BY <1>9 DEF UserSignal, TableOK, childVars
<1>10. ASSUME NEW s \in Slot,
              \/ ChildRuns(s) \/ ChildInitFails(s) \/ Handler(s)
              \/ ClientEvent(s) \/ Publication(s) \/ Crash(s)
       PROVE  TableOK'
  <2>1. pc'[s] # "none"
    BY <1>10 DEF TypeOK, ChildRuns, ChildInitFails, Handler, ClientEvent, Publication, Crash,
       ChildInit, Block, ChannelEvent, LoopOrExit, ChildStep, Returns, GoTo, Dies, Alive
  <2>2. \A t \in Slot : pc'[t] # "none" <=> pc[t] # "none"
    BY <2>1, <1>10, ChildFrame DEF TypeOK
  <2> QED BY <2>2, <1>10, ChildFrame DEF TableOK
<1>11. CASE UNCHANGED vars
  BY <1>11 DEF vars, masterVars, childVars, TableOK
<1> QED BY <1>2, <1>3, <1>4, <1>6, <1>7, <1>8, <1>9, <1>10, <1>11 DEF Next, MasterStep

LEMMA BaseCorrect == Spec => []BaseInv
<1>1. BaseInv /\ [Next]_vars => BaseInv'
  BY TypeStep, TableStep DEF BaseInv
<1> QED BY BaseInit, <1>1, PTL DEF Spec

(* Type correctness, for every number of workers and channel capacity: the *)
(* process table never overflows and no channel holds more than it can.    *)
THEOREM TypeCorrect == Spec => []TypeOK
<1>1. BaseInv => TypeOK
  BY DEF BaseInv
<1> QED BY <1>1, BaseCorrect, PTL
-------------------------------------------------------------------------------
(* The order to stop.                                                      *)

(* Once given, the order stays under way until the child has exited.       *)
LEMMA StopIsStable ==
  ASSUME BaseInv, [Next]_vars, NEW s \in Used, StopIsUnderWay(s)
  PROVE  StopIsUnderWay(s)'
<1> USE DEF StopIsUnderWay
<1>0. s \in Slot /\ s < last /\ Slot \subseteq Int /\ last \in Int
  BY ProcessAssumption DEF Used, BaseInv, TableOK, TypeOK, Slot
<1>1. ASSUME NEW e, Fork(e) PROVE pc'[s] = pc[s]
  BY <1>0, <1>1 DEF Fork, BaseInv, TypeOK
<1>2. ASSUME NEW S, NEW cmds, Write(S, cmds), STOP \in channel[s] PROVE STOP \in channel'[s]
  BY <1>0, <1>2 DEF Write
<1>3. CASE SpawnWorker
  BY <1>1, <1>2, <1>3 DEF SpawnWorker, PassOpenChannel
<1>4. CASE SpawnWorkerNoChannel
  BY <1>2, <1>4 DEF SpawnWorkerNoChannel, PassOpenChannel
<1>5. CASE SpawnMessageProcess
  BY <1>1, <1>5 DEF SpawnMessageProcess
<1>6. CASE \/ SpawnWorkerNoFork \/ SpawnMessageProcessFails \/ Wake \/ MasterExit
           \/ WakeForNothing \/ \E signo \in Stop : UserSignal(signo)
  BY <1>6 DEF SpawnWorkerNoFork, SpawnMessageProcessFails, Wake, MasterExit,
     WakeForNothing, UserSignal, childVars
<1>7. CASE MasterTerminate \/ MasterQuit
  <2>1. PICK signo \in Stop : SignalWorkers(signo)
    BY <1>7 DEF MasterTerminate, MasterQuit, Stop
  <2>2. sig[s] => sig'[s]
    BY <2>1, <1>0 DEF SignalWorkers
  <2>3. STOP \in channel[s] => STOP \in channel'[s]
    BY <2>1, <1>2 DEF SignalWorkers
  <2> QED BY <2>2, <2>3, <1>7 DEF MasterTerminate, MasterQuit
<1>8. ASSUME NEW t \in Slot,
              \/ ChildRuns(t) \/ ChildInitFails(t) \/ Handler(t)
              \/ ClientEvent(t) \/ Publication(t) \/ Crash(t)
       PROVE  StopIsUnderWay(s)'
  <2>1. CASE t # s
    <3>1. pc'[s] = pc[s]
      BY <2>1, <1>0, <1>8, ChildFrame DEF BaseInv, TypeOK
    <3>2. flag'[s] = flag[s] /\ sig'[s] = sig[s]
      BY <2>1, <1>0, <1>8 DEF BaseInv, TypeOK, ChildRuns, ChildInitFails, Handler, ClientEvent,
         Publication, Crash, ChildInit, Block, ChannelEvent, LoopOrExit, Dies
    <3>3. STOP \in channel[s] => STOP \in channel'[s]
      BY <2>1, <1>0, <1>2, <1>8 DEF BaseInv, TypeOK, ChildRuns, ChildInitFails, Handler,
         ClientEvent, Publication, Crash, ChildInit, Block, ChannelEvent, LoopOrExit, Dies
    <3> QED BY <3>1, <3>2, <3>3
  <2>2. CASE t = s /\ (ChildInitFails(s) \/ Crash(s) \/ LoopOrExit(s))
    BY <2>2, <1>0 DEF BaseInv, TypeOK, ChildInitFails, Crash, LoopOrExit, Dies, GoTo, ChildStep
  <2>3. CASE t = s /\ (ChildInit(s) \/ Block(s) \/ ClientEvent(s))
    BY <2>3, <1>0 DEF ChildInit, Block, ClientEvent, ChildStep, Returns
  <2>4. CASE t = s /\ Handler(s)
    BY <2>4, <1>0 DEF BaseInv, TypeOK, Handler
  <2>5. CASE t = s /\ ChannelEvent(s)
    BY <2>5, <1>0 DEF BaseInv, TypeOK, ChannelEvent, ChildStep, Returns
  <2>6. CASE t = s /\ Publication(s)
    BY <2>6, <1>0, <1>2 DEF Publication, ChildStep, Returns
  <2> QED BY <2>1, <2>2, <2>3, <2>4, <2>5, <2>6, <1>8 DEF ChildRuns
<1>9. CASE UNCHANGED vars
  BY <1>9 DEF vars, childVars
<1> QED BY <1>3, <1>4, <1>5, <1>6, <1>7, <1>8, <1>9 DEF Next, MasterStep

(* Whoever is to be told is told: through the channel or with a signal.    *)
LEMMA TellReachesAll ==
  ASSUME BaseInv, NEW signo \in Stop, SignalWorkers(signo), pc' = pc,
         NEW s \in Told(signo) \cup (Used \ Workers)
  PROVE  StopIsUnderWay(s)'
<1>0. s \in Used /\ s \in Slot /\ pc[s] # "none"
  BY DEF Told, Workers, Used, BaseInv, TableOK
<1>1. CASE s \in Told(signo) /\ HasRoom(s)
  BY <1>0, <1>1 DEF SignalWorkers, Write, StopIsUnderWay
<1>2. CASE (s \in Told(signo) /\ ~HasRoom(s)) \/ s \in Used \ Workers
  BY <1>0, <1>2 DEF SignalWorkers, StopIsUnderWay, Alive
<1> QED BY <1>1, <1>2

LEMMA ExitingStep == BaseInv /\ ExitingMeansTold /\ [Next]_vars => ExitingMeansTold'
<1> SUFFICES ASSUME BaseInv, ExitingMeansTold, [Next]_vars,
                    NEW s \in Workers', entry'[s].exiting
             PROVE  StopIsUnderWay(s)'
  BY DEF ExitingMeansTold
<1>0. s \in Slot /\ BaseInv' /\ entry'[s].used
  BY TypeStep, TableStep DEF BaseInv, Workers, Used
<1>1. CASE s \in Used /\ entry[s].exiting /\ ~entry[s].message
  <2>1. StopIsUnderWay(s)
    BY <1>1 DEF ExitingMeansTold, Workers
  <2> QED BY <2>1, <1>1, StopIsStable
<1>2. CASE UNCHANGED entry
  BY <1>1, <1>2 DEF Workers, Used
<1>3. ASSUME NEW e \in Entry, ~e.exiting, Fork(e) PROVE entry'[s] = entry[s]
  BY <1>0, <1>3 DEF Fork, BaseInv, TypeOK
<1>4. CASE SpawnWorker \/ SpawnMessageProcess
  <2>1. PICK e \in Entry : ~e.exiting /\ Fork(e)
    BY <1>4 DEF SpawnWorker, SpawnMessageProcess, Free, Entry
  <2>2. entry'[s] = entry[s]
    BY <2>1, <1>3
  <2> QED BY <2>2, <1>1 DEF Workers, Used
<1>5. CASE Wake
  <2>1. CASE Reap
    BY <2>1, <1>0, <1>1, ReapEntry DEF BaseInv, TypeOK, Entry, Workers, Used
  <2> QED BY <2>1, <1>2, <1>5 DEF Wake
<1>6. CASE MasterTerminate \/ MasterQuit
  <2>1. PICK signo \in Stop : SignalWorkers(signo)
    BY <1>6 DEF MasterTerminate, MasterQuit, Stop
  <2>2. entry'[s].used = entry[s].used /\ entry'[s].message = entry[s].message
        /\ (~entry[s].exiting => s \in Told(signo))
    BY <2>1, <1>0, SignalEntry DEF BaseInv, TypeOK, Entry
  <2>3. CASE s \in Told(signo)
    BY <2>1, <2>3, <1>6, TellReachesAll DEF MasterTerminate, MasterQuit
  <2>4. CASE s \notin Told(signo)
    BY <2>2, <2>4, <1>0, <1>1 DEF Workers, Used
  <2> QED BY <2>3, <2>4
<1>7. ASSUME NEW t \in Slot,
              \/ ChildRuns(t) \/ ChildInitFails(t) \/ Handler(t)
              \/ ClientEvent(t) \/ Publication(t) \/ Crash(t)
       PROVE  StopIsUnderWay(s)'
  BY <1>2, <1>7, ChildFrame
<1>8. CASE \/ SpawnWorkerNoChannel \/ SpawnWorkerNoFork \/ SpawnMessageProcessFails
           \/ MasterExit \/ WakeForNothing \/ (\E signo \in Stop : UserSignal(signo))
           \/ UNCHANGED vars
  BY <1>2, <1>8 DEF SpawnWorkerNoChannel, SpawnWorkerNoFork, SpawnMessageProcessFails,
     MasterExit, WakeForNothing, UserSignal, vars, masterVars
<1> QED BY <1>4, <1>5, <1>6, <1>7, <1>8 DEF Next, MasterStep

(* The mark "exiting" is never set without the order being on its way, and *)
(* the order is never lost before the worker exits.                        *)
THEOREM MarkedWorkersAreTold == Spec => []ExitingMeansTold
<1>1. Init => ExitingMeansTold
  BY DEF Init, ExitingMeansTold, Workers, Used, Free
<1> QED BY <1>1, ExitingStep, BaseCorrect, PTL DEF Spec
-------------------------------------------------------------------------------
(* The master's exit.                                                      *)

(* Behind the test of ngx_terminate everybody has been told; the loop goes *)
(* to sleep with SIGTERM seen only if SIGQUIT keeps it from the exit.      *)
LeaveInv ==
  /\ mpc = "exited" \/ (mpc = "quit" /\ "QUIT" \notin raised)
       => \A s \in Used : StopIsUnderWay(s)
  /\ mpc = "suspend" /\ "QUIT" \notin raised => raised = {}
  /\ mpc = "start" => raised = {}

LEMMA LeaveStep == BaseInv /\ LeaveInv /\ [Next]_vars => LeaveInv'
<1> SUFFICES ASSUME BaseInv, LeaveInv, [Next]_vars PROVE LeaveInv'
  OBVIOUS
<1>1. ASSUME Used' \subseteq Used, UNCHANGED <<mpc, raised>> PROVE LeaveInv'
  BY <1>1, StopIsStable DEF LeaveInv
<1>2. CASE SpawnWorker \/ SpawnWorkerNoChannel \/ SpawnWorkerNoFork
  BY <1>2 DEF SpawnWorker, SpawnWorkerNoChannel, SpawnWorkerNoFork, LeaveInv
<1>3. CASE SpawnMessageProcess \/ SpawnMessageProcessFails
  BY <1>3 DEF SpawnMessageProcess, SpawnMessageProcessFails, LeaveInv
<1>4. CASE Wake
  BY <1>4 DEF Wake, LoopBody, LeaveInv, BaseInv, TypeOK, Stop
<1>5. CASE WakeForNothing
  BY <1>5 DEF WakeForNothing, LoopBody, LeaveInv, BaseInv, TypeOK, Stop
<1>6. CASE MasterTerminate
  <2>1. SignalWorkers("TERM") /\ "TERM" \in Stop
    BY <1>6 DEF MasterTerminate, Stop
  <2>2. Used' = Used
    BY <2>1, SignalEntry DEF Used, BaseInv, TypeOK, Entry
  <2>3. Used \subseteq Told("TERM") \cup (Used \ Workers)
    BY DEF Told
  <2>4. \A s \in Used' : StopIsUnderWay(s)'
    BY <2>1, <2>2, <2>3, <1>6, TellReachesAll DEF MasterTerminate
  <2> QED BY <2>4, <1>6 DEF MasterTerminate, LeaveInv
<1>7. CASE MasterQuit
  BY <1>7 DEF MasterQuit, LeaveInv
<1>8. CASE MasterExit
  <2>1. Used' = Used /\ \A s \in Used : StopIsUnderWay(s)
    BY <1>8 DEF MasterExit, LeaveInv, Used
  <2> QED BY <2>1, <1>8, StopIsStable DEF MasterExit, LeaveInv
<1>9. ASSUME NEW signo \in Stop, UserSignal(signo) PROVE LeaveInv'
  BY <1>1, <1>9 DEF UserSignal, Used
<1>10. ASSUME NEW t \in Slot,
              \/ ChildRuns(t) \/ ChildInitFails(t) \/ Handler(t)
              \/ ClientEvent(t) \/ Publication(t) \/ Crash(t)
       PROVE  LeaveInv'
  BY <1>1, <1>10, ChildFrame DEF Used
<1>11. CASE UNCHANGED vars
  BY <1>1, <1>11 DEF vars, masterVars, Used
<1> QED BY <1>2, <1>3, <1>4, <1>5, <1>6, <1>7, <1>8, <1>9, <1>10, <1>11
        DEF Next, MasterStep

(* The master never leaves a process behind that has not been told to      *)
(* stop, whatever failed at the start and however full the channels are.   *)
THEOREM NobodyIsLeftUntold == Spec => []MasterLeavesNobodyUntold
<1>1. Init => LeaveInv
  BY DEF Init, LeaveInv
<1>2. LeaveInv => MasterLeavesNobodyUntold
  BY DEF LeaveInv, MasterLeavesNobodyUntold
<1> QED BY <1>1, <1>2, LeaveStep, BaseCorrect, PTL DEF Spec

-------------------------------------------------------------------------------
(* Zombies.                                                                *)

LEMMA ZombieStep == BaseInv /\ NoZombieForgotten /\ [Next]_vars => NoZombieForgotten'
<1> SUFFICES ASSUME BaseInv, NoZombieForgotten, [Next]_vars,
                    mpc' # "exited", "CHLD" \notin msig', NEW s \in Slot, Zombie(s)'
             PROVE  FALSE
  BY DEF NoZombieForgotten
<1>1. CASE Zombie(s)
  <2>1. mpc # "exited" => "CHLD" \in msig
    BY <1>1 DEF NoZombieForgotten
  <2>2. CASE Wake
    BY <2>1, <2>2, <1>1, ReapEntry DEF Wake, Zombie, BaseInv, TypeOK, Entry
  <2>3. CASE \E t \in Slot : \/ ChildRuns(t) \/ ChildInitFails(t) \/ Handler(t)
                             \/ ClientEvent(t) \/ Publication(t) \/ Crash(t)
    BY <2>1, <2>3 DEF ChildRuns, ChildInitFails, Handler, ClientEvent, Publication, Crash,
       ChildInit, Block, ChannelEvent, LoopOrExit, ChildStep, Returns, Dies, masterVars
  <2>4. CASE ~Wake /\ ~\E t \in Slot : \/ ChildRuns(t) \/ ChildInitFails(t) \/ Handler(t)
                                       \/ ClientEvent(t) \/ Publication(t) \/ Crash(t)
    BY <2>1, <2>4 DEF Next, MasterStep, SpawnWorker, SpawnWorkerNoChannel, SpawnWorkerNoFork,
       SpawnMessageProcess, SpawnMessageProcessFails, MasterTerminate, MasterQuit, MasterExit,
       WakeForNothing, UserSignal, vars, masterVars
  <2> QED BY <2>2, <2>3, <2>4
<1>2. CASE ~Zombie(s)
  <2>1. CASE UNCHANGED <<pc, entry>>
    BY <2>1, <1>2 DEF Zombie
  <2>2. ASSUME NEW e \in Entry, Fork(e) PROVE FALSE
    <3>1. s = last => pc'[s] = "init"
      BY <2>2 DEF Fork, BaseInv, TypeOK
    <3>2. s # last => pc'[s] = pc[s] /\ entry'[s] = entry[s]
      BY <2>2 DEF Fork, BaseInv, TypeOK
    <3> QED BY <3>1, <3>2, <1>2 DEF Zombie
  <2>3. CASE SpawnWorker \/ SpawnMessageProcess
    BY <2>2, <2>3 DEF SpawnWorker, SpawnMessageProcess, Free, Entry
  <2>4. CASE Wake
    BY <2>1, <2>4, <1>2, ReapEntry DEF Wake, Zombie, BaseInv, TypeOK, Entry, childVars
  <2>5. CASE MasterTerminate \/ MasterQuit
    <3>1. PICK signo \in Stop : SignalWorkers(signo)
      BY <2>5 DEF MasterTerminate, MasterQuit, Stop
    <3>2. entry'[s].exited = entry[s].exited
      BY <3>1, SignalEntry DEF BaseInv, TypeOK, Entry
    <3> QED BY <3>2, <2>5, <1>2 DEF MasterTerminate, MasterQuit, Zombie
  <2>6. ASSUME NEW t \in Slot,
               \/ ChildRuns(t) \/ ChildInitFails(t) \/ Handler(t)
               \/ ClientEvent(t) \/ Publication(t) \/ Crash(t)
        PROVE  FALSE
    <3>1. CASE t # s
      BY <3>1, <2>6, <1>2, ChildFrame DEF Zombie, BaseInv, TypeOK
    <3>2. CASE t = s /\ pc'[s] = "exited"
      BY <3>2, <2>6 DEF BaseInv, TypeOK, ChildRuns, ChildInitFails, Handler, ClientEvent,
         Publication, Crash, ChildInit, Block, ChannelEvent, LoopOrExit, ChildStep, Returns,
         Dies, GoTo, Alive
    <3>3. CASE t = s /\ pc'[s] # "exited"
      BY <3>3 DEF Zombie
    <3> QED BY <3>1, <3>2, <3>3
  <2>7. CASE \/ SpawnWorkerNoChannel \/ SpawnWorkerNoFork \/ SpawnMessageProcessFails
             \/ MasterExit \/ WakeForNothing \/ (\E signo \in Stop : UserSignal(signo))
             \/ UNCHANGED vars
    BY <2>1, <2>7 DEF SpawnWorkerNoChannel, SpawnWorkerNoFork, SpawnMessageProcessFails,
       MasterExit, WakeForNothing, UserSignal, vars, masterVars, childVars
  <2> QED BY <2>3, <2>4, <2>5, <2>6, <2>7 DEF Next, MasterStep
<1> QED BY <1>1, <1>2

(* Although SIGCHLD coalesces, no exited child is ever left uncollected    *)
(* without another SIGCHLD pending.                                        *)
THEOREM ZombiesAreCollected == Spec => []NoZombieForgotten
<1>1. Init => NoZombieForgotten
  BY DEF Init, NoZombieForgotten, Zombie
<1> QED BY <1>1, ZombieStep, BaseCorrect, PTL DEF Spec
-------------------------------------------------------------------------------
(* The mesh of channels.                                                   *)

(* While the master starts workers, a channel holds no more commands than  *)
(* attempts were made after its worker's own.                              *)
RoomInv ==
  mpc = "start" => \A s \in Slot : IF entry[s].used THEN held[s] < started ELSE held[s] = 0

LEMMA WriteGrows ==
  ASSUME BaseInv, NEW S, NEW cmds, Write(S, cmds)
  PROVE  /\ \A s \in Slot : held'[s] = held[s] \/ (s \in S /\ held'[s] = held[s] + 1)
         /\ \A s \in Slot : channel[s] \subseteq channel'[s]
         /\ \A s \in Slot : s \in S /\ HasRoom(s) => cmds \subseteq channel'[s]
  BY DEF BaseInv, TypeOK, Write

LEMMA RoomStep == BaseInv /\ RoomInv /\ [Next]_vars => RoomInv'
<1> SUFFICES ASSUME BaseInv, RoomInv, [Next]_vars, mpc' = "start"
             PROVE  \A s \in Slot : IF entry'[s].used THEN held'[s] < started'
                                                      ELSE held'[s] = 0
  BY DEF RoomInv
<1>0. /\ held \in [Slot -> Int] /\ started \in Nat
      /\ \A s \in Slot : held[s] >= 0
  BY ProcessAssumption DEF BaseInv, TypeOK
<1>1. CASE mpc = "start" /\ UNCHANGED <<entry, started, held>>
  BY <1>1 DEF RoomInv
<1>2. CASE SpawnWorker
  <2>1. Write(Used \ {last}, {Open(last)}) /\ mpc = "start" /\ started' = started + 1
        /\ Fork([Free EXCEPT !.used = TRUE])
    BY <1>2 DEF SpawnWorker, PassOpenChannel
  <2>2. ASSUME NEW s \in Slot, s = last PROVE held'[s] < started'
    BY <2>1, <2>2, <1>0, WriteGrows DEF RoomInv, BaseInv, TableOK, Free
  <2>3. ASSUME NEW s \in Slot, s # last
        PROVE  IF entry'[s].used THEN held'[s] < started' ELSE held'[s] = 0
    <3>1. entry'[s] = entry[s]
      BY <2>1, <2>3 DEF Fork, BaseInv, TypeOK
    <3>2. s \in Used <=> entry[s].used
      BY DEF Used
    <3> QED BY <2>1, <3>1, <3>2, <1>0, WriteGrows DEF RoomInv
  <2>4. \A s \in Slot : s = last => entry'[s].used
    BY <2>1 DEF Fork, Free, BaseInv, TypeOK
  <2> QED BY <2>2, <2>3, <2>4
<1>3. CASE SpawnWorkerNoChannel
  <2>1. Write(Used \ {slot}, {Open(slot)}) /\ mpc = "start" /\ started' = started + 1
        /\ entry' = entry
    BY <1>3 DEF SpawnWorkerNoChannel, PassOpenChannel
  <2>2. \A s \in Slot : s \in Used <=> entry[s].used
    BY DEF Used
  <2> QED BY <2>1, <2>2, <1>0, WriteGrows DEF RoomInv
<1>4. CASE SpawnWorkerNoFork
  BY <1>4, <1>0 DEF SpawnWorkerNoFork, childVars, RoomInv
<1>5. ASSUME NEW t \in Slot,
              \/ ChildRuns(t) \/ ChildInitFails(t) \/ Handler(t)
              \/ ClientEvent(t) \/ Publication(t) \/ Crash(t)
       PROVE  \A s \in Slot : IF entry'[s].used THEN held'[s] < started' ELSE held'[s] = 0
  <2>1. mpc = "start" /\ UNCHANGED <<entry, started>>
    BY <1>5, ChildFrame
  <2>2. ~Publication(t)
    BY <2>1 DEF Publication, Workers, Used, BaseInv, TableOK
  <2>3. \A s \in Slot : held'[s] = held[s] \/ (held'[s] = 0 /\ s \in Workers)
    BY <1>5, <2>2 DEF BaseInv, TypeOK, ChildRuns, ChildInitFails, Handler, ClientEvent,
       Crash, ChildInit, Block, ChannelEvent, LoopOrExit, Dies
  <2>4. \A s \in Slot : entry[s].used => 0 < started
    BY <2>1, <1>0 DEF RoomInv
  <2> QED BY <2>1, <2>3, <2>4 DEF RoomInv, Workers, Used
<1>6. CASE (\E signo \in Stop : UserSignal(signo)) \/ UNCHANGED vars
  BY <1>1, <1>6 DEF UserSignal, vars, masterVars, childVars
<1>7. CASE \/ SpawnMessageProcess \/ SpawnMessageProcessFails \/ Wake \/ MasterTerminate
           \/ MasterQuit \/ MasterExit \/ WakeForNothing
  BY <1>7 DEF SpawnMessageProcess, SpawnMessageProcessFails, Wake, MasterTerminate,
     MasterQuit, MasterExit, WakeForNothing, LoopBody
<1> QED BY <1>2, <1>3, <1>4, <1>5, <1>6, <1>7 DEF Next, MasterStep

LEMMA MeshStep ==
  ASSUME ChannelCap >= W - 1
  PROVE  BaseInv /\ RoomInv /\ MeshIsComplete /\ [Next]_vars => MeshIsComplete'
<1> SUFFICES ASSUME BaseInv, RoomInv, MeshIsComplete, [Next]_vars,
                    NEW s \in Workers', NEW t \in Workers', s # t, Alive(s)'
             PROVE  t \in known'[s] \/ Open(t) \in channel'[s]
  BY DEF MeshIsComplete, Alive, Open
<1>0. s \in Slot /\ t \in Slot
  BY DEF Workers, Used
<1>1. CASE /\ s \in Workers /\ t \in Workers /\ Alive(s)
           /\ known[s] \subseteq known'[s] /\ channel[s] \subseteq channel'[s]
  BY <1>1 DEF MeshIsComplete
<1>2. CASE SpawnWorker
  <2>1. /\ Fork([Free EXCEPT !.used = TRUE]) /\ Write(Used \ {last}, {Open(last)})
        /\ mpc = "start" /\ started < W
    BY <1>2 DEF SpawnWorker, PassOpenChannel
  <2>2. ASSUME NEW r \in Slot, r # last
        PROVE  entry'[r] = entry[r] /\ pc'[r] = pc[r] /\ known'[r] = known[r]
    BY <2>1, <2>2 DEF Fork, BaseInv, TypeOK
  <2>3. CASE s # last /\ t # last
    BY <2>1, <2>2, <2>3, <1>0, <1>1, WriteGrows DEF Workers, Used, Alive
  <2>4. CASE s = last
    <3>1. t \in Workers /\ known'[s] = Workers
      BY <2>1, <2>2, <2>4, <1>0 DEF Fork, BaseInv, TypeOK, Workers, Used
    <3> QED BY <3>1
  <2>5. CASE t = last /\ s # last
    <3>1. s \in Used \ {last} /\ entry[s].used
      BY <2>2, <2>5, <1>0 DEF Workers, Used
    <3>2. HasRoom(s)
      BY <3>1, <2>1, <1>0, ProcessAssumption DEF RoomInv, HasRoom, BaseInv, TypeOK
    <3> QED BY <3>1, <3>2, <2>1, <2>5, <1>0, WriteGrows
  <2> QED BY <2>3, <2>4, <2>5
<1>3. CASE SpawnWorkerNoChannel
  <2>1. Write(Used \ {slot}, {Open(slot)}) /\ UNCHANGED <<entry, pc, known>>
    BY <1>3 DEF SpawnWorkerNoChannel, PassOpenChannel
  <2> QED BY <2>1, <1>0, <1>1, WriteGrows DEF Workers, Used, Alive
<1>4. CASE SpawnMessageProcess
  <2>1. /\ Fork([Free EXCEPT !.used = TRUE, !.message = TRUE]) /\ channel' = channel
    BY <1>4 DEF SpawnMessageProcess
  <2>2. \A r \in Slot : r = last => entry'[r].message
    BY <2>1 DEF Fork, BaseInv, TypeOK, Free
  <2>3. s # last /\ t # last
    BY <2>2, <1>0 DEF Workers, Used
  <2>4. ASSUME NEW r \in Slot, r # last
        PROVE  entry'[r] = entry[r] /\ pc'[r] = pc[r] /\ known'[r] = known[r]
    BY <2>1, <2>4 DEF Fork, BaseInv, TypeOK
  <2> QED BY <2>1, <2>3, <2>4, <1>0, <1>1 DEF Workers, Used, Alive
<1>5. CASE Wake
  <2>1. \A r \in Slot : entry'[r].used = entry[r].used /\ entry'[r].message = entry[r].message
    BY <1>5, ReapEntry DEF Wake, BaseInv, TypeOK, Entry
  <2> QED BY <2>1, <1>0, <1>1, <1>5 DEF Wake, childVars, Workers, Used, Alive
<1>6. CASE MasterTerminate \/ MasterQuit
  <2>1. PICK signo \in Stop : SignalWorkers(signo)
    BY <1>6 DEF MasterTerminate, MasterQuit, Stop
  <2>2. \A r \in Slot : entry'[r].used = entry[r].used /\ entry'[r].message = entry[r].message
    BY <2>1, SignalEntry DEF BaseInv, TypeOK, Entry
  <2>3. channel[s] \subseteq channel'[s]
    BY <2>1, <1>0, WriteGrows DEF SignalWorkers
  <2> QED BY <2>2, <2>3, <1>0, <1>1, <1>6 DEF MasterTerminate, MasterQuit, Workers, Used, Alive
<1>7. ASSUME NEW u \in Slot,
              \/ ChildRuns(u) \/ ChildInitFails(u) \/ Handler(u)
              \/ ClientEvent(u) \/ Publication(u) \/ Crash(u)
       PROVE  t \in known'[s] \/ Open(t) \in channel'[s]
  <2>1. s \in Workers /\ t \in Workers
    BY <1>7, ChildFrame DEF Workers, Used
  <2>2. Alive(s)
    BY <1>0, <1>7, ChildFrame DEF Alive, BaseInv, TypeOK
  <2>3. CASE ChannelEvent(u) /\ u = s
    BY <2>1, <2>2, <2>3, <1>0 DEF ChannelEvent, MeshIsComplete, BaseInv, TypeOK
  <2>4. CASE Publication(u)
    BY <2>1, <2>2, <2>4, <1>0, <1>1, WriteGrows DEF Publication
  <2>5. CASE Dies(u)
    BY <2>1, <2>2, <2>5, <1>0, <1>1 DEF Dies, GoTo, Alive, BaseInv, TypeOK
  <2>6. CASE ~(ChannelEvent(u) /\ u = s) /\ ~Publication(u) /\ ~Dies(u)
    <3>1. known'[s] = known[s] /\ channel'[s] = channel[s]
      BY <1>0, <1>7, <2>6 DEF BaseInv, TypeOK, ChildRuns, ChildInitFails, Handler, ClientEvent,
         Crash, ChildInit, Block, ChannelEvent, LoopOrExit
    <3> QED BY <3>1, <2>1, <2>2, <1>1
  <2> QED BY <2>3, <2>4, <2>5, <2>6
<1>8. CASE \/ SpawnWorkerNoFork \/ SpawnMessageProcessFails
           \/ MasterExit \/ WakeForNothing \/ (\E signo \in Stop : UserSignal(signo))
           \/ UNCHANGED vars
  BY <1>1, <1>8 DEF SpawnWorkerNoFork, SpawnMessageProcessFails,
     MasterExit, WakeForNothing, UserSignal, vars, masterVars, childVars, Workers, Used, Alive
<1> QED BY <1>2, <1>3, <1>4, <1>5, <1>6, <1>7, <1>8 DEF Next, MasterStep

(* The mesh needs no answer to the source's "TODO: NGX_AGAIN" as long as a *)
(* channel has room for one command less than there are workers: whatever  *)
(* starts fail, no OPEN_CHANNEL is lost.                                   *)
THEOREM MeshIsBuilt ==
  ASSUME ChannelCap >= W - 1
  PROVE  Spec => []MeshIsComplete
<1>1. Init => RoomInv /\ MeshIsComplete
  BY DEF Init, RoomInv, MeshIsComplete, Workers, Used, Free
<1>2. BaseInv /\ (RoomInv /\ MeshIsComplete) /\ [Next]_vars => (RoomInv /\ MeshIsComplete)'
  BY RoomStep, MeshStep
<1> QED BY <1>1, <1>2, BaseCorrect, PTL DEF Spec
===============================================================================
