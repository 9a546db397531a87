------------------------------ MODULE ProcessLife ------------------------------
(***************************************************************************)
(* The processes of the demo: a master that forks W workers and the        *)
(* websocket message process, tells them to stop through channels and      *)
(* signals, and reaps them (os/unix/ngx_process_cycle.c, ngx_process.c,    *)
(* ngx_channel.c).                                                         *)
(*                                                                         *)
(* A process is named by its slot in ngx_processes[].  Signals are blocked *)
(* in the master except inside sigsuspend(), and in a child until its init *)
(* function unblocks them; pending signals of one number coalesce.         *)
(*                                                                         *)
(* A child does the same for ngx_terminate and ngx_quit, so it has one     *)
(* flag for both.  It reads its channel until it is empty before it looks  *)
(* at anything, so a channel is the commands in it, without their order,   *)
(* and their number; a notification of a new message only counts.          *)
(***************************************************************************)
EXTENDS Integers, FiniteSets

CONSTANTS W,            \* NGX_PROCESS_NUM
          ChannelCap    \* commands a channel holds before sendmsg() says EAGAIN

ASSUME ProcessAssumption == W \in Nat \ {0} /\ ChannelCap \in Nat \ {0}

VARIABLES
  mpc,          \* master: what it does next
  started,      \* master: workers ngx_start_worker_processes has tried to start
  slot,         \* master: ngx_process_slot
  last,         \* master: ngx_last_process, the slots in use
  entry,        \* master: ngx_processes[]; "exited" is set by waitpid()
  raised,       \* master: ngx_terminate, ngx_quit
  msig,         \* master: pending signals
  pc,           \* pc[s]: what the child in slot s does next
  flag,         \* flag[s]: its own ngx_terminate || ngx_quit
  sig,          \* sig[s]: a SIGTERM or SIGQUIT is pending for it
  known,        \* known[s]: slots whose channel[0] it has
  channel,      \* channel[s]: the commands it has not read yet
  held          \* held[s]: how many, notifications included

masterVars == <<mpc, started, slot, last, entry, raised, msig>>
childVars  == <<pc, flag, sig, known, channel, held>>
vars == <<masterVars, childVars>>

Slot    == 0 .. W
Stop    == {"TERM", "QUIT"}
Free    == [used |-> FALSE, message |-> FALSE, exiting |-> FALSE, exited |-> FALSE]
Open(s) == [cmd |-> "OPEN", slot |-> s]
STOP    == [cmd |-> "STOP", slot |-> 0]
Command == {Open(s) : s \in Slot} \cup {STOP}

Used      == {s \in Slot : entry[s].used}
Workers   == {s \in Used : ~entry[s].message}
Alive(s)  == pc[s] \notin {"none", "exited"}
Zombie(s) == pc[s] = "exited" /\ ~entry[s].exited

Init ==
  /\ mpc = "start" /\ started = 0 /\ slot = 0 /\ last = 0
  /\ entry = [s \in Slot |-> Free]
  /\ raised = {} /\ msig = {}
  /\ pc = [s \in Slot |-> "none"]
  /\ flag = [s \in Slot |-> FALSE]
  /\ sig = [s \in Slot |-> FALSE]
  /\ known = [s \in Slot |-> {}]
  /\ channel = [s \in Slot |-> {}]
  /\ held = [s \in Slot |-> 0]

-------------------------------------------------------------------------------
(* Channels.                                                               *)

(* Mutant: a channel that never says EAGAIN.                               *)
HasRoom_Always(s) == TRUE

HasRoom(s) == held[s] < ChannelCap

(* ngx_write_channel to every slot of S: EAGAIN leaves a full one as it is.*)
Write(S, cmds) ==
  LET to == {s \in S : HasRoom(s)}
  IN /\ channel' = [s \in Slot |-> IF s \in to THEN channel[s] \cup cmds ELSE channel[s]]
     /\ held' = [s \in Slot |-> IF s \in to THEN held[s] + 1 ELSE held[s]]

-------------------------------------------------------------------------------
(* Starting.                                                               *)

(* Mutant: nobody is told of the channel.                                  *)
PassOpenChannel_Nobody(k) == Write({}, {Open(k)})

(* ngx_pass_open_channel: the slot k goes to every other process.          *)
PassOpenChannel(k) == Write(Used \ {k}, {Open(k)})

(* fork() succeeds: the child has a copy of the table, its own entry not   *)
(* in it yet, and the master's blocked signals.                            *)
Fork(e) ==
  /\ slot' = last
  /\ last' = last + 1
  /\ entry' = [entry EXCEPT ![last] = e]
  /\ pc' = [pc EXCEPT ![last] = "init"]
  /\ known' = [known EXCEPT ![last] = Workers]

SpawnWorker ==
  /\ mpc = "start" /\ started < W
  /\ started' = started + 1
  /\ Fork([Free EXCEPT !.used = TRUE])
  /\ PassOpenChannel(last)
  /\ UNCHANGED <<mpc, raised, msig, flag, sig>>

(* socketpair() fails: ngx_process_slot still names the last process       *)
(* started, and its channel is passed once more.                           *)
SpawnWorkerNoChannel ==
  /\ mpc = "start" /\ started < W
  /\ started' = started + 1
  /\ PassOpenChannel(slot)
  /\ UNCHANGED <<mpc, slot, last, entry, raised, msig, pc, flag, sig, known>>

(* fork() fails: the channel is closed again, so passing it fails too.     *)
SpawnWorkerNoFork ==
  /\ mpc = "start" /\ started < W
  /\ started' = started + 1
  /\ slot' = last
  /\ UNCHANGED <<mpc, last, entry, raised, msig, childVars>>

(* The message process: no channel, hence reached by kill() only.          *)
SpawnMessageProcess ==
  /\ mpc = "start" /\ started = W
  /\ mpc' = "suspend"
  /\ Fork([Free EXCEPT !.used = TRUE, !.message = TRUE])
  /\ UNCHANGED <<started, raised, msig, flag, sig, channel, held>>

SpawnMessageProcessFails ==
  /\ mpc = "start" /\ started = W
  /\ mpc' = "suspend"
  /\ slot' = last
  /\ UNCHANGED <<started, last, entry, raised, msig, childVars>>

-------------------------------------------------------------------------------
(* The master's loop.                                                      *)

(* Mutant: one child is collected per SIGCHLD.                             *)
Reap_One ==
  LET first == {s \in Used : Zombie(s) /\ \A t \in Used : Zombie(t) => s <= t}
  IN entry' = [s \in Slot |-> IF s \in first THEN [entry[s] EXCEPT !.exited = TRUE]
                              ELSE entry[s]]

(* ngx_process_get_status: collect every child that has exited.            *)
Reap == entry' = [s \in Slot |-> IF Zombie(s) THEN [entry[s] EXCEPT !.exited = TRUE]
                                 ELSE entry[s]]

(* Where the loop body begins with these flags raised.                     *)
LoopBody(flags) == IF "TERM" \in flags THEN "terminate"
                   ELSE IF "QUIT" \in flags THEN "quit" ELSE "suspend"

(* sigsuspend() lets the handlers run for all that is pending.             *)
Wake ==
  /\ mpc = "suspend" /\ msig # {}
  /\ raised' = raised \cup (msig \cap Stop)
  /\ IF "CHLD" \in msig THEN Reap ELSE UNCHANGED entry
  /\ msig' = {}
  /\ mpc' = LoopBody(raised')
  /\ UNCHANGED <<started, slot, last, childVars>>

(* SIGIO of a channel, or any other signal that sets a flag nobody reads:  *)
(* the loop runs once more.                                                *)
WakeForNothing ==
  /\ mpc = "suspend" /\ msig = {} /\ raised # {}
  /\ mpc' = LoopBody(raised)
  /\ UNCHANGED <<started, slot, last, entry, raised, msig, childVars>>

Told(signo) == {s \in Workers : ~(entry[s].exiting /\ signo = "QUIT")}

(* Mutant: a full channel is taken for a command sent.                     *)
SignalWorkers_NoKill(signo) ==
  LET killed == Used \ Workers
  IN /\ Write(Told(signo), {STOP})
     /\ sig' = [s \in Slot |-> sig[s] \/ (s \in killed /\ Alive(s))]
     /\ entry' = [s \in Slot |->
                    IF s \in Told(signo) THEN [entry[s] EXCEPT !.exiting = TRUE]
                    ELSE IF s \in killed /\ entry[s].exited
                    THEN [entry[s] EXCEPT !.exiting = FALSE]
                    ELSE entry[s]]

(* ngx_signal_worker_processes: a command through the channel, kill() when *)
(* that fails and for the message process.  kill() of a zombie succeeds,   *)
(* of a process already collected it says ESRCH.                           *)
SignalWorkers(signo) ==
  LET killed == {s \in Told(signo) : ~HasRoom(s)} \cup (Used \ Workers)
      gone   == {s \in killed : entry[s].exited}
  IN /\ Write(Told(signo), {STOP})
     /\ sig' = [s \in Slot |-> sig[s] \/ (s \in killed /\ Alive(s))]
     /\ entry' = [s \in Slot |->
                    IF s \in gone THEN [entry[s] EXCEPT !.exiting = FALSE]
                    ELSE IF s \in Told(signo) THEN [entry[s] EXCEPT !.exiting = TRUE]
                    ELSE entry[s]]

MasterTerminate ==
  /\ mpc = "terminate"
  /\ mpc' = "quit"
  /\ SignalWorkers("TERM")
  /\ UNCHANGED <<started, slot, last, raised, msig, pc, flag, known>>

(* ngx_quit closes the listening sockets and goes back to sigsuspend(),    *)
(* before the test that would exit.                                        *)
MasterQuit ==
  /\ mpc = "quit" /\ "QUIT" \in raised
  /\ SignalWorkers("QUIT")
  /\ mpc' = "suspend"
  /\ UNCHANGED <<started, slot, last, raised, msig, pc, flag, known>>

(* Mutant: the master leaves as soon as it has been told to.               *)
MasterExit_First ==
  /\ mpc \in {"terminate", "quit"}
  /\ mpc' = "exited"
  /\ UNCHANGED <<started, slot, last, entry, raised, msig, childVars>>

(* "live" is always 0: the master does not wait for its children.          *)
MasterExit ==
  /\ mpc = "quit" /\ "QUIT" \notin raised
  /\ mpc' = "exited"
  /\ UNCHANGED <<started, slot, last, entry, raised, msig, childVars>>

(* A user, or the -s command line, signals the master.  Once the flag is   *)
(* set another one only wakes it.                                          *)
UserSignal(signo) ==
  /\ mpc # "exited" /\ signo \notin raised
  /\ msig' = msig \cup {signo}
  /\ UNCHANGED <<mpc, started, slot, last, entry, raised, childVars>>

-------------------------------------------------------------------------------
(* A child.                                                                *)

GoTo(s, label) == pc' = [pc EXCEPT ![s] = label]

ChildStep(s, from) ==
  /\ pc[s] = from
  /\ UNCHANGED <<mpc, started, slot, last, entry, raised>>

(* The blocking call returns with an event.                                *)
Returns(s) == ChildStep(s, "blocked") /\ ~sig[s]

(* Its memory and its pending signals go; the master keeps both ends of    *)
(* the channel open, so commands can still be written to it.               *)
Dies(s) ==
  /\ GoTo(s, "exited")
  /\ flag' = [flag EXCEPT ![s] = FALSE]
  /\ sig' = [sig EXCEPT ![s] = FALSE]
  /\ known' = [known EXCEPT ![s] = {}]
  /\ msig' = IF mpc = "exited" THEN msig ELSE msig \cup {"CHLD"}
  /\ UNCHANGED <<channel, held>>

(* The init function clears the signal mask.                               *)
ChildInit(s) ==
  /\ ChildStep(s, "init")
  /\ GoTo(s, "enter")
  /\ UNCHANGED <<msig, flag, sig, known, channel, held>>

(* It cannot add its channel, or cannot reach redis: exit(2).              *)
ChildInitFails(s) == ChildStep(s, "init") /\ Dies(s)

(* The signal handler: a flag, and the blocking call returns EINTR.  The   *)
(* kernel runs it before a system call of the child returns: no call below *)
(* comes back with a signal pending.                                       *)
Handler(s) ==
  /\ pc[s] \in {"enter", "blocked", "check"} /\ sig[s]
  /\ flag' = [flag EXCEPT ![s] = TRUE]
  /\ sig' = [sig EXCEPT ![s] = FALSE]
  /\ GoTo(s, IF pc[s] = "blocked" THEN "check" ELSE pc[s])
  /\ UNCHANGED <<masterVars, known, channel, held>>

(* Into epoll_wait() without a timeout, or recv() from redis.  A flag set  *)
(* since the test is not looked at again.                                  *)
Block(s) ==
  /\ ChildStep(s, "enter")
  /\ GoTo(s, "blocked")
  /\ UNCHANGED <<msig, flag, sig, known, channel, held>>

(* ngx_channel_handler reads until the channel is empty.                   *)
ChannelEvent(s) ==
  /\ Returns(s) /\ s \in Workers /\ held[s] > 0
  /\ flag' = [flag EXCEPT ![s] = @ \/ STOP \in channel[s]]
  /\ known' = [known EXCEPT ![s] = @ \cup {k \in Slot : Open(k) \in channel[s]}]
  /\ channel' = [channel EXCEPT ![s] = {}]
  /\ held' = [held EXCEPT ![s] = 0]
  /\ GoTo(s, "check")
  /\ UNCHANGED <<msig, sig>>

(* A client of a worker.                                                   *)
ClientEvent(s) ==
  /\ Returns(s) /\ s \in Workers /\ held[s] = 0
  /\ GoTo(s, "check")
  /\ UNCHANGED <<msig, flag, sig, known, channel, held>>

(* Mutant: on to the next message without a look at the flags.             *)
Publication_Again(s) ==
  /\ Returns(s) /\ s \in Used \ Workers
  /\ Write(known[s], {})
  /\ GoTo(s, "enter")
  /\ UNCHANGED <<msig, flag, sig, known>>

(* Redis delivers a message: the message process notifies the workers its  *)
(* copy of the table knows.                                                *)
Publication(s) ==
  /\ Returns(s) /\ s \in Used \ Workers
  /\ Write(known[s], {})
  /\ GoTo(s, "check")
  /\ UNCHANGED <<msig, flag, sig, known>>

(* The end of the loop: ngx_terminate or ngx_quit end the process.         *)
LoopOrExit(s) ==
  /\ ChildStep(s, "check")
  /\ IF flag[s] THEN Dies(s)
     ELSE GoTo(s, "enter") /\ UNCHANGED <<msig, flag, sig, known, channel, held>>

(* Killed by a signal it does not handle, at any time.                     *)
Crash(s) ==
  /\ Alive(s)
  /\ Dies(s)
  /\ UNCHANGED <<mpc, started, slot, last, entry, raised>>

MasterStep == \/ SpawnWorker \/ SpawnWorkerNoChannel \/ SpawnWorkerNoFork
              \/ SpawnMessageProcess \/ SpawnMessageProcessFails
              \/ Wake \/ MasterTerminate \/ MasterQuit \/ MasterExit

(* What a child does without a signal, a client, redis or a crash.         *)
ChildRuns(s) == ChildInit(s) \/ Block(s) \/ ChannelEvent(s) \/ LoopOrExit(s)

Next == \/ MasterStep \/ WakeForNothing
        \/ \E signo \in Stop : UserSignal(signo)
        \/ \E s \in Slot : \/ ChildRuns(s) \/ ChildInitFails(s) \/ Handler(s)
                           \/ ClientEvent(s) \/ Publication(s) \/ Crash(s)

(* Every process that is not blocked runs on, between two signals too, and *)
(* a pending signal that is not blocked is handled.  Users, clients, redis *)
(* and crashes owe nothing.                                                *)
Fairness == /\ WF_vars(MasterStep)
            /\ \A s \in Slot : WF_vars(ChildRuns(s)) /\ WF_vars(Handler(s))

Spec == Init /\ [][Next]_vars /\ Fairness

-------------------------------------------------------------------------------
(* Properties.                                                             *)

(* The types of the process table, the flags and the channels; a channel   *)
(* never holds more than it has room for.                                  *)
TypeOK ==
  /\ mpc \in {"start", "suspend", "terminate", "quit", "exited"}
  /\ started \in 0 .. W /\ slot \in 0 .. W /\ last \in 0 .. W + 1
  /\ entry \in [Slot -> [used : BOOLEAN, message : BOOLEAN, exiting : BOOLEAN,
                         exited : BOOLEAN]]
  /\ raised \subseteq Stop
  /\ msig \subseteq Stop \cup {"CHLD"}
  /\ pc \in [Slot -> {"none", "init", "enter", "blocked", "check", "exited"}]
  /\ flag \in [Slot -> BOOLEAN] /\ sig \in [Slot -> BOOLEAN]
  /\ known \in [Slot -> SUBSET Slot]
  /\ channel \in [Slot -> SUBSET Command]
  /\ held \in [Slot -> 0 .. ChannelCap]

(* Inherited at fork() or passed afterwards, and whatever start failed in  *)
(* between: every worker has, or will read, the channel of every other.    *)
(* It takes room for the W - 1 commands a worker can be sent meanwhile.    *)
MeshIsComplete ==
  \A s, t \in Workers : s # t /\ Alive(s) => t \in known[s] \/ Open(t) \in channel[s]

(* An entry marked "exiting" is not a wish: the order to stop is in the    *)
(* worker's channel, among its signals or in its flags, or it has left.    *)
StopIsUnderWay(s) == pc[s] = "exited" \/ flag[s] \/ sig[s] \/ STOP \in channel[s]

(* The mark keeps ngx_signal_worker_processes from repeating the order, so *)
(* a mark without the order would leave the worker running for good.       *)
ExitingMeansTold == \A s \in Workers : entry[s].exiting => StopIsUnderWay(s)

(* The master does not wait for anybody, but it does not leave before      *)
(* every process it has started, the message process too, has been told.   *)
MasterLeavesNobodyUntold == mpc = "exited" => \A s \in Used : StopIsUnderWay(s)

(* Signals coalesce: while the master sleeps without a pending SIGCHLD,    *)
(* there is no exited child ngx_process_get_status has not collected.      *)
NoZombieForgotten ==
  mpc # "exited" /\ "CHLD" \notin msig => \A s \in Slot : ~Zombie(s)

(* A worker marked "exiting" exits, also when its channel was full, and    *)
(* also when the signal reached it between the test and epoll_wait().      *)
ToldWorkersExit ==
  \A s \in Slot : (entry[s].exiting ~> (pc[s] = "exited"))

(* The message process has no channel, so a signal that arrives between    *)
(* its test and recv() waits for redis: as long as messages keep coming,   *)
(* it exits once the master is gone.                                       *)
MessageProcessExitsWithTraffic ==
  \A s \in Slot : WF_vars(Publication(s)) =>
    ((mpc = "exited" /\ entry[s].message) ~> (pc[s] = "exited"))

(* The signal is called "quit" and the master logs "shutting down" for it: *)
(* it goes away.                                                           *)
QuitEndsMaster == ("QUIT" \in raised) ~> (mpc = "exited")
===============================================================================
