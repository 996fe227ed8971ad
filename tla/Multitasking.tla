---------------------------- MODULE Multitasking ----------------------------
(***************************************************************************)
(* The process table and the round-robin scheduler of the LemonOS kernel   *)
(* (src/multitasking/multitasking.c, multitasking.asm), with the callers   *)
(* that drive it: the boot sequence of main.c, the daemons that pause      *)
(* themselves when they are idle (input.c, net.c), the event broadcast,    *)
(* programs that start, fork, exit and fault, and the timer interrupt.     *)
(*                                                                         *)
(* There is one CPU.  It runs the code of current_process; a step of that  *)
(* code may be cut by the timer wherever interrupts are enabled (intr).    *)
(* A process is identified with its control block: blocks are never reused *)
(* here, so that a pointer to a freed block stays recognisable.            *)
(***************************************************************************)
EXTENDS Integers, FiniteSets, SequencesExt

CONSTANTS
  Proc,        \* the addresses process control blocks are allocated at
  Init0,       \* the block of the "init" process
  None,        \* the NULL pointer
  BootScript,  \* the processes main() creates, in order
  Signals      \* the signals kill() is called with, beside kill(-1, 9)

Kinds == {"init", "dispatchd", "netd", "videod", "zombie", "program", "fork"}

ASSUME Init0InProc == Init0 \in Proc
ASSUME NoneNotProc == None \notin Proc
ASSUME BootScriptKinds ==
  BootScript \in Seq({"dispatchd", "netd", "videod", "zombie"})
ASSUME SignalsNat == Signals \subseteq Nat

VARIABLES
  procs,            \* the linked list of processes, in list order
  proc_step,        \* the process of the list node proc_step points to
  proc_count,
  pid_top,
  current_process,
  active_process,
  pcb,              \* process control blocks
  th,               \* where the code of each process stands
  daemon,           \* the pointers dispatchd and netd
  boot,             \* entries of BootScript main() has created
  intr,             \* the CPU's interrupt flag
  mode              \* "up", "panic", or "hung" (get_next_step never returns)

sched == <<procs, proc_step, proc_count, current_process, active_process>>
vars == <<sched, pid_top, pcb, th, daemon, boot, intr, mode>>

Daemons == {"dispatchd", "netd"}

\* pcb[p].intr is the interrupt flag the process resumes with: it lies on its
\* stack (pushf of yield, or the interrupt frame); process_thumb does sti.
Pcbs == [mem : {"unused", "allocated", "freed"}, kind : Kinds, pid : Nat,
         killed : BOOLEAN, system : BOOLEAN, kill : {"default", "force_alive"},
         active : Proc, intr : BOOLEAN]

\* home: what the process returns to when it is done creating another one.
\* child: the block it is creating; node: the list node it delivers to;
\* me: the active process it saved; iret: the flag a system call returns with.
Threads == [pc : {"run", "syscall", "enabled", "sending", "handler", "idle", "stale",
                  "alloc", "append", "start", "config", "resume"},
            home : {"run", "syscall", "handler"},
            child : Proc \union {None}, node : Proc \union {None}, me : Proc,
            iret : BOOLEAN]

\* Definitions named Faulty... are variants with a plausible bug in them; each is
\* there to show that some property below fails when it replaces the definition
\* it precedes.  Here: alloc_process forgets to set active_process.
FaultyFreshPcb(p, k, n) ==
  [mem |-> "allocated", kind |-> k, pid |-> n, killed |-> TRUE,
   system |-> FALSE, kill |-> "default", active |-> None, intr |-> TRUE]

\* alloc_process: the control block as it is handed to the caller.
FreshPcb(p, k, n) ==
  [mem |-> "allocated", kind |-> k, pid |-> n, killed |-> TRUE,
   system |-> FALSE, kill |-> "default", active |-> p, intr |-> TRUE]

\* A process starts at its entry point, nothing in hand.  (A forked child first
\* walks the rest of its parent's system call, with interrupts enabled.)
FreshThread(p) ==
  [pc |-> "run", home |-> "run", child |-> None, node |-> None, me |-> p,
   iret |-> TRUE]

\* multitasking_init
Init ==
  /\ procs = <<Init0>>
  /\ proc_step = Init0
  /\ proc_count = 1
  /\ pid_top = 1
  /\ current_process = Init0
  /\ active_process = Init0
  /\ pcb = [p \in Proc |->
       IF p = Init0
       THEN [FreshPcb(p, "init", 0) EXCEPT !.killed = FALSE, !.system = TRUE,
                                           !.kill = "force_alive"]
       ELSE [FreshPcb(p, "program", 0) EXCEPT !.mem = "unused"]]
  /\ th = [p \in Proc |-> FreshThread(p)]
  /\ daemon = [d \in Daemons |-> None]
  /\ boot = 0
  /\ intr = TRUE
  /\ mode = "up"

-----------------------------------------------------------------------------
(***************************************************************************)
(* The process list.                                                       *)
(***************************************************************************)
Listed(p) == \E i \in DOMAIN procs : procs[i] = p

PositionOf(p) == CHOOSE i \in DOMAIN procs : procs[i] = p

\* multitasking_find_pid on a pid: the first node that carries it.
FoundAt(n, i) ==
  /\ pcb[procs[i]].pid = n
  /\ \A j \in 1..(i - 1) : pcb[procs[j]].pid # n

HasPid(n) == \E i \in DOMAIN procs : pcb[procs[i]].pid = n

\* get_next_step does not look at killed.
FaultyIgnoresKilled(blocks) == DOMAIN procs

\* get_next_step gives up when it is back where it started.
FaultySkipsCurrent(blocks) ==
  {i \in DOMAIN procs : ~blocks[procs[i]].killed /\ procs[i] # current_process}

\* The nodes get_next_step may stop at, for given control blocks.
NotKilled(blocks) == {i \in DOMAIN procs : ~blocks[procs[i]].killed}

\* get_next_step starts from the head of the list each time.
FaultyFromHead(i, run) == i \in run /\ \A j \in run : i <= j

\* get_next_step stops at node i: of the candidates in run, the first one met
\* from the node after proc_step to the end of the list, then from its head.
NextStepAt(i, run) ==
  LET here == PositionOf(proc_step)
      ahead == {j \in run : j > here}
  IN  /\ i \in run
      /\ ahead # {} => i \in ahead
      /\ \A j \in (IF ahead # {} THEN ahead ELSE run) : i <= j

\* The rest of switch_task and of kill once get_next_step returned process n.
Dispatch(n, blocks) ==
  /\ proc_step' = n
  /\ current_process' = n
  /\ active_process' = blocks[n].active
  /\ intr' = blocks[n].intr

\* switch_task forgets the active process.
FaultySaveContext(saved) ==
  pcb' = [pcb EXCEPT ![current_process].intr = saved]

\* What switch_task saves of the process it takes the CPU from.
SaveContext(saved) ==
  pcb' = [pcb EXCEPT ![current_process] =
             [@ EXCEPT !.intr = saved, !.active = active_process]]

\* switch_task, entered with interrupts disabled by yield (saved is the flag
\* pushf saved) or by the timer interrupt (saved is TRUE).
SwitchTask(saved) ==
  IF proc_count = 1
  THEN UNCHANGED <<sched, pcb, intr, mode>>
  ELSE /\ SaveContext(saved)
       /\ UNCHANGED <<procs, proc_count>>
       /\ IF NotKilled(pcb) = {}
          THEN /\ mode' = "hung"
               /\ intr' = FALSE
               /\ UNCHANGED <<proc_step, current_process, active_process>>
          ELSE /\ \E i \in NotKilled(pcb) : /\ NextStepAt(i, NotKilled(pcb))
                                            /\ Dispatch(procs[i], pcb')
               /\ UNCHANGED mode

\* kill forgets proc_count--, and kill forgets linked_delete.
FaultyUnlinkCount(i, blocks) ==
  /\ procs' = RemoveAt(procs, i)
  /\ proc_count' = proc_count
  /\ pcb' = [blocks EXCEPT ![procs[i]] = [@ EXCEPT !.killed = TRUE, !.mem = "freed"]]
FaultyUnlinkKeepsNode(i, blocks) ==
  /\ procs' = procs
  /\ proc_count' = proc_count
  /\ pcb' = [blocks EXCEPT ![procs[i]] = [@ EXCEPT !.killed = TRUE, !.mem = "freed"]]

\* The end of kill: linked_delete, proc_count-- and cleanup_process.
Unlink(i, blocks) ==
  /\ procs' = RemoveAt(procs, i)
  /\ proc_count' = proc_count - 1
  /\ pcb' = [blocks EXCEPT ![procs[i]] = [@ EXCEPT !.killed = TRUE, !.mem = "freed"]]

\* kill(pid, 9) once the node at position i was found, blocks being the control
\* blocks so far: the process leaves the list and its block is freed.  A caller
\* that passed its own pid does not return, whichever process the node belongs
\* to; if it was another one, the caller's context was never saved.
KillNode(i, blocks) ==
  LET p == procs[i]
      iscurrent == blocks[p].pid = blocks[current_process].pid
      run == NotKilled(blocks) \ {i}
  IN \/ /\ ~iscurrent
        /\ Unlink(i, blocks)
        /\ th' = [th EXCEPT ![p] = FreshThread(p)]
        /\ UNCHANGED <<proc_step, current_process, active_process, intr, mode>>
     \/ /\ iscurrent
        /\ run = {}
        /\ mode' = "hung"
        /\ intr' = FALSE
        /\ pcb' = [blocks EXCEPT ![p].killed = TRUE]
        /\ UNCHANGED <<sched, th>>
     \/ /\ iscurrent
        /\ Unlink(i, blocks)
        /\ \E j \in run : NextStepAt(j, run) /\ Dispatch(procs[j], blocks)
        /\ th' = [th EXCEPT ![current_process].pc = "stale", ![p] = FreshThread(p)]
        /\ UNCHANGED mode

\* kill(-1, 9): the pid of the caller is looked up in the list.
KillSelf(blocks) ==
  \E i \in DOMAIN procs : FoundAt(pcb[current_process].pid, i) /\ KillNode(i, blocks)

-----------------------------------------------------------------------------
(***************************************************************************)
(* Creating a process.  Only append_process disables interrupts: every     *)
(* other step may be followed by a timer tick.                             *)
(***************************************************************************)
Me == th[current_process]
Child == Me.child
Programs == {"program", "fork"}

\* Who creates what: main() follows BootScript; the start button, which the
\* broadcast reaches in videod's event handler, loads a program (exec_initrd);
\* programs load programs and fork by system calls, which do not enable
\* interrupts for it.
Creates(k) ==
  \/ /\ current_process = Init0 /\ Me.pc = "run"
     /\ boot < Len(BootScript) /\ k = BootScript[boot + 1]
     /\ boot' = boot + 1
  \/ /\ Me.pc = "handler" /\ Me.node # None /\ k = "program"
     /\ pcb[Me.node].kind = "videod" /\ pcb[Me.node].system
     /\ UNCHANGED boot
  \/ /\ pcb[current_process].kind \in Programs /\ Me.pc = "syscall"
     /\ k \in Programs
     /\ UNCHANGED boot

\* alloc_process up to the read of pid_top in pid_top++.
AllocProcess(k) ==
  /\ mode = "up"
  /\ \E p \in Proc : pcb[p].mem = "unused"
  /\ Creates(k)
  /\ LET p == CHOOSE q \in Proc : pcb[q].mem = "unused" IN
     /\ pcb' = [pcb EXCEPT ![p] = FreshPcb(p, k, pid_top)]
     /\ th' = [th EXCEPT ![current_process] =
                  [@ EXCEPT !.pc = "alloc", !.home = Me.pc, !.child = p]]
  /\ UNCHANGED <<sched, pid_top, daemon, intr, mode>>

\* The write of pid_top++: 64 bits wide, so not one instruction on this CPU.
StorePidTop ==
  /\ mode = "up" /\ Me.pc = "alloc"
  /\ pid_top' = pcb[Child].pid + 1
  /\ th' = [th EXCEPT ![current_process].pc = "append"]
  /\ UNCHANGED <<sched, pcb, daemon, boot, intr, mode>>

\* append_process
AppendProcess ==
  /\ mode = "up" /\ Me.pc = "append"
  /\ procs' = Append(procs, Child)
  /\ proc_count' = proc_count + 1
  /\ th' = [th EXCEPT ![current_process].pc =
                IF pcb[Child].kind = "zombie" THEN "config" ELSE "start"]
  /\ UNCHANGED <<proc_step, current_process, active_process, pid_top, pcb,
                 daemon, boot, intr, mode>>

Return(t) == [t EXCEPT !.pc = t.home, !.home = "run", !.child = None]

\* multitasking_fork: what the child takes over, once its stack is copied.
Forked(c) ==
  [pcb[c] EXCEPT !.system = pcb[current_process].system,
                 !.active = c,
                 !.kill = pcb[current_process].kill,
                 !.killed = FALSE]

\* create_process clears killed; elf_load leaves the program paused, and of its
\* callers only the start button goes on to resume it; multitasking_fork
\* hands over what the child inherits.
StartProcess ==
  /\ mode = "up" /\ Me.pc = "start"
  /\ CASE pcb[Child].kind = "program" ->
            /\ pcb' = [pcb EXCEPT ![Child].killed = TRUE]
            /\ th' = [th EXCEPT ![current_process] =
                         IF Me.home = "handler" THEN [@ EXCEPT !.pc = "resume"]
                         ELSE Return(@)]
       [] pcb[Child].kind = "fork" ->
            /\ pcb' = [pcb EXCEPT ![Child] = Forked(Child)]
            /\ th' = [th EXCEPT ![current_process] = Return(@)]
       [] OTHER ->
            /\ pcb' = [pcb EXCEPT ![Child].killed = FALSE]
            /\ th' = [th EXCEPT ![current_process].pc = "config"]
  /\ UNCHANGED <<sched, pid_top, daemon, boot, intr, mode>>

\* What event_init, net_init, gfx_late_init and the zombies' init functions do
\* with the process create_process returned.
ConfigProcess ==
  /\ mode = "up" /\ Me.pc = "config"
  /\ LET c == pcb[Child]
         k == c.kind
     IN
     /\ pcb' = [pcb EXCEPT ![Child] =
          [c EXCEPT !.system = c.system \/ k \in {"dispatchd", "videod", "zombie"},
                    !.kill = IF k \in {"dispatchd", "zombie"} THEN "force_alive"
                             ELSE c.kill]]
     /\ daemon' = IF k \in Daemons THEN [daemon EXCEPT ![k] = Child] ELSE daemon
  /\ th' = [th EXCEPT ![current_process] = Return(@)]
  /\ UNCHANGED <<sched, pid_top, boot, intr, mode>>

\* gfx_startbutton_clicked looks the new pid up and clears killed.  (Without such
\* a process the write goes to a low address and changes nothing modelled here.)
ResumeProgram ==
  /\ mode = "up" /\ Me.pc = "resume"
  /\ LET n == pcb[Child].pid IN
     \/ \E i \in DOMAIN procs : /\ FoundAt(n, i)
                               /\ pcb' = [pcb EXCEPT ![procs[i]].killed = FALSE]
     \/ ~HasPid(n) /\ UNCHANGED pcb
  /\ th' = [th EXCEPT ![current_process] = Return(@)]
  /\ UNCHANGED <<sched, pid_top, daemon, boot, intr, mode>>

\* A program that loaded another one (LCTL_INITRD_LOAD) asks for its block
\* (LCTL_GET_PCB) and clears killed itself: programs run in ring 0.
LaunchProgram ==
  /\ mode = "up" /\ Me.pc = "run" /\ pcb[current_process].kind \in Programs
  /\ \E i \in DOMAIN procs : /\ pcb[procs[i]].kind = "program"
                            /\ pcb' = [pcb EXCEPT ![procs[i]].killed = FALSE]
  /\ UNCHANGED <<sched, th, pid_top, daemon, boot, intr, mode>>

-----------------------------------------------------------------------------
(***************************************************************************)
(* Running, pausing, ending.                                               *)
(***************************************************************************)
Local == <<pid_top, th, daemon, boot>>

\* pit_callback while the machine is awake: the timer interrupt is taken only
\* with interrupts enabled, and iret enables them again.
Tick ==
  /\ mode = "up" /\ intr
  /\ SwitchTask(TRUE)
  /\ UNCHANGED Local

\* Where process code may call yield; main and the "stale" end of
\* process_suicide do nothing else.
Yielding == {"run", "syscall", "enabled", "sending", "handler", "idle", "stale"}

\* yield returns with interrupts enabled whatever they were.
FaultyYield ==
  /\ mode = "up" /\ Me.pc \in Yielding
  /\ SwitchTask(TRUE)
  /\ UNCHANGED Local

\* yield keeps the caller's interrupt flag on its stack.
Yield ==
  /\ mode = "up" /\ Me.pc \in Yielding
  /\ SwitchTask(intr)
  /\ UNCHANGED Local

\* eventd_dispatch and netd_main on an empty queue: disable interrupts, pause
\* through the daemon's pointer, enable interrupts.  The daemon keeps running
\* until the timer takes the CPU from it.  (Before the pointer is set the write
\* goes to a low address.)
DaemonPause ==
  /\ mode = "up" /\ Me.pc = "run"
  /\ \E d \in Daemons :
       /\ pcb[current_process].kind = d
       /\ daemon[d] # None
       /\ pcb' = [pcb EXCEPT ![daemon[d]].killed = TRUE]
  /\ intr' = TRUE
  /\ UNCHANGED <<sched, Local, mode>>

\* broadcast_event, net_transmit and net_receive wake the daemon, from an
\* interrupt handler or from the process that queued the work.
Wake(d) ==
  /\ mode = "up" /\ daemon[d] # None
  /\ pcb' = [pcb EXCEPT ![daemon[d]].killed = FALSE]
  /\ UNCHANGED <<sched, Local, intr, mode>>

\* eventd_dispatch took an event and linked_iterate calls
\* broadcast_event_callback on the first node.
BroadcastStart ==
  /\ mode = "up" /\ Me.pc = "run"
  /\ pcb[current_process].kind = "dispatchd" /\ ~pcb[current_process].killed
  /\ th' = [th EXCEPT ![current_process] =
               [@ EXCEPT !.pc = "handler", !.node = procs[1], !.me = active_process]]
  /\ active_process' = procs[1]
  /\ UNCHANGED <<procs, proc_step, proc_count, current_process, pid_top, pcb,
                 daemon, boot, intr, mode>>

\* The handler returns, the active process is restored, and linked_iterate goes
\* on to the next node.  The next pointer of a freed node may hold anything.
NextNode(n) ==
  IF Listed(n)
  THEN {IF PositionOf(n) = Len(procs) THEN None ELSE procs[PositionOf(n) + 1]}
  ELSE Proc \union {None}

BroadcastNext ==
  /\ mode = "up" /\ Me.pc = "handler"
  /\ \E n \in NextNode(Me.node) :
       IF n = None
       THEN /\ th' = [th EXCEPT ![current_process] =
                        [@ EXCEPT !.pc = "run", !.node = None]]
            /\ active_process' = Me.me
       ELSE /\ th' = [th EXCEPT ![current_process].node = n]
            /\ active_process' = n
  /\ UNCHANGED <<procs, proc_step, proc_count, current_process, pid_top, pcb,
                 daemon, boot, intr, mode>>

\* A system call starts with interrupts disabled.  int 0x80 returns to the flag
\* it interrupted (iret), the fast entry at 0x600 always enables interrupts.
EnterSyscall ==
  /\ mode = "up" /\ Me.pc = "run" /\ pcb[current_process].kind \in Programs
  /\ intr' = FALSE
  /\ \E flag \in {intr, TRUE} :
       th' = [th EXCEPT ![current_process] = [@ EXCEPT !.pc = "syscall", !.iret = flag]]
  /\ UNCHANGED <<sched, pid_top, pcb, daemon, boot, mode>>

\* read_linux_syscall and write_linux_syscall enable interrupts on their way to
\* the file, or to a terminal that blocks.
EnableInSyscall ==
  /\ mode = "up" /\ Me.pc = "syscall"
  /\ intr' = TRUE
  /\ th' = [th EXCEPT ![current_process].pc = "enabled"]
  /\ UNCHANGED <<sched, pid_top, pcb, daemon, boot, mode>>

LeaveSyscall ==
  /\ mode = "up" /\ Me.pc \in {"syscall", "enabled"}
  /\ intr' = Me.iret
  /\ th' = [th EXCEPT ![current_process] = [@ EXCEPT !.pc = "run", !.iret = TRUE]]
  /\ UNCHANGED <<sched, pid_top, pcb, daemon, boot, mode>>

\* ipc_linux_syscall: send_event runs the handler of the process with that pid
\* as if it were active, restores the active process, and the call returns.
SendEvent ==
  /\ mode = "up" /\ Me.pc = "syscall"
  /\ \E i \in DOMAIN procs :
       /\ FoundAt(pcb[procs[i]].pid, i)
       /\ active_process' = procs[i]
       /\ th' = [th EXCEPT ![current_process] =
            [@ EXCEPT !.pc = "sending", !.node = procs[i], !.me = active_process]]
  /\ UNCHANGED <<procs, proc_step, proc_count, current_process, pid_top, pcb,
                 daemon, boot, intr, mode>>

SendEventDone ==
  /\ mode = "up" /\ Me.pc = "sending"
  /\ active_process' = Me.me
  /\ intr' = Me.iret
  /\ th' = [th EXCEPT ![current_process] =
               [@ EXCEPT !.pc = "run", !.node = None, !.iret = TRUE]]
  /\ UNCHANGED <<procs, proc_step, proc_count, current_process, pid_top, pcb,
                 daemon, boot, mode>>

\* process_suicide and exit_linux_syscall
Exit ==
  /\ mode = "up" /\ Me.pc \in {"run", "syscall"}
  /\ pcb[current_process].kind \in Programs
  /\ KillSelf(pcb)
  /\ UNCHANGED <<pid_top, daemon, boot>>

\* What the handlers in process->kill return.  Only -1 refuses a signal, and no
\* handler of the kernel returns it.
KillHandler == [default |-> 0, force_alive |-> 1]

Refuses(p, sig) ==
  /\ sig \notin {9, 18, 19} \/ pcb[p].system
  /\ KillHandler[pcb[p].kill] = -1

\* kill(pid, sig) as the kernel offers it: inside the kernel only kill(-1, 9) is
\* called, by the three actions that use KillSelf.  Its early returns leave
\* interrupts disabled.  Signals 18 and 19 look the pid up again, as it was passed: -1
\* finds nothing then.
Kill(pid, sig) ==
  /\ mode = "up" /\ Me.pc = "run" /\ pcb[current_process].kind \in Programs
  /\ LET n == IF pid = -1 THEN pcb[current_process].pid ELSE pid
         returnsEarly == intr' = FALSE /\ UNCHANGED <<sched, th, mode>>
     IN \/ /\ ~HasPid(n) \/ sig = 0
           /\ returnsEarly
           /\ UNCHANGED pcb
        \/ \E i \in DOMAIN procs :
             LET p == procs[i] IN
             /\ FoundAt(n, i) /\ sig # 0
             /\ \/ Refuses(p, sig) /\ returnsEarly /\ UNCHANGED pcb
                \/ /\ ~Refuses(p, sig) /\ sig \in {18, 19}
                   /\ pcb' = IF pid = -1 THEN pcb
                             ELSE [pcb EXCEPT ![p].killed = (sig = 19)]
                   /\ returnsEarly
                \/ ~Refuses(p, sig) /\ sig \notin {18, 19} /\ KillNode(i, pcb)
  /\ UNCHANGED <<pid_top, daemon, boot>>

\* The end of main(): the process pauses itself and only yields from then on.
Retire ==
  /\ mode = "up" /\ Me.pc = "run" /\ current_process = Init0
  /\ boot = Len(BootScript)
  /\ pcb' = [pcb EXCEPT ![Init0].killed = TRUE]
  /\ th' = [th EXCEPT ![Init0].pc = "idle"]
  /\ UNCHANGED <<sched, pid_top, daemon, boot, intr, mode>>

\* multitasking_handle_exception
HandleException ==
  LET blocks == [pcb EXCEPT ![current_process].killed = TRUE] IN
  /\ mode = "up"
  /\ \/ /\ pcb[current_process].system
        /\ mode' = "panic"
        /\ intr' = FALSE
        /\ pcb' = blocks
        /\ UNCHANGED <<sched, th>>
     \/ /\ ~pcb[current_process].system
        /\ KillSelf(blocks)
  /\ UNCHANGED <<pid_top, daemon, boot>>

Next ==
  \/ \E k \in Kinds : AllocProcess(k)
  \/ StorePidTop \/ AppendProcess \/ StartProcess \/ ConfigProcess \/ ResumeProgram
  \/ LaunchProgram
  \/ Tick \/ Yield
  \/ DaemonPause \/ \E d \in Daemons : Wake(d)
  \/ BroadcastStart \/ BroadcastNext
  \/ \E pid \in -1..Cardinality(Proc), sig \in Signals : Kill(pid, sig)
  \/ EnterSyscall \/ EnableInSyscall \/ LeaveSyscall \/ SendEvent \/ SendEventDone
  \/ Exit \/ Retire \/ HandleException

Spec == Init /\ [][Next]_vars

-----------------------------------------------------------------------------
TypeOK ==
  /\ procs \in Seq(Proc)
  /\ proc_step \in Proc /\ current_process \in Proc /\ active_process \in Proc
  /\ proc_count \in Nat /\ pid_top \in Nat
  /\ pcb \in [Proc -> Pcbs]
  /\ th \in [Proc -> Threads]
  /\ daemon \in [Daemons -> Proc \union {None}]
  /\ boot \in Nat
  /\ intr \in BOOLEAN
  /\ mode \in {"up", "panic", "hung"}

\* The scheduler's pointers agree with the list: proc_step is the node of the
\* current process, that process is listed, no block is listed twice, and
\* proc_count, which decides whether there is anything to switch to, counts the
\* list.  kill moves proc_step off a node before freeing it (kill, switch_task,
\* append_process).
SchedulerConsistent ==
  /\ proc_step = current_process
  /\ Listed(current_process)
  /\ \A i, j \in DOMAIN procs : procs[i] = procs[j] => i = j
  /\ proc_count = Len(procs)

\* The list holds allocated blocks only: kill never leaves a node whose block
\* was freed, and a block is freed once.
ListedIsAllocated ==
  \A i \in DOMAIN procs : pcb[procs[i]].mem = "allocated"

\* The CPU is given to a process that is not paused (get_next_step), whoever
\* gives it up: yield, the timer, kill or an exception.
NeverSchedulePaused ==
  [][current_process' # current_process => ~pcb'[current_process'].killed]_vars

\* Outside a handler a process finds itself as its active process, however
\* often it lost the CPU: switch_task saves and restores what
\* broadcast_event_callback or send_event changed for the duration of a handler.
\* ("stale": kill took another process of the same pid for the caller, whose
\* context was not saved.)
ActiveRestored ==
  mode # "hung" =>
    \A i \in DOMAIN procs :
      LET p == procs[i]
          mine == IF p = current_process THEN active_process ELSE pcb[p].active
      IN  th[p].pc # "stale" => mine = IF th[p].node = None THEN p ELSE th[p].node

\* Process code runs with interrupts disabled inside a system call that has not
\* enabled them and nowhere else: neither a switch nor the end of another process leaks the
\* flag of one process into the next.
InterruptFlagOwned ==
  mode = "up" /\ Me.pc # "stale" =>
    (intr <=> {"syscall", "sending"} \intersect {Me.pc, Me.home} = {})

\* get_next_step spins with interrupts disabled when every process is paused.
\* videod never pauses, so this needs videod to have died.
NoLockup ==
  mode = "hung" => \E p \in Proc : pcb[p].kind = "videod" /\ pcb[p].mem = "freed"

\* A pid names one process ("uint64_t pid; // id").
PidsUnique ==
  \A i, j \in DOMAIN procs : pcb[procs[i]].pid = pcb[procs[j]].pid => i = j

\* "dont allow process to ignore signal 9, 18, or 19, unless it is system
\* process": a system process with force_alive_kill_handler survives kill.
SystemSurvivesKill ==
  [][\A p \in Proc :
       (Listed(p) /\ pcb[p].system /\ pcb[p].kill = "force_alive") => Listed(p)']_vars

(***************************************************************************)
(* Fairness.  The PIC holds a timer interrupt until it is taken, so one is *)
(* taken if interrupts are enabled again and again; code that runs with    *)
(* interrupts disabled is finite and ends by returning or by yielding.     *)
(***************************************************************************)
FairSpec == Spec /\ SF_vars(Tick) /\ WF_vars(~intr /\ Next)

\* Every process that can run gets the CPU, unless it is paused or dies first.
EveryRunnableRuns ==
  \A p \in Proc :
    (Listed(p) /\ ~pcb[p].killed)
      ~> (current_process = p \/ pcb[p].killed \/ mode # "up")

=============================================================================
