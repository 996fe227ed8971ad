-------------------------------- MODULE Input -------------------------------
(***************************************************************************)
(* Input and sleep: the keyboard and mouse interrupts (drivers/input), the *)
(* event queue and dispatchd (input/input.c), the two listeners that act   *)
(* on keys (moused and sysrqd), the timer (time/pit.c) and the sleep mode  *)
(* it enters (power/sleep.c).                                              *)
(*                                                                         *)
(* Interrupts may fall between any two steps of a process, and inside      *)
(* sleep_enter, which runs in the timer's handler with interrupts enabled: *)
(* a sleep may be entered inside another one.  A key event points to the   *)
(* one record of held keys, so a listener sees the keys held when it runs. *)
(* Positions and buttons of the mouse are left out.                        *)
(***************************************************************************)
EXTENDS Integers, SequencesExt

CONSTANTS
  Make, Break,   \* [lshift held -> [key -> the bytes a keyboard sends]]
  PitFreq,       \* pit_freq: the ticks from a request to the sleep
  Scripts        \* bound: what the user may do, one script in a behaviour

\* A script's items: a key is pressed or, if it is down, released; the mouse sends a
\* byte, or raises its interrupt without one; the virtual mouse is moved.
Keys == DOMAIN Make[FALSE]
Items == Keys \union {"byte", "glitch", "move"}

ASSUME ScriptsOfItems == Scripts \subseteq Seq(Items)
ASSUME PitFreqNat == PitFreq \in Nat

\* The flags a key stands for; keys that set one are named for it.
FlagsOf(k) ==
  IF k = "ralt" THEN {"ralt", "meta"}
  ELSE {k} \intersect {"lshift", "rshift", "lalt", "lctrl", "rctrl", "super"}

Processes == {"dispatchd", "other"}
NotScheduled == -2

VARIABLES
  down,       \* the keys held down by the user
  wire,       \* the bytes the keyboard has still to deliver
  script,     \* what the user will do
  next,       \* next_byte
  held,       \* the flags set in keyboard_held_t
  phase,      \* the byte of a packet the mouse sends next
  cycle,      \* mouse_cycle
  vmouse,     \* a virtual mouse was found, and the mouse disabled
  events,     \* events
  made,       \* events made; they are numbered in the order they are added
  killed,     \* dispatchd->killed
  at,         \* where dispatchd stands
  armed,      \* sysrqd's do_sysrq
  kmouse,     \* keyboard_mouse
  schedule,   \* sleep_mode_schedule - ticks
  asleep,     \* in_sleep_mode
  timer,      \* the PIT: periodic, about to fire once more, or stopped
  cpu,        \* the process that has the CPU
  nap,        \* the sleep_enters in progress in a process, innermost last
  done,       \* the events dispatchd is done with
  raced       \* a linked_add of a listener collided with an interrupt's

keyboard == <<down, wire, next, held>>
pointer == <<phase, cycle, vmouse>>
queue == <<events, made, killed>>
daemon == <<at, armed, kmouse, done, raced>>
sleep == <<schedule, asleep, timer, cpu, nap>>
vars == <<keyboard, pointer, queue, daemon, sleep, script>>

Idle == [pc |-> "poll", read |-> <<>>]

Init ==
  /\ script \in Scripts
  /\ down = {} /\ wire = <<>>
  /\ next = FALSE /\ held = {}
  /\ vmouse = Contains(script, "move")
  \* mouse_init enables the reports before it sets the handler.
  /\ phase \in IF Contains(script, "byte") THEN 0..2 ELSE {0}
  /\ cycle = 0
  /\ events = <<>> /\ made = 0 /\ killed = FALSE
  /\ at = Idle /\ armed = FALSE /\ kmouse = FALSE
  /\ schedule = NotScheduled /\ asleep = FALSE /\ timer = "periodic"
  /\ cpu \in Processes /\ nap = [p \in Processes |-> <<>>]
  /\ done = <<>> /\ raced = FALSE

-----------------------------------------------------------------------------
\* An interrupt ends the halt.
Halted == nap[cpu] # <<>> /\ Last(nap[cpu]) = "halt"
Roused == IF Halted THEN [nap EXCEPT ![cpu] = Append(Front(@), "test")] ELSE nap

\* A node of the list; n numbers the events in the order they are made.
Node(event, n) == [n |-> n, event |-> event]

\* The daemon is not woken.
FaultyBroadcastEvent(event) ==
  /\ made' = made + 1
  /\ events' = Append(events, Node(event, made'))
  /\ UNCHANGED killed

\* broadcast_event, called with interrupts disabled
BroadcastEvent(event) ==
  /\ made' = made + 1
  /\ events' = Append(events, Node(event, made'))
  /\ killed' = FALSE

MouseEvent == [type |-> "mouse"]
KeyEvent(code, pressed) == [type |-> "keyboard", code |-> code, pressed |-> pressed]

\* The user's next move.
User(item) == script # <<>> /\ Head(script) = item /\ script' = Tail(script)

\* The user presses or releases a key; the keyboard's bytes follow.
Press(k) ==
  /\ User(k) /\ k \notin down /\ wire = <<>>
  /\ down' = down \union {k}
  /\ wire' = Make["lshift" \in down][k]
  /\ UNCHANGED <<next, held, pointer, queue, daemon, sleep>>

Lift(k) ==
  /\ User(k) /\ k \in down /\ wire = <<>>
  /\ down' = down \ {k}
  /\ wire' = Break["lshift" \in down][k]
  /\ UNCHANGED <<next, held, pointer, queue, daemon, sleep>>

\* What stands for a key code that followed a byte 224.
Extended == [raw \in {29, 42, 56, 72, 75, 77, 79, 80, 91, 92} |->
  CASE raw = 79 -> 0 [] raw = 56 -> 84 [] raw = 29 -> 85 [] raw = 42 -> 86 [] raw \in {91, 92} -> 87
    [] raw = 72 -> 90 [] raw = 77 -> 91 [] raw = 75 -> 92 [] raw = 80 -> 93]

\* The members of keyboard_held_t a key code sets and clears.
Flags(code) ==
  CASE code = 42 -> {"lshift"} [] code = 54 -> {"rshift"} [] code = 56 -> {"lalt"}
    [] code = 84 -> {"ralt", "meta"} [] code = 29 -> {"lctrl"} [] code = 85 -> {"rctrl"}
    [] code = 86 -> {"sysrq"} [] code = 87 -> {"super"} [] OTHER -> {}

\* A keyboard of scan-code set 1: a key's code comes alone, or after a 224 and then perhaps
\* wrapped in the release or press of a shift; 128 is added when the
\* key is released.  96 would make a release 224.
Plain(k, make, break, c) ==
  make = <<c>> /\ break = <<c + 128>> /\ Flags(c) = FlagsOf(k)

Grey(k, make, break, c) ==
  /\ (IF c \in DOMAIN Extended THEN Flags(Extended[c]) ELSE {}) \ {"sysrq"} = FlagsOf(k)
  /\ make = <<224, c>> \/ \E s \in {42, 170} : make = <<224, s, 224, c>>
  /\ break = <<224, c + 128>> \/ \E s \in {42, 170} : break = <<224, c + 128, 224, s>>

ASSUME ScanCodes ==
  \A shift \in BOOLEAN, k \in Keys : \E c \in (1..127) \ {96} :
    Plain(k, Make[shift][k], Break[shift][k], c) \/ Grey(k, Make[shift][k], Break[shift][k], c)

CapsLock == 58
HeldAfter(code, pressed) ==
  LET now == IF pressed THEN held \union Flags(code) ELSE held \ Flags(code) IN
  IF ~(pressed /\ code = CapsLock) THEN now
  ELSE IF "caps" \in now THEN now \ {"caps"} ELSE now \union {"caps"}

\* next_byte stays set after a sequence nobody knows.
FaultyKeyboardCallback(byte) ==
  LET pressed == byte <= 128
      raw == IF pressed THEN byte ELSE byte - 128
      code == IF next THEN Extended[raw] ELSE raw
  IN
  \/ /\ byte = 224 \/ (next /\ raw \notin DOMAIN Extended)
     /\ next' = TRUE
     /\ UNCHANGED <<held, queue>>
  \/ /\ byte # 224 /\ ~(next /\ raw \notin DOMAIN Extended)
     /\ next' = FALSE
     /\ held' = HeldAfter(code, pressed)
     /\ BroadcastEvent(KeyEvent(code, pressed))

\* keyboard_callback: 128 itself is no release.
KeyboardCallback(byte) ==
  LET pressed == byte <= 128
      raw == IF pressed THEN byte ELSE byte - 128
      code == IF next THEN Extended[raw] ELSE raw
      unknown == next /\ raw \notin DOMAIN Extended
  IN
  \/ /\ byte = 224 \/ unknown
     /\ next' = (byte = 224)
     /\ UNCHANGED <<held, queue>>
  \/ /\ byte # 224 /\ ~unknown
     /\ next' = FALSE
     /\ held' = HeldAfter(code, pressed)
     /\ BroadcastEvent(KeyEvent(code, pressed))

KeyboardInterrupt ==
  /\ wire # <<>>
  /\ wire' = Tail(wire)
  /\ KeyboardCallback(Head(wire))
  /\ asleep' = FALSE
  /\ nap' = Roused
  /\ UNCHANGED <<down, pointer, daemon, schedule, timer, cpu, script>>

\* The status register is not looked at.
FaultyMouseHandler(aux, sync) ==
  /\ cycle' = IF cycle = 0 /\ ~sync THEN 0 ELSE (cycle + 1) % 3
  /\ IF cycle = 2 THEN BroadcastEvent(MouseEvent) ELSE UNCHANGED queue

\* mouse_handler: aux, the byte is the mouse's (status bit 5); sync, its bit 3 is set.
MouseHandler(aux, sync) ==
  IF ~aux THEN UNCHANGED <<cycle, queue>>
  ELSE /\ cycle' = IF cycle = 0 /\ ~sync THEN 0 ELSE (cycle + 1) % 3
       /\ IF cycle = 2 THEN BroadcastEvent(MouseEvent) ELSE UNCHANGED queue

\* The mouse sends a byte; bit 3 is set in the first of a packet.  Or its
\* interrupt is raised with no byte of its own to read.
MouseInterrupt(aux, sync) ==
  /\ User(IF aux THEN "byte" ELSE "glitch") /\ ~vmouse
  /\ (aux /\ phase = 0) => sync
  /\ phase' = IF aux THEN (phase + 1) % 3 ELSE phase
  /\ MouseHandler(aux, sync)
  /\ asleep' = FALSE
  /\ nap' = Roused
  /\ UNCHANGED <<keyboard, vmouse, daemon, schedule, timer, cpu>>

\* vmouse_callback: in_sleep_mode is left as it is.
VmouseCallback ==
  /\ User("move")
  /\ BroadcastEvent(MouseEvent)
  /\ nap' = Roused
  /\ UNCHANGED <<keyboard, pointer, daemon, schedule, asleep, timer, cpu>>

-----------------------------------------------------------------------------
\* A process takes steps of its own while it has the CPU and sleeps in none.
Runs(p) == cpu = p /\ nap[p] = <<>>

\* The rest of the list is forgotten.
FaultyPoll ==
  /\ Runs("dispatchd") /\ at.pc = "poll"
  /\ \/ /\ events = <<>>
        /\ killed' = TRUE
        /\ UNCHANGED <<events, at>>
     \/ /\ events # <<>>
        /\ at' = [pc |-> "moused", node |-> Head(events), read |-> <<>>]
        /\ events' = <<>>
        /\ UNCHANGED killed
  /\ UNCHANGED <<keyboard, pointer, sleep, script, made, armed, kmouse, done, raced>>

\* eventd_dispatch, with interrupts disabled: take an event, or pause.
Poll ==
  /\ Runs("dispatchd") /\ at.pc = "poll"
  /\ \/ /\ events = <<>>
        /\ killed' = TRUE
        /\ UNCHANGED <<events, at>>
     \/ /\ events # <<>>
        /\ at' = [pc |-> "moused", node |-> Head(events), read |-> <<>>]
        /\ events' = Tail(events)
        /\ UNCHANGED killed
  /\ UNCHANGED <<keyboard, pointer, sleep, script, made, armed, kmouse, done, raced>>

Arrows == 90..93

\* The test keyboard_mouse_handle_event makes of an event.
MovesPointer(e) ==
  /\ kmouse /\ e.type = "keyboard"
  /\ e.code \in Arrows \/ held \intersect {"rshift", "rctrl", "lshift"} # {}

\* keyboard_mouse_handle_event, up to its read of events
HandleMoused ==
  /\ Runs("dispatchd") /\ at.pc = "moused"
  /\ at' = IF MovesPointer(at.node.event) THEN [at EXCEPT !.pc = "link", !.read = events]
           ELSE [at EXCEPT !.pc = "sysrqd"]
  /\ UNCHANGED <<keyboard, pointer, queue, sleep, script, armed, kmouse, done, raced>>

\* What the list may be once linked_add's head is stored: a node added to a list
\* that was empty, or whose end was looked up before, hides what was added since.
Linked(list, node) ==
  {Append(list, node)} \union (IF list = <<>> THEN {} ELSE {Append(events, node)})

\* broadcast_event, called by moused with interrupts enabled
LinkMoused ==
  LET node == Node(MouseEvent, made + 1) IN
  /\ Runs("dispatchd") /\ at.pc = "link"
  /\ made' = made + 1
  /\ events' \in Linked(at.read, node)
  /\ raced' = (raced \/ events' # Append(events, node))
  /\ killed' = FALSE
  /\ at' = [at EXCEPT !.pc = "sysrqd", !.read = <<>>]
  /\ UNCHANGED <<keyboard, pointer, sleep, script, armed, kmouse, done>>

Shifted == held \intersect {"lshift", "rshift"} # {}
ShiftKeys == {42, 54}
SysRqKey == 86
SKey == 31
YKey == 21

\* sleep_mode_schedule = ticks + pit_freq
Schedule == schedule' = PitFreq

\* The commands that change what is modelled: s, y and Y.
Command(code) ==
  /\ IF code = SKey /\ ~Shifted THEN Schedule ELSE UNCHANGED schedule
  /\ kmouse' = IF code = YKey THEN ~Shifted ELSE kmouse

\* sysrq_handle_event; the broadcast ends with it and the event is freed.
HandleSysrq ==
  LET e == at.node.event
      super == "super" \in held
      key == e.type = "keyboard"
      arms == key /\ super /\ e.code = SysRqKey
      ignored == ~key \/ (~arms /\ e.code \in ShiftKeys)
  IN
  /\ Runs("dispatchd") /\ at.pc = "sysrqd"
  /\ armed' = IF ignored THEN armed ELSE arms
  /\ IF ~ignored /\ ~arms /\ super /\ armed /\ e.pressed
     THEN Command(e.code) ELSE UNCHANGED <<schedule, kmouse>>
  /\ done' = Append(done, at.node.n)
  /\ at' = Idle
  /\ UNCHANGED <<keyboard, pointer, queue, asleep, timer, cpu, nap, script, raced>>

-----------------------------------------------------------------------------
\* sleep_enter up to enable_interrupts.  pit_disable leaves the timer in a mode in
\* which it fires once more.
SleepEnter ==
  /\ timer' = "once"
  /\ asleep' = TRUE
  /\ nap' = [Roused EXCEPT ![cpu] = Append(@, "gap")]
  /\ UNCHANGED <<schedule, cpu>>

\* switch_task: two processes take turns unless dispatchd is paused.
SwitchTask == cpu' = IF cpu = "dispatchd" \/ killed THEN "other" ELSE "dispatchd"

\* pit_callback: a tick that finds in_sleep_mode set is ignored; one past the
\* schedule enters the sleep; any other counts and switches.
PitCallback ==
  IF asleep THEN /\ nap' = Roused
                 /\ timer' = IF timer = "once" THEN "stopped" ELSE timer
                 /\ UNCHANGED <<schedule, asleep, cpu>>
  ELSE IF schedule # NotScheduled /\ schedule < 0 THEN SleepEnter
  ELSE /\ nap' = Roused
       /\ timer' = IF timer = "once" THEN "stopped" ELSE timer
       /\ schedule' = IF schedule = NotScheduled THEN schedule ELSE schedule - 1
       /\ SwitchTask
       /\ UNCHANGED asleep

TimerInterrupt ==
  /\ timer # "stopped"
  /\ PitCallback
  /\ UNCHANGED <<keyboard, pointer, queue, daemon, script>>

Frame == Last(nap[cpu])
SetFrame(f) == nap' = [nap EXCEPT ![cpu] = Append(Front(@), f)]

\* perf_halt
Halt ==
  /\ nap[cpu] # <<>> /\ Frame = "gap"
  /\ SetFrame("halt")
  /\ UNCHANGED <<keyboard, pointer, queue, daemon, script, schedule, asleep, timer, cpu>>

\* The timer is not started again.
FaultyAwaken ==
  /\ nap' = [nap EXCEPT ![cpu] = Front(@)]
  /\ schedule' = NotScheduled
  /\ UNCHANGED timer

\* sleep_enter's end
Awaken ==
  /\ nap' = [nap EXCEPT ![cpu] = Front(@)]
  /\ schedule' = NotScheduled
  /\ timer' = "periodic"

\* sleep_enter after the halt: asleep still, or the sleep is over.
TestSleep ==
  /\ nap[cpu] # <<>> /\ Frame = "test"
  /\ IF asleep THEN SetFrame("gap") /\ UNCHANGED <<schedule, timer>> ELSE Awaken
  /\ UNCHANGED <<keyboard, pointer, queue, daemon, script, asleep, cpu>>

-----------------------------------------------------------------------------
Next ==
  \/ \E k \in Keys : Press(k) \/ Lift(k)
  \/ KeyboardInterrupt
  \/ \E aux, sync \in BOOLEAN : MouseInterrupt(aux, sync)
  \/ VmouseCallback
  \/ Poll \/ HandleMoused \/ LinkMoused \/ HandleSysrq
  \/ TimerInterrupt \/ Halt \/ TestSleep

\* Time slices are long enough for a step, and the rotation brings every slice back.
Fairness ==
  /\ SF_vars(Poll \/ HandleMoused \/ LinkMoused \/ HandleSysrq)
  /\ SF_vars(Halt \/ TestSleep)
  /\ WF_vars(KeyboardInterrupt)
  /\ WF_vars(TimerInterrupt)

Spec == Init /\ [][Next]_vars /\ Fairness

-----------------------------------------------------------------------------
Frames == {"gap", "halt", "test"}

\* Types.  A request never lies further ahead than pit_freq ticks, and sleeps nest.
TypeOK ==
  /\ down \subseteq Keys /\ next \in BOOLEAN
  /\ phase \in 0..2 /\ cycle \in 0..2 /\ vmouse \in BOOLEAN
  /\ \A i \in DOMAIN events : events[i].n \in 1..made
  /\ killed \in BOOLEAN /\ armed \in BOOLEAN /\ kmouse \in BOOLEAN
  /\ at.pc \in {"poll", "moused", "link", "sysrqd"}
  /\ schedule \in {NotScheduled} \union -1..PitFreq
  /\ asleep \in BOOLEAN /\ timer \in {"periodic", "once", "stopped"}
  /\ cpu \in Processes /\ nap \in [Processes -> Seq(Frames)]

\* keyboard_callback's and mouse_handler's decoders stay in step with the devices:
\* when the keyboard has nothing more to send, no sequence is open and the flags
\* that are not caps or sysrq are those of the keys held down; and once the mouse's
\* packets are in step, nothing, not even an interrupt without a byte, puts them out.
InStep == wire = <<>> => ~next /\ held \ {"caps", "sysrq"} = UNION {FlagsOf(k) : k \in down}
DecodersInStep == [][InStep' /\ (cycle = phase => cycle' = phase')]_vars

Numbers == done \o (IF at.pc = "poll" THEN <<>> ELSE <<at.node.n>>)
             \o [i \in DOMAIN events |-> events[i].n]

\* dispatchd broadcasts the events in the order they were added, each once, and
\* loses one only if a listener's broadcast_event collided with an interrupt's.
EventsInOrder ==
  /\ \A i, j \in DOMAIN Numbers : i < j => Numbers[i] < Numbers[j]
  /\ raced \/ Len(Numbers) = made

\* pit_disable and pit_init pair up although sleeps nest and the timer fires once
\* more after it was disabled: whenever it is not periodic, the process that has
\* the CPU is in a sleep_enter that will start it again, and asleep means as much.
TimerStoppedOnlyAsleep == (timer # "periodic" \/ asleep) => nap[cpu] # <<>>

\* The machine waits in sleep_enter for an interrupt, and only a device can cause one.
Hibernates == Halted /\ timer = "stopped"

Queued(n) == \E i \in DOMAIN events : events[i].n = n

\* Every event in the queue is broadcast to both listeners, or leaves the queue in a
\* collision (EventsInOrder says when), or waits for a machine that sleeps to be
\* touched again: also when the key that made it fell just before the halt.
\* A script's item makes at most two codes that are events, and moused one for each.
MaxEvents == 4 * Max({Len(x) : x \in Scripts})

EveryEventDispatched ==
  \A n \in 1..MaxEvents :
    Queued(n) ~> (Contains(done, n) \/ ~Contains(Numbers, n) \/ Hibernates)
=============================================================================
