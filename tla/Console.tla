------------------------------ MODULE Console ------------------------------
(***************************************************************************)
(* The console's input: the scan code decoder of kernel/keyboard.cpp, the  *)
(* ring of characters of kernel/console.cpp and the readers that sleep in  *)
(* sys_cgetc (kernel/syscall.cpp).                                         *)
(*                                                                         *)
(* The keyboard is external: it sends bytes, one sequence for each key     *)
(* pressed or released.  The kernel reads them in the loop of              *)
(* console_interrupt, which the interrupt and the poll of console_getc     *)
(* run; the poll runs it once more for the bytes of the serial port.  A    *)
(* step is one turn of the loop; it runs under console_lock with           *)
(* interrupts off, so nothing but the devices moves between its turns.     *)
(* The loop ends when no byte is at the port, which may be in the middle   *)
(* of a sequence: the rest of wire is still on its way.                    *)
(*                                                                         *)
(* Ctrl+Alt+Del starts the kernel monitor inside the loop, and perhaps     *)
(* again inside the monitor.  The monitor has the processor until it is    *)
(* left and reads the console itself; its commands are left out.           *)
(*                                                                         *)
(* A signal that a reader handles makes check_signals copy the kernel      *)
(* stack: the rest of sys_cgetc runs once before the handler, into whose   *)
(* registers its result goes, and once more when the handler is over.      *)
(*                                                                         *)
(* Operators whose name ends in a capital and a reason are wrong versions  *)
(* of the code, kept to show that the properties notice them.              *)
(***************************************************************************)
EXTENDS Integers, Sequences, SequencesExt, FiniteSets

CONSTANTS
  Readers,    \* tasks that read the console
  Handlers,   \* the ones that have a signal handler
  BuffSize,   \* bytes of console.buff, 512
  Modifiers,  \* the modifier keys pressed: [bit, make, break]
  Typed,      \* other keys: the bytes of one stroke
  Serial,     \* the bytes that arrive at COM1
  MaxWire,    \* bound: bytes ready when a key is used
  MaxMonitor, \* bound: monitors started inside one another
  MaxSaved    \* bound: stacks saved for a reader; push_stack asserts 32

ASSUME ConsoleAssumption ==
  /\ BuffSize \in Nat \ {0} /\ MaxWire \in Nat
  /\ MaxMonitor \in Nat /\ MaxSaved \in Nat /\ Serial \subseteq 0 .. 255
  /\ IsFiniteSet(Readers) /\ Handlers \subseteq Readers
  /\ \A k \in Modifiers : k.bit \in {"SHIFT", "CTL", "ALT"}

VARIABLES
  wire,     \* external: the bytes the keyboard sends to the port KBDATAP
  held,     \* external: the modifier keys held down
  shift,    \* keyboard_getc's static shift, as the set of its bits
  buff, rpos, wpos,  \* console
  console_lock,      \* whose loop of console_interrupt runs: the "interrupt", the
                     \* "poll" of the keyboard, that of "COM1", or none: "free"
  console_input_list,
  rd,       \* where a reader is: "user", "asleep", or in the rest of sys_cgetc,
            \* because of a "key" or of a "signal"
  polled,   \* the readers in console_getc, whose poll has begun
  handler,  \* the readers whose way out of sys_cgetc leads to a signal handler
  saved,    \* the copies of a reader's stack: was it polled, and did its way
            \* out lead to a handler already?
  given,    \* the last character that a sys_cgetc returned
  excuse,   \* some character was taken from a reader that was woken for it
  monitor   \* how many kernel monitors run, one inside the other

ringVars   == <<buff, rpos, wpos>>
readerVars == <<console_input_list, rd, polled, handler, saved, given, excuse>>
vars == <<wire, held, shift, ringVars, console_lock, readerVars, monitor>>

-----------------------------------------------------------------------------
(* keyboard.cpp                                                            *)

NO == 0
KEY_DEL == 233

\* keyboard_init
shiftcode(data) ==
  CASE data \in {29, 157} -> {"CTL"}
    [] data \in {42, 54} -> {"SHIFT"}
    [] data \in {56, 184} -> {"ALT"}
    [] OTHER -> {}

togglecode(data) ==
  CASE data = 58 -> {"CAPSLOCK"}
    [] data = 69 -> {"NUMLOCK"}
    [] data = 70 -> {"SCROLLLOCK"}
    [] OTHER -> {}

\* The maps, for the keys 1, Enter, A, S, /, keypad . and Enter and /, and Del
normalmap(data) ==
  CASE data = 2 -> 49
    [] data = 30 -> 97
    [] data = 31 -> 115
    [] data \in {53, 181} -> 47
    [] data = 83 -> 46
    [] data \in {28, 156} -> 10
    [] data = 211 -> KEY_DEL
    [] OTHER -> NO
shiftmap(data) ==
  CASE data = 2 -> 33
    [] data = 30 -> 65
    [] data = 31 -> 83
    [] data = 53 -> 63
    [] OTHER -> normalmap(data)
ctlmap(data) ==
  CASE data = 28 -> 13
    [] data = 30 -> 1
    [] data = 31 -> 19
    [] data \in {53, 181} -> 239
    [] data = 211 -> KEY_DEL
    [] OTHER -> NO

charcode(s, data) ==
  IF "CTL" \in s THEN ctlmap(data)
  ELSE IF "SHIFT" \in s THEN shiftmap(data) ELSE normalmap(data)

caps(s, c) ==
  IF "CAPSLOCK" \notin s THEN c
  ELSE CASE c \in 97 .. 122 -> c - 32
         [] c \in 65 .. 90 -> c + 32
         [] OTHER -> c

\* A key is released: without the escape, the code is that of the key.
released(s, data) ==
  LET code == IF "E0ESC" \in s THEN data ELSE data % 128
  IN  s \ (shiftcode(code) \cup {"E0ESC"})

pressed_KeepEscape(s, code) == SymDiff(s \cup shiftcode(code), togglecode(code))
pressed(s, code) == SymDiff((s \ {"E0ESC"}) \cup shiftcode(code), togglecode(code))

\* keyboard_getc for a byte: the new shift, the character and whether the
\* monitor starts
keyboard_getc(s, data) ==
  LET code == IF "E0ESC" \in s THEN data + 128 ELSE data
      down == pressed(s, code)
      c == caps(down, charcode(down, code))
  IN  IF data = 224 THEN [shift |-> s \cup {"E0ESC"}, c |-> NO, monitor |-> FALSE]
      ELSE IF data >= 128
      THEN [shift |-> released(s, data), c |-> NO, monitor |-> FALSE]
      ELSE [shift |-> down, c |-> c,
            monitor |-> {"CTL", "ALT"} \subseteq down /\ c = KEY_DEL]

-----------------------------------------------------------------------------
(* The keyboard, external: what it sends for a key.                        *)

\* A byte for the key pressed and 128 more for the key released, behind 224 if
\* the key is one of the extended ones
KeyBytes(ext, b) == IF ext THEN <<224, b>> ELSE <<b>>
Make(ext, b)  == KeyBytes(ext, b)
Break(ext, b) == KeyBytes(ext, b + 128)

\* The code under which keyboard_init has the key
KeyCode(ext, b) == IF ext THEN b + 128 ELSE b

\* Modifiers are the keys that keyboard_init has as modifiers, with their bits,
\* and Typed others, pressed and released or held.
ASSUME KeyboardAssumption ==
  /\ \A k \in Modifiers : \E ext \in BOOLEAN, b \in 1 .. 95 :
       /\ k.make = Make(ext, b) /\ k.break = Break(ext, b)
       /\ shiftcode(KeyCode(ext, b)) = {k.bit}
  /\ \A bytes \in Typed : \E ext \in BOOLEAN, b \in 1 .. 95 :
       /\ bytes \in {Make(ext, b), Make(ext, b) \o Break(ext, b)}
       /\ shiftcode(KeyCode(ext, b)) = {}

-----------------------------------------------------------------------------
(* console.cpp                                                             *)

Wrap(n) == IF n = BuffSize THEN 0 ELSE n

\* History: an excuse lasts until nobody is awake for a character.
Excuse(x) == excuse' = (x /\ \E t \in Readers : rd'[t] = "key")

\* wakeup_interruptible: the first reader that sleeps
wakeup_interruptible_All ==
  /\ console_input_list' = <<>>
  /\ rd' = [t \in Readers |-> IF Contains(console_input_list, t) THEN "key" ELSE rd[t]]
wakeup_interruptible ==
  \/ console_input_list = <<>> /\ UNCHANGED <<console_input_list, rd>>
  \/ /\ console_input_list # <<>>
     /\ console_input_list' = Tail(console_input_list)
     /\ rd' = [rd EXCEPT ![Head(console_input_list)] = "key"]

\* The loop of console_interrupt for one character
put_Before(c) ==
  /\ buff' = [buff EXCEPT ![Wrap(wpos + 1)] = c] /\ wpos' = Wrap(wpos + 1)
  /\ wakeup_interruptible
  /\ Excuse(excuse \/ Wrap(wpos + 1) = rpos)
put(c) ==
  /\ buff' = [buff EXCEPT ![wpos] = c] /\ wpos' = Wrap(wpos + 1)
  /\ wakeup_interruptible
  /\ Excuse(excuse \/ Wrap(wpos + 1) = rpos)

\* One turn: the decoder takes a byte, and the ring what it gives, unless
\* that is 0.  If the monitor starts, the ring gets KEY_DEL when it is left;
\* until then the turns are those of the monitor's own console_getc.
console_interrupt_turn ==
  /\ console_lock \in {"interrupt", "poll"} /\ wire # <<>>
  /\ LET k == keyboard_getc(shift, Head(wire))
     IN  /\ shift' = k.shift
         /\ \/ /\ k.monitor /\ monitor < MaxMonitor /\ monitor' = monitor + 1
               /\ UNCHANGED <<buff, wpos, console_input_list, rd, excuse>>
            \/ ~k.monitor /\ k.c # NO /\ put(k.c) /\ UNCHANGED monitor
            \/ /\ ~k.monitor /\ k.c = NO
               /\ UNCHANGED <<buff, wpos, console_input_list, rd, excuse, monitor>>
  /\ wire' = Tail(wire)
  /\ UNCHANGED <<held, rpos, console_lock, polled, handler, saved, given>>

\* A turn of the poll of the serial port, whose bytes go to the ring as they
\* are.  There is no interrupt for them.
COM1_getc_turn ==
  /\ console_lock = "COM1" \/ monitor > 0
  /\ \E c \in Serial \ {NO} : put(c)
  /\ UNCHANGED <<wire, held, shift, rpos, console_lock, polled, handler, saved, given,
                 monitor>>

\* The device gives -1: no byte is at its port.  A poll goes on with the serial
\* port.  A tick just between the two loops is left out: it does what one before
\* both does when the keyboard's interrupt comes first.
console_interrupt_end ==
  /\ monitor = 0
  /\ \/ console_lock = "poll" /\ console_lock' = "COM1"
     \/ console_lock \in {"interrupt", "COM1"} /\ console_lock' = "free"
  /\ UNCHANGED <<wire, held, shift, ringVars, readerVars, monitor>>

\* The monitor's getchar takes a character, whoever was woken for it.
monitor_getchar ==
  /\ monitor > 0 /\ rpos # wpos
  /\ rpos' = Wrap(rpos + 1)
  /\ UNCHANGED <<wire, held, shift, buff, wpos, console_lock, console_input_list, rd,
                 polled, handler, saved, given, monitor>>
  /\ Excuse(TRUE)

\* The command continue ends a monitor, and the loop it was started in goes on
\* with the character of the key.
command_continue ==
  /\ monitor > 0 /\ monitor' = monitor - 1
  /\ put(KEY_DEL)
  /\ UNCHANGED <<wire, held, shift, rpos, console_lock, polled, handler, saved, given>>

Init ==
  /\ wire = <<>> /\ held = {} /\ shift = {}
  /\ buff = [i \in 0 .. BuffSize - 1 |-> 0] /\ rpos = 0 /\ wpos = 0
  /\ console_lock = "free" /\ console_input_list = <<>>
  /\ rd = [t \in Readers |-> "user"] /\ polled = {}
  /\ handler = {} /\ saved = [t \in Readers |-> <<>>] /\ given = 0
  /\ excuse = FALSE /\ monitor = 0

\* The keyboard's user presses or releases a modifier key, or strikes
\* another one.
UseKey ==
  /\ Len(wire) <= MaxWire
  /\ \/ \E k \in Modifiers \ held :
          wire' = wire \o k.make /\ held' = held \cup {k}
     \/ \E k \in held : wire' = wire \o k.break /\ held' = held \ {k}
     \/ \E bytes \in Typed : wire' = wire \o bytes /\ UNCHANGED held
  /\ UNCHANGED <<shift, ringVars, console_lock, readerVars, monitor>>

\* What runs outside the loop of console_interrupt
Unlocked == console_lock = "free"

do_irq_keyboard ==
  /\ Unlocked /\ wire # <<>>
  /\ console_lock' = "interrupt"
  /\ UNCHANGED <<wire, held, shift, ringVars, readerVars, monitor>>

sleep_interruptible(t) ==
  /\ rd' = [rd EXCEPT ![t] = "asleep"]
  /\ console_input_list' = Append(console_input_list, t)

\* sys_cgetc, which sleeps whether or not there is a character
sys_cgetc(t) ==
  /\ Unlocked /\ rd[t] = "user"
  /\ sleep_interruptible(t)
  /\ UNCHANGED <<wire, held, shift, ringVars, console_lock, polled, handler, saved, given,
                 excuse, monitor>>

\* A signal that is not ignored makes a sleeping reader runnable (signal.cpp).
send_signal(t) ==
  /\ Unlocked /\ rd[t] = "asleep"
  /\ rd' = [rd EXCEPT ![t] = "signal"]
  /\ console_input_list' = RemoveFirst(console_input_list, t)
  /\ UNCHANGED <<wire, held, shift, ringVars, console_lock, polled, handler, saved, given,
                 excuse, monitor>>

\* A reader is in the rest of sys_cgetc: behind schedule()
Awake(t) == rd[t] \in {"key", "signal"}

\* The end of schedule() finds a signal with a handler, when the reader was
\* asleep or when a tick came in the rest of sys_cgetc.  push_stack saves where
\* the call is, and its way out leads to the handler.
check_signals(t) ==
  /\ Unlocked /\ t \in Handlers /\ Awake(t) /\ Len(saved[t]) < MaxSaved
  /\ saved' = [saved EXCEPT ![t] = <<[polled |-> t \in polled, handler |-> t \in handler]>> \o @]
  /\ handler' = handler \cup {t}
  /\ UNCHANGED <<wire, held, shift, ringVars, console_lock, console_input_list, rd, polled,
                 given, excuse, monitor>>

\* The handler is over, and pop_stack goes on where the last stack was saved.
\* With another signal there check_signals sets up its handler, without a copy.
signal_return(t) ==
  /\ Unlocked /\ rd[t] = "user" /\ saved[t] # <<>>
  /\ rd' = [rd EXCEPT ![t] = "signal"]
  /\ polled' = IF Head(saved[t]).polled THEN polled \cup {t} ELSE polled
  /\ saved' = [saved EXCEPT ![t] = Tail(@)]
  /\ \/ Head(saved[t]).handler /\ handler' = handler \cup {t}
     \/ ~Head(saved[t]).handler /\ handler' \in {handler, handler \cup {t}}
  /\ UNCHANGED <<wire, held, shift, ringVars, console_lock, console_input_list, given,
                 excuse, monitor>>

\* A signal without a handler ends the task in schedule(); another task may
\* read the console then.
do_exit(t) ==
  /\ Unlocked /\ rd[t] # "asleep"
  /\ rd' = [rd EXCEPT ![t] = "user"] /\ polled' = polled \ {t}
  /\ saved' = [saved EXCEPT ![t] = <<>>] /\ handler' = handler \ {t}
  /\ Excuse(excuse)
  /\ UNCHANGED <<wire, held, shift, ringVars, console_lock, console_input_list, given,
                 monitor>>

\* The rest of sys_cgetc once the reader is scheduled: console_getc, which
\* first polls the keyboard and the serial port...
console_getc(t) ==
  /\ Unlocked /\ Awake(t) /\ t \notin polled
  /\ polled' = polled \cup {t} /\ console_lock' = "poll"
  /\ UNCHANGED <<wire, held, shift, ringVars, console_input_list, rd, handler, saved, given,
                 excuse, monitor>>

\* ... and takes a character if there is one.  Between the two the lock is
\* free: an interrupt or another reader may come first.
console_getc_take(t) ==
  /\ Unlocked /\ t \in polled
  /\ polled' = polled \ {t} /\ handler' = handler \ {t}
  /\ rd' = [rd EXCEPT ![t] = "user"]
  /\ \/ /\ rpos # wpos /\ rpos' = Wrap(rpos + 1)
        /\ given' = IF t \in handler THEN given ELSE buff[rpos]
        /\ Excuse(excuse \/ rd[t] # "key")
     \/ rpos = wpos /\ UNCHANGED <<rpos, given>> /\ Excuse(excuse)
  /\ UNCHANGED <<wire, held, shift, buff, wpos, console_lock, console_input_list, saved,
                 monitor>>

Next ==
  \/ UseKey
  \/ do_irq_keyboard \/ console_interrupt_turn \/ COM1_getc_turn \/ console_interrupt_end
  \/ monitor_getchar \/ command_continue
  \/ \E t \in Readers :
       \/ sys_cgetc(t) \/ send_signal(t) \/ check_signals(t) \/ signal_return(t) \/ do_exit(t)
       \/ console_getc(t) \/ console_getc_take(t)

Spec == Init /\ [][Next]_vars

-----------------------------------------------------------------------------
(* Properties.                                                             *)

\* How many characters are in the ring, and where the i-th of them is
Used == IF rpos <= wpos THEN wpos - rpos ELSE wpos - rpos + BuffSize
Cell(i) == IF rpos + i <= BuffSize THEN rpos + i - 1 ELSE rpos + i - 1 - BuffSize
Unread == [i \in 1 .. Used |-> buff[Cell(i)]]

\* The characters the maps and the serial port give
KeyChars == {1, 10, 13, 19, 33, 46, 47, 49, 63, 65, 83, 97, 115, KEY_DEL, 239}
Chars == KeyChars \cup (Serial \ {NO})

Queue == INSTANCE InputQueue WITH q <- Unread, Limit <- BuffSize

\* The ring of console_interrupt and console_getc, with positions that wrap
\* and with interrupts between a reader's sleep and its read, is a queue:
\* characters come out in the order typed and none goes to two readers, until
\* a full ring is taken for an empty one and all of it is forgotten.  One may
\* go to nobody: to the kernel monitor, or to the registers of a handler.
ImplementsInput == Queue!Spec

\* No modifier stays on by itself: once every byte was decoded, a bit of shift
\* is on only while a key of it is held, and no E0 escape is left to change
\* the next key, however the sequences were cut between interrupts and polls
\* (keyboard_getc).
NoStuckModifier ==
  wire = <<>> =>
    /\ "E0ESC" \notin shift
    /\ \A bit \in shift \cap {"SHIFT", "CTL", "ALT"} : \E k \in held : k.bit = bit

\* A reader woken by a key finds a character: there are never more readers
\* awake for a character than characters, unless the ring was lapped or one
\* was taken by a reader woken by a signal, by the second run of a call that
\* a handler interrupted, or by the kernel monitor (wakeup_interruptible in
\* console_interrupt against console_getc).
WokenFindInput ==
  ~excuse => Cardinality({t \in Readers : rd[t] = "key"}) <= Len(Unread)

\* The positions stay inside the ring, and the ring holds characters.
RingInv ==
  /\ rpos \in 0 .. BuffSize - 1 /\ wpos \in 0 .. BuffSize - 1
  /\ buff \in [0 .. BuffSize - 1 -> Chars \cup {NO}]

\* console_input_list holds the readers that sleep, each once, and only a
\* reader that was woken is in console_getc.
ReadersInv ==
  /\ rd \in [Readers -> {"user", "asleep", "key", "signal"}]
  /\ console_input_list \in Seq(Readers) /\ IsInjective(console_input_list)
  /\ \A t \in Readers : Contains(console_input_list, t) <=> rd[t] = "asleep"
  /\ polled \subseteq Readers /\ \A t \in polled : Awake(t)
  /\ saved \in [Readers -> Seq([polled : BOOLEAN, handler : BOOLEAN])]
  /\ excuse \in BOOLEAN

\* The inductive invariant behind the proofs of WokenFindInput and
\* ImplementsInput
IndInv == RingInv /\ ReadersInv /\ WokenFindInput
=============================================================================
