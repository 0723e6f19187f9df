----------------------------- MODULE PinInterrupts -----------------------------
(***************************************************************************)
(* The interrupt threads of interrupt.c: attachInterrupt starts a thread   *)
(* for a pin and hands it the number through pinPass, under pinMutex;      *)
(* the thread calls the user's function under the same mutex for every     *)
(* edge; detachInterrupt cancels it.  The gpio program that sets a pin's   *)
(* edge is external; a pin is attached once (see the README).              *)
(***************************************************************************)
EXTENDS Integers, FiniteSets

CONSTANTS
  IrqPins,      \* the pins; one application thread attaches and detaches each
  MaxEdges      \* edges at a pin

ASSUME IrqAssumption == IrqPins \subseteq 0 .. 63 /\ MaxEdges \in Nat

VARIABLES
  pinPass, pinMutex,   \* the number handed over, -1 when taken; who holds the mutex
  attacher,            \* where the application's thread of a pin is
  handler,             \* the thread of a pin: where it is, myPin, and a cancellation asked for
  sysFd,               \* "none", "open", "closed"
  edges,               \* per pin: edges seen by the kernel and not read, and edges in all
  isr                  \* ghost: how often isrFunctions was called for a pin

irqVars == <<pinPass, pinMutex, attacher, handler, sysFd, edges, isr>>

Unlocked == "free"
IrqInit ==
  /\ pinPass = -1 /\ pinMutex = Unlocked
  /\ attacher = [p \in IrqPins |-> "start"]
  /\ handler = [p \in IrqPins |-> [at |-> "none", myPin |-> -1, cancel |-> FALSE]]
  /\ sysFd = [p \in IrqPins |-> "none"]
  /\ edges = [p \in IrqPins |-> [pending |-> FALSE, seen |-> 0]]
  /\ isr = [p \in IrqPins |-> 0]

\* The value file is opened and read empty, and the function is set, before the mutex is taken.
OpenValue(p) ==
  /\ attacher[p] = "start"
  /\ sysFd' = [sysFd EXCEPT ![p] = "open"]
  /\ edges' = [edges EXCEPT ![p] = [pending |-> FALSE, seen |-> 0]]
  /\ attacher' = [attacher EXCEPT ![p] = "lock"]
  /\ UNCHANGED <<pinPass, pinMutex, handler, isr>>

\* Mutant: the number is set and the thread started without the mutex.
MutantMayPass == TRUE

MayPass == pinMutex = Unlocked
PassPin(p) ==
  /\ attacher[p] = "lock" /\ MayPass
  /\ pinMutex' = "attach"
  /\ pinPass' = p
  /\ handler' = [handler EXCEPT ![p].at = "take"]
  /\ attacher' = [attacher EXCEPT ![p] = "passed"]
  /\ UNCHANGED <<sysFd, edges, isr>>

\* The attaching thread keeps the mutex until the number was taken.
PassDone(p) ==
  /\ attacher[p] = "passed" /\ pinPass = -1
  /\ pinMutex' = Unlocked
  /\ attacher' = [attacher EXCEPT ![p] = "attached"]
  /\ UNCHANGED <<pinPass, handler, sysFd, edges, isr>>

\* The first thing a new thread does.
TakePin(p) ==
  /\ handler[p].at = "take"
  /\ handler' = [handler EXCEPT ![p].at = "poll", ![p].myPin = pinPass]
  /\ pinPass' = -1
  /\ UNCHANGED <<pinMutex, attacher, sysFd, edges, isr>>

PinEdge(p) ==
  /\ sysFd[p] = "open" /\ edges[p].seen < MaxEdges
  /\ edges' = [edges EXCEPT ![p] = [pending |-> TRUE, seen |-> @.seen + 1]]
  /\ UNCHANGED <<pinPass, pinMutex, attacher, handler, sysFd, isr>>

\* poll is where a cancelled thread ends; otherwise it returns for an edge, which the read clears.
waitForInterrupt(p) ==
  /\ handler[p].at = "poll" /\ handler[p].myPin # -1
  /\ LET pin == handler[p].myPin IN
     \/ /\ handler[p].cancel
        /\ handler' = [handler EXCEPT ![p].at = "ended"] /\ UNCHANGED edges
     \/ /\ ~handler[p].cancel /\ edges[pin].pending
        /\ edges' = [edges EXCEPT ![pin].pending = FALSE]
        /\ handler' = [handler EXCEPT ![p].at = "lock"]
  /\ UNCHANGED <<pinPass, pinMutex, attacher, sysFd, isr>>

EnterIsr(p) ==
  /\ handler[p].at = "lock" /\ pinMutex = Unlocked
  /\ pinMutex' = "isr"
  /\ isr' = [isr EXCEPT ![handler[p].myPin] = @ + 1]
  /\ handler' = [handler EXCEPT ![p].at = "isr"]
  /\ UNCHANGED <<pinPass, attacher, sysFd, edges>>

\* pthread_testcancel follows the unlock.
LeaveIsr(p) ==
  /\ handler[p].at = "isr"
  /\ pinMutex' = Unlocked
  /\ handler' = [handler EXCEPT ![p].at = IF handler[p].cancel THEN "ended" ELSE "poll"]
  /\ UNCHANGED <<pinPass, attacher, sysFd, edges, isr>>

\* The cancellation is only asked for: a thread that has seen its edge still calls the function.
detachInterrupt(p) ==
  /\ attacher[p] = "attached"
  /\ handler' = [handler EXCEPT ![p].cancel = TRUE]
  /\ sysFd' = [sysFd EXCEPT ![p] = "closed"]
  /\ attacher' = [attacher EXCEPT ![p] = "detached"]
  /\ UNCHANGED <<pinPass, pinMutex, edges, isr>>

rfNoInterrupts == pinMutex = Unlocked /\ pinMutex' = "rf" /\ UNCHANGED <<pinPass, attacher, handler, sysFd, edges, isr>>
rfInterrupts == pinMutex = "rf" /\ pinMutex' = Unlocked /\ UNCHANGED <<pinPass, attacher, handler, sysFd, edges, isr>>

IrqNext ==
  \/ \E p \in IrqPins :
       \/ OpenValue(p) \/ PassPin(p) \/ PassDone(p) \/ TakePin(p) \/ PinEdge(p)
       \/ waitForInterrupt(p) \/ EnterIsr(p) \/ LeaveIsr(p) \/ detachInterrupt(p)
  \/ rfNoInterrupts \/ rfInterrupts

(***************************************************************************)
(* Properties                                                              *)
(***************************************************************************)
\* With several threads attaching at once every interrupt thread serves the pin it was started for
\* and attachInterrupt returns only once it does; a user function runs at most once for an edge,
\* never two at a time, and never between rfNoInterrupts and rfInterrupts.
InterruptsSound ==
  /\ \A p \in IrqPins : handler[p].at \notin {"none", "take"} => handler[p].myPin = p
  /\ \A p \in IrqPins : attacher[p] \in {"attached", "detached"} => handler[p].myPin = p
  /\ \A p \in IrqPins : isr[p] <= edges[p].seen
  /\ Cardinality({p \in IrqPins : handler[p].at = "isr"}) <= (IF pinMutex = "isr" THEN 1 ELSE 0)
================================================================================
