------------------------------- MODULE SpiClient -------------------------------
(***************************************************************************)
(* The SPI client, clientSPI.c, and its node, SPIuser.ino.  The node puts  *)
(* the next character of its frame into the shift register every 50 ms;    *)
(* the thread reads one every 50 ms.  Nothing keeps the two in step, so a  *)
(* character may be read twice or not at all.                              *)
(***************************************************************************)
EXTENDS Integers, Sequences

CONSTANTS
  MsgSize,   \* sizeof(msgReceive1): 50 in the code (line 32)
  MaxSlips,  \* bound: characters lost or read twice
  MaxPolls   \* bound: requests between two checks (line 96)

\* {"keynode":97,"Temp":37}: its braces, the key, and the two digits of the value.
SpiFrame == <<"open", "key", "3", "7", "close">>
Temp == <<"3", "7">>

\* The code's 50 bytes hold two of the node's frames of 24 characters.
ASSUME MsgSizeAssumption == MsgSize \in Nat /\ MsgSize >= 2 * Len(SpiFrame)

VARIABLES
  asked,        \* the node's process: has it seen "b*"?
  spiK,         \* the node's k: the place in its frame of the character in SPDR
  fresh,        \* has the thread not read that character yet?
  flag1, ka, msgReceive1,    \* the framer of threadfunction1
  spilled,      \* a character was written past the end of msgReceive1
  flag_no_receive,           \* may the thread read?
  flagDetecCount, flagDetect,
  spiSent,      \* what was last sent to the gateway, and was it read in step?
  spiSlips,     \* characters lost or read twice so far
  inStep        \* none of them since the frame in msgReceive1 was begun

framer == <<flag1, ka, msgReceive1, spilled>>
detection == <<flag_no_receive, flagDetecCount, flagDetect>>
spiVars == <<asked, spiK, fresh, framer, detection, spiSent, spiSlips, inStep>>

SpiInit ==
  /\ asked = FALSE /\ spiK = 1 /\ fresh = FALSE
  /\ flag1 = 0 /\ ka = 0 /\ msgReceive1 = <<>> /\ spilled = FALSE
  /\ flag_no_receive = 0 /\ flagDetecCount = 0 /\ flagDetect = 0
  /\ spiSent = [value |-> <<>>, inStep |-> TRUE] /\ spiSlips = 0 /\ inStep = TRUE

\* sendRequestToNode, lines 189-192: the thread stops reading ...
SpiRequest ==
  /\ flag_no_receive' = 0 /\ flagDetecCount < MaxPolls /\ flagDetecCount' = flagDetecCount + 1
  /\ UNCHANGED <<asked, spiK, fresh, framer, flagDetect, spiSent, spiSlips, inStep>>

\* ... lines 195-208: "b*" goes to the node, and the thread goes on.
SpiWrite ==
  /\ flag_no_receive = 0 /\ flagDetecCount > 0
  /\ flag_no_receive' = 1 /\ asked' = TRUE
  /\ UNCHANGED <<spiK, fresh, framer, flagDetecCount, flagDetect, spiSent, spiSlips, inStep>>

MutantNextK == IF spiK = 3 THEN 5 ELSE (spiK % Len(SpiFrame)) + 1

NextK == (spiK % Len(SpiFrame)) + 1

\* SPIuser.ino, lines 83-119.
NodeShifts ==
  /\ asked /\ (fresh => spiSlips < MaxSlips)
  /\ spiK' = NextK /\ fresh' = TRUE
  /\ spiSlips' = IF fresh THEN spiSlips + 1 ELSE spiSlips
  /\ inStep' = (inStep /\ ~fresh)
  /\ UNCHANGED <<asked, framer, detection, spiSent>>

\* What json_tokener_parse makes of the text: a key and a number, or nothing.
Digits(s) == Len(s) > 0 /\ \A i \in DOMAIN s : s[i] \in {"3", "7"}
Parsed(text) ==
  LET n == Len(text)
  IN IF n > 3 /\ text[1] = "open" /\ text[2] = "key" /\ Digits(SubSeq(text, 3, n - 1))
     THEN SubSeq(text, 3, n - 1) ELSE <<>>

\* The text so far with c at its place ka.
Placed(c) == SubSeq(msgReceive1, 1, ka) \o <<c>>

\* A mutant: the end of a frame does not empty the buffer.
MutantFramed(c) ==
  /\ flag1' = 1 /\ UNCHANGED <<spiSent, flagDetect, spilled>>
  /\ IF ka < MsgSize THEN msgReceive1' = Placed(c) /\ ka' = ka + 1 ELSE UNCHANGED <<msgReceive1, ka>>

\* Lines 120-167; this node never sends a '.'.  The index is not checked: past
\* the end the character lands in a neighbour of the array: in the flag, in the
\* index (0 stands for any place within the array, MsgSize for any past its end),
\* or in nothing that matters.
Framed(c) ==
  LET past == ka >= MsgSize
  IN IF c = "close" /\ msgReceive1 # <<>> /\ msgReceive1[1] = "open"
     THEN /\ ka' = 0 /\ flag1' = 0 /\ msgReceive1' = <<>> /\ spilled' = (spilled \/ past)
          /\ LET value == Parsed(Placed(c))
             IN IF value = <<>> THEN UNCHANGED <<spiSent, flagDetect>>
                ELSE spiSent' = [value |-> value, inStep |-> inStep /\ fresh] /\ flagDetect' = 1
     ELSE /\ UNCHANGED <<spiSent, flagDetect>>
          /\ IF c # "open" /\ flag1 = 0
             THEN UNCHANGED framer
             ELSE IF past
             THEN /\ spilled' = TRUE /\ UNCHANGED msgReceive1
                  /\ flag1' \in {0, 1} /\ ka' \in {0, MsgSize}
             ELSE /\ flag1' = 1 /\ msgReceive1' = Placed(c) /\ ka' = ka + 1 /\ UNCHANGED spilled

\* threadfunction1, lines 93-170, with the check of lines 96-108.
SpiRead ==
  /\ flag_no_receive = 1 /\ flagDetecCount <= 3
  /\ asked /\ (fresh \/ spiSlips < MaxSlips)
  /\ fresh' = FALSE
  /\ spiSlips' = IF fresh THEN spiSlips ELSE spiSlips + 1
  /\ LET c == SpiFrame[spiK]
     IN /\ Framed(c)
        /\ inStep' = IF c = "open" /\ ka = 0 THEN fresh ELSE inStep /\ fresh
  /\ UNCHANGED <<asked, spiK, flag_no_receive, flagDetecCount>>

SpiDetect ==
  /\ flag_no_receive = 1 /\ flagDetecCount > 3
  /\ flagDetecCount' = 0 /\ flagDetect' = 0
  /\ UNCHANGED <<asked, spiK, fresh, framer, flag_no_receive, spiSent, spiSlips, inStep>>

SpiNext == SpiRequest \/ SpiWrite \/ NodeShifts \/ SpiRead \/ SpiDetect
SpiFairness ==
  /\ WF_spiVars(SpiRequest) /\ WF_spiVars(SpiWrite) /\ WF_spiVars(NodeShifts)
  /\ SF_spiVars(SpiRead) /\ SF_spiVars(SpiDetect)
SpiSpec == SpiInit /\ [][SpiNext]_spiVars /\ SpiFairness
-------------------------------------------------------------------------------
\* Properties.

\* A value reaches the gateway wrong only when a character of its own frame was
\* lost or read twice: what went wrong in an earlier frame, such as a lost end,
\* spoils no later one until the joined frames run past the end of msgReceive1,
\* for which one lost or doubled character is not enough.
ValueFromOneFrame ==
  /\ spiSent.inStep /\ ~spilled => spiSent.value \in {<<>>, Temp}
  /\ spilled => spiSlips >= 2

\* The framer finds its way back: while the node sends, the thread is again and
\* again between two frames with an empty buffer, unless joined frames have run
\* past the end of the buffer (line 165), after which nothing is promised.
FramerResyncs == (ka > 0) ~> (ka = 0 \/ spilled)
================================================================================
