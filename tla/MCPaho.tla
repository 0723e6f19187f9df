-------------------------------- MODULE MCPaho ---------------------------------
(***************************************************************************)
(* Two views of the Paho client library, which are about different parts   *)
(* of its state: each behaviour is one of one of them, the rest standing   *)
(* still.                                                                  *)
(***************************************************************************)
EXTENDS ClientThreads, PacketStream

VARIABLE part   \* the view

pahoVars == <<part, threadVars, streamVars>>

\* Two sockets: a packet without data, one whose length takes two digits, and
\* a shorter one; one packet to write, of two buffers and a header.
Received == <<<<0, 2>>, <<1>>>>
Written == <<<<<<1, 2>>>>, <<>>>>

PahoInit ==
  /\ part \in {"threads", "stream"}
  /\ ThreadsInit /\ StreamInit

PahoNext ==
  /\ UNCHANGED part
  /\ \/ part = "threads" /\ ThreadsNext /\ UNCHANGED streamVars
     \/ part = "stream" /\ StreamNext /\ UNCHANGED threadVars

\* Each view's own fairness, when it is the one that runs.
PahoFairness ==
  /\ WF_threadVars(part = "threads" /\ AppGoesOn) /\ WF_threadVars(part = "threads" /\ RunGoesOn)
  /\ WF_threadVars(part = "threads" /\ WaitEnds /\ Unanswerable)
  /\ WF_threadVars(part = "threads" /\ NetworkAnswers)
  /\ \A f \in Descriptors : SF_threadVars(part = "threads" /\ RunSelect(f))
  /\ WF_streamVars(part = "stream" /\ StreamReads) /\ WF_streamVars(part = "stream" /\ BrokerSide)
  /\ \A s \in Streams : /\ SF_streamVars(part = "stream" /\ ContinueWrite(s))
                         /\ SF_streamVars(part = "stream" /\ SelectReady(s))

PahoSpec == PahoInit /\ [][PahoNext]_pahoVars /\ PahoFairness
================================================================================
