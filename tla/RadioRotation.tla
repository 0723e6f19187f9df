----------------------------- MODULE RadioRotation -----------------------------
(***************************************************************************)
(* What the LoRa/RF24 receiver promises: it serves its windows in a fixed  *)
(* cycle, in each window it listens on one module of the window's kind,    *)
(* stops listening before it moves on, and never stops going round.        *)
(***************************************************************************)
EXTENDS Naturals

VARIABLES
  turn,    \* the current window
  served,  \* has this window's module been opened?
  active   \* the kind of module that is listening

vars == <<turn, served, active>>

Kind(w) == CASE w \in {1, 3, 5} -> "rf" [] w \in {2, 4} -> "lora" [] OTHER -> "none"

Init == turn = 0 /\ served = FALSE /\ active = "none"

Open ==
  /\ ~served
  /\ served' = TRUE /\ active' = Kind(turn)
  /\ UNCHANGED turn

Close ==
  /\ active # "none"
  /\ active' = "none"
  /\ UNCHANGED <<turn, served>>

Advance ==
  /\ served /\ active = "none"
  /\ turn' = (turn + 1) % 6 /\ served' = FALSE
  /\ UNCHANGED active

Next == Open \/ Close \/ Advance
Spec == Init /\ [][Next]_vars /\ WF_vars(Next)
===============================================================================
