--------------------------- MODULE MCStubbornSets ---------------------------
(***************************************************************************)
(* StubbornSets on a task with conditional effects, one of which has to be *)
(* enabled, and on small ones with an effect that another operator disarms *)
(* and with a conflict that goes unnoticed.                                *)
(***************************************************************************)
EXTENDS StubbornSets

Sets(v, x) == [fact |-> <<v, x>>, cond |-> {}]
SetsIf(v, x, cond) == [fact |-> <<v, x>>, cond |-> cond]

\* Values of the variables 1 and 2 (an item), 3 (the machine), 4 (the worker)
\* and 5 (the surface of the first item).
Raw == 0
Done == 1
Cut == 2
Cold == 0
Warm == 1
Here == 0
There == 1
Dull == 0
Shiny == 1

\* One item is cut by a machine that cools down, finished by a worker
\* elsewhere, and polished, which has an effect only if the machine is warm
\* again.  A second item is made from the first or directly; if it is done,
\* the first one is shiny when it is finished, otherwise dull.
MCVar == 1..5
MCDomain == <<{Raw, Cut, Done}, {Raw, Done}, {Cold, Warm}, {Here, There}, {Dull, Shiny}>>
MCOp == 1..8
MCCost == [o \in MCOp |-> IF o = 8 THEN 0 ELSE IF o = 6 THEN 2 ELSE 1]
MCPre == [o \in MCOp |->
    CASE o = 1 -> {<<1, Raw>>, <<3, Warm>>, <<4, Here>>}
      [] o = 2 -> {<<1, Cut>>, <<4, There>>}
      [] o = 3 -> {<<2, Raw>>, <<4, Here>>}
      [] o = 4 -> {}
      [] o = 5 -> {<<4, Here>>}
      [] o = 6 -> {<<4, There>>}
      [] o = 7 -> {<<1, Cut>>, <<2, Raw>>}
      [] o = 8 -> {<<1, Done>>}]
MCEffects == [o \in MCOp |->
    CASE o = 1 -> {Sets(1, Cut), Sets(3, Cold)}
      [] o = 2 -> {Sets(1, Done), SetsIf(5, Dull, {<<2, Raw>>}), SetsIf(5, Shiny, {<<2, Done>>})}
      [] o = 3 -> {Sets(2, Done)}
      [] o = 4 -> {Sets(3, Warm)}
      [] o = 5 -> {Sets(4, There)}
      [] o = 6 -> {Sets(4, Here)}
      [] o = 7 -> {Sets(1, Raw), Sets(2, Done)}
      [] o = 8 -> {SetsIf(5, Shiny, {<<3, Warm>>})}]
MCInitialState == <<Raw, Raw, Cold, There, Dull>>
MCGoal == {<<1, Done>>, <<2, Done>>, <<5, Shiny>>}

\* The ec variant does not look for operators that enable an effect, so it is
\* asked only about states in which polishing has its effect or must wait for
\* something else.
EffectIsEnabled == variant = "ec" /\ Applicable(state, 8) => state[3] = Warm

No == 0
Yes == 1

\* The lamp (1 lit, 3 stands) falls over if it is lit in the draught: close the
\* window (2) first.
CEVar == 1..3
CEDomain == [v \in CEVar |-> {No, Yes}]
CEOp == 1..2
CECost == [o \in CEOp |-> 1]
CEPre == [o \in CEOp |-> {}]
CEEffects == [o \in CEOp |->
    IF o = 1 THEN {Sets(1, Yes), SetsIf(3, No, {<<2, No>>})} ELSE {Sets(2, Yes)}]
CEInitialState == <<No, No, Yes>>
CEGoal == {<<1, Yes>>, <<3, Yes>>}

\* A switch lights the lamp (1) or puts it out; cleaning (2) leaves it out.
\* The values the two operators set, No and Yes against No, agree in the first
\* place.
SWVar == 1..2
SWDomain == [v \in SWVar |-> {No, Yes}]
SWOp == 1..2
SWCost == [o \in SWOp |-> 1]
SWPre == [o \in SWOp |-> {}]
SWEffects == [o \in SWOp |->
    IF o = 1 THEN {SetsIf(1, Yes, {<<1, No>>}), SetsIf(1, No, {<<1, Yes>>})}
    ELSE {Sets(1, No), Sets(2, Yes)}]
SWInitialState == <<No, No>>
SWGoal == {<<1, Yes>>, <<2, Yes>>}
=============================================================================
