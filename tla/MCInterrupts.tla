---------------------------- MODULE MCInterrupts ----------------------------
(* Interrupts with two CPUs, for TLC: CPU 0, the BSP, has two tasks, CPU 1 one. *)
EXTENDS Interrupts

MCTask == {"a", "b", "d"}
MChome == [t \in MCTask |-> IF t = "d" THEN 1 ELSE 0]
MCmessage ==
  [w \in MCTask \cup {"kbd", "panic"} |->
     CASE w = "a" -> <<ESC, "[", "3", "3", "m", "a", ESC, "[", "0", "m", "\t">>
       [] w = "b" -> <<>>
       [] w = "d" -> <<"d">>
       [] w = "kbd" -> <<"k">>
       [] w = "panic" -> <<"\n", ESC, "[", "4", "1", "m", "p">>]
MCexpected ==
  [w \in DOMAIN MCmessage |->
     CASE w = "a" -> <<Cell("a", 14), Blank, Blank, Blank, Blank>>
       [] w = "b" -> <<>>
       [] w = "d" -> <<Cell("d", 15)>>
       [] w = "kbd" -> <<Cell("k", 15)>>
       [] w = "panic" -> <<Cell("\n", 15), Cell("p", 79)>>]
MCwork ==
  [t \in MCTask |-> CASE t = "a" -> {"kprintf", "fault"}
                      [] t = "b" -> {"panic", "yield"}
                      [] t = "d" -> {"kprintf"}]
MCMaxTicks == [c \in {0, 1} |-> IF c = 0 THEN 1 ELSE 0]
MCMaxNmi == [c \in {0, 1} |-> IF c = 1 THEN 1 ELSE 0]
MCoverride_list == <<[source |-> 0, gsi |-> 2]>>
=============================================================================
