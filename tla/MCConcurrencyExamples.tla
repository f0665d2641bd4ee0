----------------------- MODULE MCConcurrencyExamples -----------------------
(* The examples of main for TLC, with the driver's values where they are     *)
(* small: four increments per thread; the driver's two transfers and two     *)
(* more over a third account; the divisors of lines 34, 35, 57 and 72; a     *)
(* flip count that the two threads do not share evenly.                      *)
EXTENDS ConcurrencyExamples
\* Only for increment_counter and transfer_money.
Jobs == INSTANCE CriticalSection WITH
    Threads <- {}, Program <- <<>>, Initial <- <<>>, block <- {}, cell <- <<>>, owner <- <<>>,
    job <- <<>>, at <- <<>>, pc <- <<>>, reg <- <<>>
MCWorkers == {"t1", "t2"}
MCInitial ==
    [b \in {"counter", "transfers"} |->
        IF b = "counter" THEN [c \in {"counter"} |-> 0]
        ELSE [c \in {"account0", "account1", "account2"} |->
                 CASE c = "account0" -> 546 [] c = "account1" -> 123 [] OTHER -> 0]]
MCProgram ==
    [b \in {"counter", "transfers"} |-> [t \in MCWorkers |->
        CASE b = "counter" -> Jobs!increment_counter(4)
          [] b = "transfers" /\ t = "t1" ->
                <<Jobs!transfer_money("account0", "account1", 100),
                  Jobs!transfer_money("account2", "account0", 7)>>
          [] b = "transfers" /\ t = "t2" ->
                <<Jobs!transfer_money("account1", "account0", 50),
                  Jobs!transfer_money("account1", "account2", 3)>>]]
MCDivisors == {[w \in {"p", "p1", "packaged", "async"} |-> IF w = "p1" THEN "zero" ELSE "nonzero"]}
MCLatchThreads == {"t1", "t2", "t3"}
MCDiceThreads == {"t1", "t2", "t3"}
MCConsumers == {"consumer0", "consumer1"}
MCFlips == <<9, 4>>
=============================================================================
