--------------------------- MODULE CommandService ---------------------------
(* What the command link promises the operator: on each connection, commands  *)
(* are executed at most once and in the order in which they were given, and   *)
(* nothing is executed that was not given.  Between connections it promises   *)
(* nothing.                                                                   *)
EXTENDS Naturals, Sequences

CONSTANT Conns

VARIABLES
    given,      \* how many commands were given on each connection
    executed    \* what was executed: a sequence of [conn, seq]

serviceVars == <<given, executed>>

Init == given = [c \in Conns |-> 0] /\ executed = <<>>

Give(c) ==
    /\ given' = [given EXCEPT ![c] = @ + 1]
    /\ UNCHANGED executed

Later(c, s) == \A i \in DOMAIN executed : executed[i].conn = c => executed[i].seq < s

Execute(c, s) ==
    /\ s <= given[c] /\ Later(c, s)
    /\ executed' = Append(executed, [conn |-> c, seq |-> s])
    /\ UNCHANGED given

Next == \E c \in Conns : Give(c) \/ \E s \in 1..given[c] : Execute(c, s)

Spec == Init /\ [][Next]_serviceVars
=============================================================================
