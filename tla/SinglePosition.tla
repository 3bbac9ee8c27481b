---------------------------- MODULE SinglePosition ----------------------------
(***************************************************************************)
(* What a backtest promises of its trades, without signals, prices or a    *)
(* gate: there is one at a time, none is held for more than MaxHeld bars,  *)
(* a pause of more than Pause bars follows each, and a trade once recorded *)
(* stays as it is.                                                         *)
(***************************************************************************)
EXTENDS Integers, Sequences

CONSTANTS MaxHeld, Pause

VARIABLES
    now,     \* the bar
    open,    \* the bar the open trade began at, in a sequence of at most one
    log      \* the trades there were, as the bars they began and ended at

vars == <<now, open, log>>

Rested == log = << >> \/ now > log[Len(log)].to + Pause

Init == now = 1 /\ open = << >> /\ log = << >>

Enter ==
    /\ open = << >> /\ Rested
    /\ open' = <<now>>
    /\ UNCHANGED <<now, log>>

Leave ==
    /\ open # << >>
    /\ log' = Append(log, [from |-> open[1], to |-> now])
    /\ open' = << >>
    /\ UNCHANGED now

\* Time does not pass the last bar of an open trade.
Tick ==
    /\ open # << >> => now - open[1] + 1 < MaxHeld
    /\ now' = now + 1
    /\ UNCHANGED <<open, log>>

Next == Enter \/ Leave \/ Tick

Spec == Init /\ [][Next]_vars
=============================================================================
