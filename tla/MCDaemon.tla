------------------------------ MODULE MCDaemon ------------------------------
(* The instance of Daemon for TLC.                                          *)
EXTENDS Daemon

(* 2 and 5 replace each other, 8 leaves too little, 201 is refused.         *)
User(who) ==
    [ user |-> who, faults |-> FaultKinds, rates |-> {2, 5, 8, 201}, crashes |-> 1,
      swaps |-> 0, goroutines |-> 0, balance |-> 9 ]

(* Of a balance of 7 one swap takes 4 and leaves nothing to swap, of 10 a   *)
(* second one takes 2, of 8 one takes the excess; of 6 the excess is less   *)
(* than the maximum.  A swap of 5 may have a routing fee of 1.              *)
Auto == [ user |-> "auto", faults |-> {}, rates |-> {2}, crashes |-> 0,
          swaps |-> 2, goroutines |-> 1, balance |-> 7 ]

(* A user's swap-out is of 1: a balance of 0 cannot pay it.                 *)
(* Two swaps multiply the states: each scenario has some of the failures.   *)
(* Without goroutines a swap stays on the list until the daemon restarts.   *)
Scenarios ==
    { User("out"), User("in"),
      [User("out") EXCEPT !.faults = {}, !.balance = 0],
      [Auto EXCEPT !.faults = {"save_fails"}],
      [Auto EXCEPT !.faults = {"pay_ambiguous"}],
      [Auto EXCEPT !.faults = {"timeout"}, !.swaps = 1, !.balance = 8],
      [Auto EXCEPT !.crashes = 1, !.balance = 10, !.goroutines = 0],
      [Auto EXCEPT !.swaps = 1, !.goroutines = 2, !.balance = 6,
                   !.crashes = 1] }

=============================================================================
