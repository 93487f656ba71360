----------------------------- MODULE FlowControl -----------------------------
(***************************************************************************)
(* The receiver's flow controller, quiche/src/flowcontrol.rs.  A value of  *)
(* FlowControl is one record; each method is an operator that returns the  *)
(* new record or the query's answer.  The clock is abstracted: last_update *)
(* only records that a limit was committed before, and `recent' is the     *)
(* outcome of comparing the time since then with twice the RTT.            *)
(***************************************************************************)
EXTENDS Naturals

WINDOW_INCREASE_FACTOR == 2

Smaller(a, b) == IF a <= b THEN a ELSE b
Larger(a, b) == IF a >= b THEN a ELSE b

FlowControlType == [consumed    : Nat,
                    max_data    : Nat,
                    window      : Nat,
                    max_window  : Nat,
                    last_update : BOOLEAN]

new(max_data, window, max_window) ==
    [consumed    |-> 0,
     max_data    |-> max_data,
     window      |-> window,
     max_window  |-> max_window,
     last_update |-> FALSE]

add_consumed(fc, n) == [fc EXCEPT !.consumed = @ + n]

\* `available_window < window / 2', written without the unsigned subtraction;
\* StreamCredit and CountersAreSums (ConnFlow) show that it cannot wrap.
should_update_max_data(fc) == fc.max_data < fc.consumed + fc.window \div 2

max_data_next(fc) == fc.consumed + fc.window

\* Mutant: the limit that was sent is not committed.
update_max_data_uncommitted(fc) == [fc EXCEPT !.last_update = TRUE]

update_max_data(fc) ==
    [fc EXCEPT !.max_data = max_data_next(fc), !.last_update = TRUE]

\* Mutant: the window is halved when updates are far apart.
autotune_window_decay(fc, recent) ==
    IF fc.last_update /\ ~recent THEN [fc EXCEPT !.window = @ \div 2] ELSE fc

autotune_window(fc, recent) ==
    IF fc.last_update /\ recent
    THEN [fc EXCEPT !.window =
              Smaller(@ * WINDOW_INCREASE_FACTOR, fc.max_window)]
    ELSE fc

ensure_window_lower_bound(fc, min_window) ==
    [fc EXCEPT !.window = Larger(@, min_window)]
=============================================================================
