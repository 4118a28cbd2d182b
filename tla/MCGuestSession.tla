--------------------------- MODULE MCGuestSession ---------------------------
(* Small workloads for GuestSession.  A behaviour picks one of them, so    *)
(* that the state spaces of the cases add up instead of multiplying.       *)
EXTENDS GuestSession

Load == [calls |-> <<"plain">>, cancel |-> FALSE, deadline |-> FALSE, limit |-> 0,
         stdin |-> 0, chunk |-> 1, output |-> 2, breaks |-> FALSE]

MCLoads ==
    { \* three commands in turn, each of which may run out of advances
      [Load EXCEPT !.calls = <<"plain", "plain", "plain">>],
      \* stdin queued while two commands run, with a pipe in the guest
      [Load EXCEPT !.calls = <<"attached", "attached">>, !.stdin = 2, !.output = 0],
      \* the same without the pipe, followed by a plain command
      [Load EXCEPT !.calls = <<"interactive">>, !.stdin = 1],
      \* one buffer of stdin, too long for the UART's queue in the second load
      [Load EXCEPT !.calls = <<"buffered", "plain">>, !.output = 1],
      [Load EXCEPT !.calls = <<"buffered", "plain">>, !.output = 0, !.chunk = 3],
      \* a host that cancels, a deadline, an output limit, a failing provider
      [Load EXCEPT !.cancel = TRUE],
      [Load EXCEPT !.calls = <<"plain", "plain">>, !.deadline = TRUE, !.breaks = TRUE,
                   !.output = 1],
      [Load EXCEPT !.calls = <<"plain", "plain">>, !.limit = 1] }
=============================================================================
