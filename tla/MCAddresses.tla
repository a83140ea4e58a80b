---------------------------- MODULE MCAddresses ----------------------------
(* A small instance of Addresses: two addresses of two owners, offers that *)
(* collide on the hash and on the index, and sheets of each kind, which    *)
(* tie where both owners send the same.                                    *)
EXTENDS Addresses, TLC

CONSTANTS a1, a2

MCOffers == {<<a1, 1, 1>>, <<a2, 1, 2>>, <<a2, 1, 1>>}

\* Runs and calls are interchangeable.
RunSymmetry == Permutations(Runs) \cup Permutations(Calls)

Private == [expires |-> Never, expiryMode |-> "", public |-> NoText,
            listed |-> Never, disabled |-> FALSE, disabledMode |-> "",
            hours |-> NoHours]
SaturdayNoon == [mode |-> "silent",
                 days |-> [d \in 0 .. 6 |-> IF d = 5 THEN [from |-> 1, to |-> 2]
                                            ELSE Shut]]
Public == [Private EXCEPT !.public = 1]

MCSheets ==
  {[Public EXCEPT !.listed = 0, !.expires = 1, !.expiryMode = "silent"],
   [Public EXCEPT !.public = 2, !.listed = 1, !.hours = SaturdayNoon],
   [Private EXCEPT !.disabled = TRUE, !.disabledMode = "silent"],
   [Private EXCEPT !.listed = 0],                      \* not public
   [Public EXCEPT !.expires = 1]}                      \* no mode
=============================================================================
