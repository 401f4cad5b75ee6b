----------------------------- MODULE MCTripSchedule -----------------------------
(***************************************************************************)
(* A small instance of TripSchedule: days from 09:00 to 20:00, the same    *)
(* with late driving, and days that end at 14:00; routes over a zone       *)
(* border in both directions; visits whose calendars are open every day,   *)
(* on one day only, at night or at a fixed time.                           *)
(***************************************************************************)
EXTENDS TripSchedule

Anytime == [any |-> TRUE, windows |-> {}, fixed |-> {}]
Hours(days, opens, closes) == [any |-> FALSE, windows |-> {<<48 * d + opens, 48 * d + closes>> : d \in days}, fixed |-> {}]
Fixed(t) == [Hours(-1..3, 20, 40) EXCEPT !.fixed = {t}]

Policy(preferred, latest, late) ==
  [preferred |-> preferred, latest |-> latest, destination |-> 48, restart |-> 18, late |-> late, lateCutoff |-> 48]
MCPolicies == {Policy(36, 40, FALSE), Policy(36, 40, TRUE), Policy(24, 28, FALSE), [Policy(36, 40, TRUE) EXCEPT !.destination = 33]}
MCRoutes == {[drive |-> d, border |-> b, shift |-> s] : d \in {10, 30}, b \in {8, 17}, s \in {-2, 2}}
MCVisits ==
  {[position |-> p, detour |-> 2, dwell |-> 4, calendar |-> c] :
     p \in {5, 9, 29}, c \in {Anytime, Hours(-1..3, 24, 32), Hours({1}, 20, 36), Hours({2}, 0, 28), Hours(-1..3, 40, 50), Fixed(74)}}
=============================================================================
