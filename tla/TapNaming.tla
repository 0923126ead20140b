------------------------------ MODULE TapNaming ------------------------------
(***************************************************************************)
(* The host interface name of an instance. AllocateTAP and ReleaseTAP each *)
(* build "dvr-t-inst-" followed by the decimal digits of n and keep the    *)
(* first 15 characters, which leaves the digits 15 - 11 = 4 places. Digits *)
(* have no leading zero, so a name is known by the number they read as.    *)
(***************************************************************************)
EXTENDS Naturals

CONSTANTS
  Base,   \* 10: how vmSeq is written in an id
  Room    \* 4: digits that fit into an interface name

ASSUME NamingAssumption ==
  /\ Base \in Nat /\ Base > 1
  /\ Room \in Nat /\ Room > 0
  /\ Base ^ Room \in Nat

FirstDigits(n) ==
  LET drop == CHOOSE k \in 1..n : n \div (Base ^ k) \in Base ^ (Room - 1) .. Base ^ Room - 1
  IN  n \div (Base ^ drop)

TapName(n) == IF n < Base ^ Room THEN n ELSE FirstDigits(n)

=============================================================================
