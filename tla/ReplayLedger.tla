---------------------------- MODULE ReplayLedger ----------------------------
(***************************************************************************)
(* What the nonce ledger of the Authority Broker promises, without saying  *)
(* how: broker.py keeps "a consumed nonce ... in the replay ledger at      *)
(* least as long as any token that could carry it remains valid", so a     *)
(* nonce accepted with expiry e is not accepted again before e.            *)
(*                                                                         *)
(* A nonce's window is the expiry it was last accepted with; uses counts   *)
(* its acceptances, so that one repeated with the same expiry is seen.  A  *)
(* restarted broker process has forgotten both.                            *)
(***************************************************************************)
EXTENDS Integers

CONSTANTS Nonce

VARIABLES clock, window, uses

vars == <<clock, window, uses>>

\* The window of a nonce that was never accepted: closed at every time.
NoWindow == -1

Init ==
  /\ clock = 0
  /\ window = [n \in Nonce |-> NoWindow]
  /\ uses = [n \in Nonce |-> 0]

Tick ==
  /\ clock' = clock + 1
  /\ UNCHANGED <<window, uses>>

\* The promise: a nonce is accepted only when its earlier window is closed.
Accept(n) ==
  /\ window[n] <= clock
  /\ window'[n] \in Nat
  /\ window' = [window EXCEPT ![n] = window'[n]]
  /\ uses' = [uses EXCEPT ![n] = @ + 1]
  /\ UNCHANGED clock

Forget ==
  /\ window' = [n \in Nonce |-> NoWindow]
  /\ uses' = [n \in Nonce |-> 0]
  /\ UNCHANGED clock

Next ==
  \/ Tick
  \/ Forget
  \/ \E n \in Nonce : Accept(n)

Spec == Init /\ [][Next]_vars
=============================================================================
