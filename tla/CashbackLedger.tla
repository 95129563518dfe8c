--------------------------- MODULE CashbackLedger ---------------------------
(***************************************************************************)
(* The books of a client's cashback in a group of organizations: promos    *)
(* are granted once each; a deal spends no more than the balance and adds  *)
(* what it accrues; a refund undoes exactly what its deal did, whatever    *)
(* happened to the balance meanwhile.                                      *)
(***************************************************************************)
EXTENDS Integers

CONSTANTS Deals, Grants, Promo
VARIABLES grants,    \* promos received
          balance,   \* the client's cashback in the whole group
          standing   \* what each deal that stands has spent and accrued

vars == <<grants, balance, standing>>

NoEffect == [spent |-> 0, accrued |-> 0]

Init ==
  /\ grants = {}
  /\ balance = 0
  /\ standing = [d \in Deals |-> NoEffect]

Grant(g) ==
  /\ g \notin grants
  /\ grants' = grants \union {g}
  /\ balance' = balance + Promo
  /\ UNCHANGED standing

Complete(d) ==
  LET effect == standing'[d] IN
  /\ standing[d] = NoEffect
  /\ standing' = [standing EXCEPT ![d] = effect]
  /\ effect.spent > 0 => effect.spent <= balance
  /\ balance' = balance - effect.spent + effect.accrued
  /\ UNCHANGED grants

Refund(d) ==
  /\ standing' = [standing EXCEPT ![d] = NoEffect]
  /\ balance' = balance + standing[d].spent - standing[d].accrued
  /\ UNCHANGED grants

Next ==
  \/ \E g \in Grants : Grant(g)
  \/ \E d \in Deals : Complete(d) \/ Refund(d)

Spec == Init /\ [][Next]_vars
=============================================================================
