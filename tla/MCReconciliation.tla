--------------------------- MODULE MCReconciliation ---------------------------
(* Small instances of ReconciliationRuns for TLC.                              *)
EXTENDS ReconciliationRuns, MCRecords, TLC

CONSTANTS i1, i2, r1, r2

TwoRequests == {r1, r2}
TwoImports == {i1, i2}
TheSecond == {i2}
NoScenario == {}

Settled(p, f, t, s, l, b, utr, import) ==
  { Payment1000(p, import), Fee(f, p, 2500), Tax(t, f, 450), Settlement(s, 97050, utr),
    Line(l, s, p, 97050), Credit(b, utr, 97050) }

(* Two whole lifecycles, and a payment that was captured last and not settled: *)
(* one more than a run takes.  An adjustment that the settlement does not show *)
(* keeps the second lifecycle from reconciling.                                *)
Lifecycles ==
  [i \in TwoImports |->
     IF i = i1 THEN Settled("p1", "f1", "t1", "s1", "l1", "b1", "u1", i1)
            \cup {[Payment1000("p3", i1) EXCEPT !.capturedAt = @ + HOUR]}
     ELSE Settled("p2", "f2", "t2", "s2", "l2", "b2", "u2", i2)
            \cup {Adjustment("a2", "s2", -500, SettledAt - DAY)}]

(* A payment whose settlement is 5.00 short, and an import that brings a       *)
(* refund of 5.00 and an adjustment that makes up for it: it is short before   *)
(* and after.                                                                  *)
ShortThenRefunded ==
  [i \in TwoImports |->
     IF i = i1
     THEN { Payment1000("p1", i1), Fee("f1", "p1", 2500), Tax("t1", "f1", 450),
            Settlement("s1", 96550, "u1"), Line("l1", "s1", "p1", 96550),
            Credit("b1", "u1", 96550) }
     ELSE {Refund("r1", "p1", 500), Adjustment("a1", "s1", 500, SettledAt - DAY)}]

(* No import has payments of a scenario's batch, in any of the instances.      *)
ASSUME ScenariosHere == ScenariosAreApart

(* Every import of the one instance brings whole lifecycles; the other does    *)
(* not.                                                                        *)
ASSUME LifecyclesHere == BatchesAreApart <=> Batch = Lifecycles

RequestSymmetry == Permutations(Requests)
===============================================================================
