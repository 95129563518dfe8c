--------------------------- MODULE MCPartnerships ---------------------------
(* Partnerships on a small instance: three organizations. *)
EXTENDS Partnerships, TLC

CONSTANTS a, b, c, w1, w2, som, usd

ThreeOrgs == {a, b, c}
TwoWorkers == {w1, w2}
TwoCurrencies == {som, usd}
TwoKinds == {"cashback", "items"}

Chain(x, y, z) == <<Partners(x, y), Partners(y, x), Partners(y, z), Partners(z, y)>>
NobodyOrChain ==
  {<<>>} \union {Chain(p[a], p[b], p[c]) : p \in Permutations(ThreeOrgs)}

Symmetry ==
  Permutations(ThreeOrgs) \union Permutations(TwoWorkers) \union Permutations(TwoCurrencies)
=============================================================================
