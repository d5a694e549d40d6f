------------------------------ MODULE Amounts ------------------------------
(***************************************************************************)
(* What a matured block is worth to each payee (stratum/unlocker.go): the  *)
(* pool's fee is taken off, the rest divided by the shares of the block's  *)
(* round, and each login's part rounded on its own before the logins of an *)
(* address are added up.  The rounds are those that Rounds closes.         *)
(*                                                                         *)
(* The code computes with exact fractions (math/big.Rat) and rounds once,  *)
(* so that integers stand for them here: the fee is Fee parts of FeeUnit.  *)
(* Who is paid, and what becomes of a block without shares, is in          *)
(* Unlocker; the fee stays in the pool's wallet and is credited to nobody. *)
(***************************************************************************)
EXTENDS Rounds, FiniteSetsExt

CONSTANTS
    Addresses,      \* addresses to pay, payment IDs included
    BlockRewards,   \* what blocks may be worth
    Fee, FeeUnit    \* UnlockerConfig.PoolFee, as a fraction

ASSUME AmountsAssumption ==
    /\ IsFiniteSet(Miners) /\ IsFiniteSet(Addresses)
    /\ BlockRewards \subseteq Nat
    /\ FeeUnit \in Nat \ {0} /\ Fee \in 0..FeeUnit

\* What f has for the elements of S, added up.
Total(f, S) == MapThenSumSet(LAMBDA x : f[x], S)

\* miners:round:<height> has a number for every login.
RoundShares(h) == [m \in Miners |-> Total(rounds[h][m], Times)]

\* GetRoundShares: the total is that of what was read.
TotalShares(n) == Total(n, Miners)

\* Logins without shares are passed over.
Paid(n) == {m \in Miners : n[m] # 0}

\* The miners' profit, in parts of FeeUnit.
chargeFee(reward) == reward * (FeeUnit - Fee)

(* Mutant: the fraction is cut off. *)
FloatString0_Cut(p, q) == p \div q

(* big.Rat.FloatString(0) of p / q: to the nearest integer, a half up. *)
FloatString0(p, q) == (2 * p + q) \div (2 * q)

WorkerReward(n, profit, m) ==
    FloatString0(profit * n[m], FeeUnit * TotalShares(n))

\* payTo is what splitLoginString finds the address of a login to be.
calculateRewardsForShares(n, profit, payTo) ==
    LET shareRewards == [m \in Miners |-> WorkerReward(n, profit, m)]
    IN  [a \in Addresses |->
            Total(shareRewards, {m \in Paid(n) : payTo[m] = a})]

-----------------------------------------------------------------------------
(* Properties.                                                             *)

\* p / q and r differ by half of k at most.
Near(p, q, r, k) == 2 * p - 2 * q * r \in (-q * k) .. (q * k)

(* Whatever round the pool closes, its block is paid in proportion: an     *)
(* address with k logins in the round gets its part of the profit within   *)
(* k halves of a unit, and the sum of all rewards keeps as near to the     *)
(* profit (unlocker.go:414-434).  It may be more than the profit: five     *)
(* units between two equal logins are three and three.                     *)
PaidInProportion ==
    \A h \in written, reward \in BlockRewards, payTo \in [Miners -> Addresses] :
        LET tally   == RoundShares(h)
            total   == TotalShares(tally)
            profit  == chargeFee(reward)
            rewards == calculateRewardsForShares(tally, profit, payTo)
            of(a)   == {m \in Paid(tally) : payTo[m] = a}
        IN  total > 0 =>
              /\ \A a \in Addresses :
                   Near(profit * Total(tally, of(a)),
                        FeeUnit * total, rewards[a], Cardinality(of(a)))
              /\ Near(profit, FeeUnit, Total(rewards, Addresses),
                      Cardinality(Paid(tally)))
=============================================================================
