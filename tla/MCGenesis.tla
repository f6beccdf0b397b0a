----------------------------- MODULE MCGenesis ------------------------------
(***************************************************************************)
(* A small instance of Genesis.                                            *)
(***************************************************************************)
EXTENDS Genesis

Money(stake, ethereum) ==
  [d \in {BondDenom, BridgeDenom} |-> IF d = BondDenom THEN stake ELSE ethereum]

Add(a, coins, vestingAmt, start, end) ==
  [address |-> a, coins |-> coins, vestingAmt |-> vestingAmt,
   vestingStart |-> start, vestingEnd |-> end]

\* A plain account; vesting continuously or at once at the end; and for each way
\* to refuse a vesting account one that is refused.
MC_Additions ==
  {Add(2, Money(1, 0), NoCoins, 0, 0)}
    \cup {Add(1, Money(2, 0), Money(1, 0), start, end) : start \in 0..1, end \in {0, 2}}
    \cup {Add(2, Money(1, 1), Money(2, 2), 0, 1)}

\* A fee in stake or none, and a payment in both denominations, which a claim may name.
MC_Fees     == {NoCoins, Money(1, 0)}
MC_Payments == {Money(1, 1)}
=============================================================================
