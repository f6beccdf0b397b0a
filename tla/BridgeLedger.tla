---------------------------- MODULE BridgeLedger ----------------------------
(***************************************************************************)
(* What a user of the bridge may rely on, with no chain, validator or      *)
(* relayer in sight: a lock, once made, stays made, and is paid to its     *)
(* recipient at most once, in full, in one step, or not at all.            *)
(***************************************************************************)
EXTENDS Naturals

CONSTANTS Accounts, NoAccount

VARIABLES
  locks,      \* the locks made: names |-> [to : Accounts \cup {NoAccount}, amount : Nat]
  minted,     \* the names of those that have been paid
  balances    \* [Accounts -> Nat]

ledgerVars == <<locks, minted, balances>>

LedgerInit ==
  /\ DOMAIN locks = {}
  /\ minted = {}
  /\ balances = [a \in Accounts |-> 0]

Lock ==
  /\ \E n \in DOMAIN locks' : n \notin DOMAIN locks /\ DOMAIN locks' = DOMAIN locks \cup {n}
  /\ \A n \in DOMAIN locks : locks'[n] = locks[n]
  /\ UNCHANGED <<minted, balances>>

Mint(n) ==
  /\ n \notin minted
  /\ locks[n].to \in Accounts
  /\ minted' = minted \cup {n}
  /\ balances' = [balances EXCEPT ![locks[n].to] = @ + locks[n].amount]
  /\ UNCHANGED locks

LedgerNext == Lock \/ \E n \in DOMAIN locks : Mint(n)

LedgerSpec == LedgerInit /\ [][LedgerNext]_ledgerVars
=============================================================================
