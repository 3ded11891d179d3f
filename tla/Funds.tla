---- MODULE Funds ----
(***************************************************************************)
(* Where the money is: the balance of the vaults per token, the ETH that   *)
(* the payment exit game itself holds for bonds, and which outputs the     *)
(* vaults paid out to which exits.                                         *)
(*                                                                         *)
(* SafeEthTransfer.transferReturnResult may fail, because the receiver is  *)
(* a contract that rejects ETH: the caller goes on and the ETH stays where *)
(* it was.  MayRefuse says whether receivers do that.                      *)
(* transferRevertOnError and the ERC20 safeTransfer revert instead, so the *)
(* action of the whole call does not happen.                               *)
(***************************************************************************)
EXTENDS PlasmaBlocks

CONSTANTS
    MayRefuse,      \* whether receivers of ETH may reject it
    BondSizes       \* [size, bounty]: what the bonds and the bounties may be set to

VARIABLES
    vaultBalance,   \* [Tokens -> Int]: what EthVault or Erc20Vault holds of the token
    withdrawn,      \* [OutputIds -> Seq(exit id)]: the exits that were paid the output
    ethBalance      \* the ETH of the PaymentExitGame contract: the bonds it holds

fundVars == <<vaultBalance, withdrawn, ethBalance>>

\* BondSize never lets a bounty be larger than its bond, nor a bond be 0.
ASSUME BondAssumption ==
    /\ MayRefuse \in BOOLEAN
    /\ \A b \in BondSizes : b \in [size : Nat, bounty : Nat] /\ b.bounty <= b.size /\ b.size > 0

\* What is paid for is a function from places, such as the inputs of a transaction, to outputs:
\* an output that is at two places is paid for twice.
AmountOf(paid) == SumFunction([s \in DOMAIN paid |-> Amount(paid[s])])
TimesPaid(paid, o) == Cardinality({s \in DOMAIN paid : paid[s] = o})

FundsInit ==
    /\ vaultBalance = [k \in Tokens |->
            AmountOf([o \in {o \in OutputIds : o[1] \in DepositTxs /\ Token(o) = k} |-> o])]
    /\ withdrawn = [o \in OutputIds |-> <<>>]
    /\ ethBalance = 0

\* The sets of ETH transfers of due that can be the ones to succeed.
Accepted(due) == IF MayRefuse THEN SUBSET due ELSE {due}

\* The places of due, whose outputs are all of one token, that the vault can end up paying.
\* EthVault skips a payment that is rejected or exceeds its balance; Erc20Vault pays all or
\* reverts.
Payable(token, due) ==
    LET affordable ==
            {places \in SUBSET DOMAIN due : AmountOf(Restrict(due, places)) <= vaultBalance[token]}
    IN  IF token # ETH THEN affordable \cap {DOMAIN due}
        ELSE IF MayRefuse THEN affordable
        ELSE {places \in affordable : \A more \in affordable : places \subseteq more => places = more}

\* The vault pays for the outputs of paid, once for each place, to the exit exitId.
Withdraw(exitId, token, paid) ==
    /\ vaultBalance' = [vaultBalance EXCEPT ![token] = @ - AmountOf(paid)]
    /\ withdrawn' = [o \in OutputIds |-> withdrawn[o] \o [n \in 1..TimesPaid(paid, o) |-> exitId]]
====
