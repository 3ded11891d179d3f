---- MODULE MCPaymentExitGame ----
(***************************************************************************)
(* Small worlds of transactions for PaymentExitGame.                       *)
(***************************************************************************)
EXTENDS PaymentExitGame

In(t, p) == [output |-> <<t, 1>>, position |-> p]
Out(k, n) == [token |-> k, amount |-> n]

\* A deposit, spent, and spent again by a competitor; the output of the first is spent too.
\* Another deposit is not spent: the vault holds more than the first.
OneTokenTxs == {"deposit", "other", "spend", "double", "respend"}
OneTokenDeposits == <<"deposit", "other">>
OneTokenInputs ==
    [deposit |-> <<>>, other |-> <<>>, spend |-> << In("deposit", 1) >>,
     double |-> << In("deposit", 1) >>, respend |-> << In("spend", 3) >>]
OneTokenOutputs == [t \in OneTokenTxs |-> << Out("ETH", 1) >>]
OneTokenStandard == {<<"deposit", 1>>, <<"spend", 1>>, <<"double", 1>>}

\* Two deposits in two tokens, swapped by one transaction; the first is spent by another.
SwapTxs == {"eth", "erc", "swap", "double"}
SwapDeposits == <<"eth", "erc">>
SwapInputs ==
    [eth |-> <<>>, erc |-> <<>>, swap |-> << In("eth", 1), In("erc", 2) >>,
     double |-> << In("eth", 1) >>]
SwapOutputs ==
    [eth |-> << Out("ETH", 1) >>, erc |-> << Out("ERC", 1) >>,
     swap |-> << Out("ETH", 1), Out("ERC", 1) >>, double |-> << Out("ETH", 1) >>]

OneTokenDepositExit == {<<"deposit", 1>>}
NoOutputs == {}
SwapStandard == {<<"eth", 1>>}
\* A deposit, spent by a transaction with an output of amount 0.
ZeroTxs == {"deposit", "burn"}
ZeroDeposits == <<"deposit">>
ZeroInputs == [deposit |-> <<>>, burn |-> << In("deposit", 1) >>]
ZeroOutputs == [deposit |-> << Out("ETH", 1) >>, burn |-> << Out("ETH", 0) >>]
ZeroStandard == {<<"burn", 1>>}

\* The operator includes "mid" twice; "twice" spends its output at both positions, and "rival"
\* spends it too.  The vault also holds another deposit.
TwiceTxs == {"deposit", "other", "mid", "twice", "rival"}
TwiceDeposits == <<"deposit", "other">>
TwiceInputs ==
    [deposit |-> <<>>, other |-> <<>>, mid |-> << In("deposit", 1) >>,
     twice |-> << In("mid", 3), In("mid", 4) >>, rival |-> << In("mid", 3) >>]
TwiceOutputs == [t \in TwiceTxs |-> << Out("ETH", 1) >>]
TwiceStandard == {<<"mid", 1>>, <<"rival", 1>>}

OneBond == {[size |-> 1, bounty |-> 1]}
TwoBonds == {[size |-> 2, bounty |-> 1], [size |-> 1, bounty |-> 1]}
====
