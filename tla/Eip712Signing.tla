---- MODULE Eip712Signing ----
(***************************************************************************)
(* How the tests sign the inputs of a transaction (plasma_core/            *)
(* transaction.py, utils/eip712_struct_hash.py), and what the spending     *)
(* condition of the contracts recovers from the signature.  The typed data *)
(* that is hashed is one dictionary of the Python module: every call fills *)
(* in its part and leaves it there for the next.                           *)
(*                                                                         *)
(* A digest is the pair of contract and content that was hashed.  A        *)
(* signature keeps its key, its digest and its recovery byte.              *)
(***************************************************************************)
EXTENDS Integers, Sequences

CONSTANTS
    Transactions,       \* transaction objects
    Content,            \* [Transactions -> anything]: type, inputs, outputs, data and metadata
    NumInputs,          \* [Transactions -> Nat]
    Accounts,
    Contracts,          \* the addresses a signature can be for
    NULL_ADDRESS, DefaultContract,
    Nothing,            \* a signature or a message that is not there
    Nobody              \* what recovery of a signature for something else comes to

ASSUME SigningAssumption ==
    /\ NumInputs \in [Transactions -> Nat] /\ DOMAIN Content = Transactions
    /\ NULL_ADDRESS \notin Accounts /\ Nobody \notin Accounts \cup {NULL_ADDRESS}
    \* No contract is at the null address, and the null signature is none that is made.
    /\ {NULL_ADDRESS, Nothing} \cap Contracts = {}
    /\ \A account \in Accounts, c \in Contracts \cup {NULL_ADDRESS}, t \in Transactions, v \in {27, 28} :
         [key |-> account, digest |-> <<c, Content[t]>>, v |-> v] # Nothing

VARIABLES
    verifyingContract,  \* data['domain']['verifyingContract']
    message,            \* data['message']
    signatures,         \* [Transactions -> Seq(signature)]
    signers,            \* [Transactions -> Seq(address)], recovered when the input was signed
    askedFor            \* history: [Transactions -> Seq(contract)], what the caller of sign named last

signingVars == <<verifyingContract, message, signatures, signers, askedFor>>

\* The constructor of Transaction: [NULL_SIGNATURE] * len(inputs), [NULL_ADDRESS] * len(inputs).
ForEachInput(null) == [t \in Transactions |-> [i \in 1 .. NumInputs[t] |-> null]]

SigningInit ==
    /\ verifyingContract = DefaultContract
    /\ message = Nothing
    /\ signatures = ForEachInput(Nothing)
    /\ signers = ForEachInput(NULL_ADDRESS)
    /\ askedFor = ForEachInput(Nothing)

\* encode_typed_data of what is in the dictionary by then.
Digest(contract, content) == <<contract, content>>

\* None stands for the null address, not for the contract that data names at first.
VerifyingAddress(contract) == IF contract = Nothing THEN NULL_ADDRESS ELSE contract

\* struct_tx_from_tx: every field that the contracts hash; not the signatures.
StructTx(t) == Content[t]

\* A mutant: the recovery byte is kept as it is.
AmendNot(sig) == sig

\* A signature of eth_keys ends in 0 or 1; ECDSA of OpenZeppelin wants 27 or 28.
Amend(sig) == [sig EXCEPT !.v = @ + 27]

\* A mutant: without a contract the domain stays that of the last call.
HashStructKeepDomain(t, contract) ==
    /\ verifyingContract' = IF contract = Nothing THEN verifyingContract ELSE contract
    /\ message' = StructTx(t)

HashStruct(t, contract) ==
    /\ verifyingContract' = VerifyingAddress(contract)
    /\ message' = StructTx(t)

\* Transaction.sign: the input may be signed again, by another account or for another contract.
Sign(t, i, account, contract, v) ==
    LET digest == Digest(verifyingContract', message')
        sig == [key |-> account, digest |-> digest, v |-> v]
    IN  /\ HashStruct(t, contract)
        /\ signatures' = [signatures EXCEPT ![t][i] = Amend(sig)]
        /\ signers' = [signers EXCEPT ![t][i] = account]
        /\ askedFor' = [askedFor EXCEPT ![t][i] = contract]

SigningNext ==
    \E t \in Transactions, account \in Accounts, contract \in Contracts \cup {Nothing}, v \in {0, 1} :
        \E i \in 1 .. NumInputs[t] : Sign(t, i, account, contract, v)

SigningSpec == SigningInit /\ [][SigningNext]_signingVars

\* PaymentOutputToPaymentTxCondition on a contract: the signature must be over its own digest.
RecoveredBy(contract, t, i) ==
    LET sig == signatures[t][i]
    IN  IF sig # Nothing /\ sig.v \in {27, 28} /\ sig.digest = Digest(contract, Content[t])
        THEN sig.key ELSE Nobody

----------------------------------------------------------------------------

\* The contract that an input was last signed for recovers the signer that the child chain
\* goes by, and no other contract recovers anyone, whatever was signed before or since.  Who asks
\* for no contract gets none: a later call does not sign for the contract of an earlier one.
ValidForItsContractOnly ==
    \A t \in Transactions : \A i \in 1 .. NumInputs[t] : \A c \in Contracts :
        RecoveredBy(c, t, i) = IF askedFor[t][i] = c THEN signers[t][i] ELSE Nobody
====
