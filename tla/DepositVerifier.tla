---- MODULE DepositVerifier ----
(***************************************************************************)
(* The contract that verifies the deposits of a vault (Vault.sol).  The    *)
(* first one is in force at once, each later one after two exit periods.   *)
(***************************************************************************)
EXTENDS ChainTime

CONSTANTS
    Verifiers, NoVerifier,
    NeverMature,        \* 2^255
    VerifierTime        \* bound of the model, not of the code

ASSUME VerifierAssumption ==
    /\ NoVerifier \notin Verifiers
    /\ {NeverMature, VerifierTime} \subseteq Nat
    /\ NeverMature > VerifierTime

VARIABLES
    depositVerifiers,   \* address[2]
    newDepositVerifierMaturityTimestamp

verifierVars == <<clock, depositVerifiers, newDepositVerifierMaturityTimestamp>>

VerifierInit ==
    /\ clock = 0
    /\ depositVerifiers = [k \in 0 .. 1 |-> NoVerifier]
    /\ newDepositVerifierMaturityTimestamp = NeverMature

GetEffectiveDepositVerifier ==
    IF clock < newDepositVerifierMaturityTimestamp THEN depositVerifiers[0] ELSE depositVerifiers[1]

\* A mutant: the first place keeps the first verifier.
SetDepositVerifierForget(verifier) ==
    /\ IF depositVerifiers[0] # NoVerifier
       THEN /\ depositVerifiers' = [depositVerifiers EXCEPT ![1] = verifier]
            /\ newDepositVerifierMaturityTimestamp' = clock + (2 * MinExitPeriod)
       ELSE /\ depositVerifiers' = [depositVerifiers EXCEPT ![0] = verifier]
            /\ UNCHANGED newDepositVerifierMaturityTimestamp
    /\ UNCHANGED clock

SetDepositVerifier(verifier) ==
    /\ IF depositVerifiers[0] # NoVerifier
       THEN /\ depositVerifiers' = [k \in 0 .. 1 |-> IF k = 0 THEN GetEffectiveDepositVerifier ELSE verifier]
            /\ newDepositVerifierMaturityTimestamp' = clock + (2 * MinExitPeriod)
       ELSE /\ depositVerifiers' = [depositVerifiers EXCEPT ![0] = verifier]
            /\ UNCHANGED newDepositVerifierMaturityTimestamp
    /\ UNCHANGED clock

VerifierTick ==
    /\ TimePasses(VerifierTime)
    /\ UNCHANGED <<depositVerifiers, newDepositVerifierMaturityTimestamp>>

VerifierNext == VerifierTick \/ \E verifier \in Verifiers : SetDepositVerifier(verifier)

VerifierSpec == VerifierInit /\ [][VerifierNext]_verifierVars

----------------------------------------------------------------------------

Matures == clock < newDepositVerifierMaturityTimestamp /\ depositVerifiers[1] # NoVerifier

Verifier == INSTANCE DelayedValue WITH
    Initial <- NoVerifier,
    Values <- Verifiers,
    Delay <- 2 * MinExitPeriod,
    Unset <- NoVerifier,
    value <- GetEffectiveDepositVerifier,
    next <- IF Matures THEN depositVerifiers[1] ELSE NoVerifier,
    due <- IF Matures THEN newDepositVerifierMaturityTimestamp ELSE 0

\* "When one contract is already set, the next one is effective after 2 * MIN_EXIT_PERIOD. This is
\* to protect deposit transactions already in mempool": a deposit is verified by the verifier of
\* the time when it was sent, or by one announced by then, for that long; setting one while another
\* is maturing neither puts back an older one nor brings one forward.
VerifierIsDelayed == Verifier!Spec
====
