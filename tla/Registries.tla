---- MODULE Registries ----
(***************************************************************************)
(* The vaults and the exit games that PlasmaFramework lets act (registries *)
(* and Quarantine.sol).  All but the first ones wait in quarantine: users  *)
(* who do not trust a new one have the time to leave with what they had.   *)
(***************************************************************************)
EXTENDS ChainTime, FiniteSets

CONSTANTS
    Vaults, ExitGames,  \* addresses of contracts
    RegistryIds,        \* vault ids and transaction types
    NoContract,         \* address 0
    InitialImmuneVaults, InitialImmuneExitGames,
    RegistryTime        \* bound of the model, not of the code

ASSUME RegistryAssumption ==
    /\ Vaults \cap ExitGames = {} /\ NoContract \notin Vaults \cup ExitGames
    /\ RegistryIds \subseteq Nat \ {0}
    /\ {InitialImmuneVaults, InitialImmuneExitGames, RegistryTime} \subseteq Nat

Registrants == Vaults \cup ExitGames
Kinds == {"vault", "exit game"}
KindOf(contract) == IF contract \in Vaults THEN "vault" ELSE "exit game"

VARIABLES
    registered,         \* _vaults, _exitGames: [Kinds -> [ids -> contract]]
    idOf,               \* _vaultToId, _exitGameToTxType: [contracts -> id, or 0]
    store,              \* [contracts -> end of the quarantine, or 0]
    immunitiesRemaining,
    registeredAt        \* history: [contracts -> time]

registryVars == <<clock, registered, idOf, store, immunitiesRemaining, registeredAt>>

\* A mutant: a period less.
QuarantinePeriodLess(kind) == IF kind = "vault" THEN MinExitPeriod ELSE 3 * MinExitPeriod
QuarantinePeriod(kind) == IF kind = "vault" THEN 2 * MinExitPeriod ELSE 4 * MinExitPeriod

RegistryInit ==
    /\ clock = 0
    /\ registered = [kind \in Kinds |-> [id \in RegistryIds |-> NoContract]]
    /\ idOf = [c \in Registrants |-> 0]
    /\ store = [c \in Registrants |-> 0]
    /\ immunitiesRemaining = [kind \in Kinds |->
            IF kind = "vault" THEN InitialImmuneVaults ELSE InitialImmuneExitGames]
    /\ registeredAt = [c \in Registrants |-> 0]

\* A mutant: immunity is not used up.
QuarantineImmune(contract) ==
    /\ store[contract] = 0
    /\ IF immunitiesRemaining[KindOf(contract)] = 0
       THEN store' = [store EXCEPT ![contract] = clock + QuarantinePeriod(KindOf(contract))]
       ELSE UNCHANGED store
    /\ UNCHANGED immunitiesRemaining

Quarantine(contract) ==
    /\ store[contract] = 0              \* "The contract is already quarantined"
    /\ IF immunitiesRemaining[KindOf(contract)] = 0
       THEN /\ store' = [store EXCEPT ![contract] = clock + QuarantinePeriod(KindOf(contract))]
            /\ UNCHANGED immunitiesRemaining
       ELSE /\ immunitiesRemaining' = [immunitiesRemaining EXCEPT ![KindOf(contract)] = @ - 1]
            /\ UNCHANGED store

IsQuarantined(contract) == clock < store[contract]

\* A mutant: a contract may come under a second id.
RegisterAgain(id, contract) ==
    /\ registered[KindOf(contract)][id] = NoContract
    /\ registered' = [registered EXCEPT ![KindOf(contract)][id] = contract]
    /\ idOf' = [idOf EXCEPT ![contract] = id]
    /\ registeredAt' = [registeredAt EXCEPT ![contract] = clock]
    /\ Quarantine(contract)
    /\ UNCHANGED clock

\* registerVault, registerExitGame: only the maintainer.
Register(id, contract) ==
    /\ registered[KindOf(contract)][id] = NoContract
    /\ idOf[contract] = 0
    /\ registered' = [registered EXCEPT ![KindOf(contract)][id] = contract]
    /\ idOf' = [idOf EXCEPT ![contract] = id]
    /\ registeredAt' = [registeredAt EXCEPT ![contract] = clock]
    /\ Quarantine(contract)
    /\ UNCHANGED clock

RegistryTick ==
    /\ TimePasses(RegistryTime)
    /\ UNCHANGED <<registered, idOf, store, immunitiesRemaining, registeredAt>>

RegistryNext == RegistryTick \/ \E id \in RegistryIds, contract \in Registrants : Register(id, contract)

RegistrySpec == RegistryInit /\ [][RegistryNext]_registryVars

\* onlyFromNonQuarantinedVault, onlyFromNonQuarantinedExitGame.
CanAct(contract) == idOf[contract] # 0 /\ ~ IsQuarantined(contract)

\* The time from which a standard exit can be processed, by the times of its block and its start.
ExitableAt(block, start) ==
    LET ofBlock == block + (2 * MinExitPeriod)
        ofStart == start + MinExitPeriod
    IN  IF ofBlock >= ofStart THEN ofBlock ELSE ofStart

----------------------------------------------------------------------------

\* What is registered under an id is registered under that one only, in both directions; and no
\* more contracts than at first were granted it are without a quarantine.
OneToOne ==
    /\ \A kind \in Kinds, id \in RegistryIds, c \in Registrants :
         registered[kind][id] = c <=> (KindOf(c) = kind /\ idOf[c] = id)
    /\ \A kind \in Kinds :
         Cardinality({c \in Registrants : KindOf(c) = kind /\ idOf[c] # 0 /\ store[c] = 0})
            + immunitiesRemaining[kind]
         = (IF kind = "vault" THEN InitialImmuneVaults ELSE InitialImmuneExitGames)

\* Before a new contract can do harm, all that there was when it was registered can leave: the
\* first moment in which a new exit game can enqueue or withdraw anything, the exits started
\* within three exit periods can be processed; and those started within two are exitable before
\* the exit of any deposit that a new vault can make up.
TimeToLeave ==
    \A c \in Registrants :
        CanAct(c) /\ store[c] # 0 =>
            LET periods == IF c \in Vaults THEN 2 ELSE 3
                harm == IF c \in Vaults THEN clock + MinExitPeriod ELSE clock
            IN  \A block \in 0 .. registeredAt[c] :
                    \A start \in registeredAt[c] .. registeredAt[c] + (periods * MinExitPeriod) - 1 :
                        ExitableAt(block, start) < harm
====
