---- MODULE BondSize ----
(***************************************************************************)
(* The size of a bond and of the bounty in it (BondSize.sol).  An update   *)
(* waits two days; until then the size before is in force.                 *)
(***************************************************************************)
EXTENDS ChainTime

CONSTANTS
    WAITING_PERIOD,
    FarFuture,          \* 2^63
    InitialBondSize, InitialExitBountySize,
    LowerBoundDivisor, UpperBoundMultiplier,
    BondSizes, BondTime \* bounds of the model: the sizes that are tried, and the clock

ASSUME BondAssumption ==
    /\ {WAITING_PERIOD, LowerBoundDivisor, UpperBoundMultiplier, InitialBondSize} \subseteq Nat \ {0}
    /\ {FarFuture, BondTime} \subseteq Nat
    /\ InitialExitBountySize \in 0 .. InitialBondSize
    /\ BondSizes \subseteq Nat
    /\ FarFuture > BondTime

VARIABLES
    previousBondSize, updatedBondSize,
    previousExitBountySize, updatedExitBountySize,
    effectiveUpdateTime

paramVars == <<previousBondSize, updatedBondSize, previousExitBountySize, updatedExitBountySize, effectiveUpdateTime>>
bondVars == <<clock, paramVars>>

BondInit ==
    /\ clock = 0
    /\ previousBondSize = InitialBondSize /\ updatedBondSize = 0
    /\ previousExitBountySize = InitialExitBountySize /\ updatedExitBountySize = 0
    /\ effectiveUpdateTime = FarFuture

BondSize == IF clock < effectiveUpdateTime THEN previousBondSize ELSE updatedBondSize
ExitBountySize == IF clock < effectiveUpdateTime THEN previousExitBountySize ELSE updatedExitBountySize

\* A mutant: against the size before the last update.
ValidBondSizeOfPrevious(bond, bounty) ==
    /\ bond >= bounty /\ bond > 0
    /\ bond >= previousBondSize \div LowerBoundDivisor
    /\ bond <= previousBondSize * UpperBoundMultiplier

ValidBondSize(bond, bounty) ==
    /\ bond >= bounty /\ bond > 0
    /\ bond >= BondSize \div LowerBoundDivisor
    /\ bond <= BondSize * UpperBoundMultiplier

Announced(bond, bounty) ==
    /\ updatedBondSize' = bond
    /\ updatedExitBountySize' = bounty
    /\ effectiveUpdateTime' = clock + WAITING_PERIOD

\* A mutant: the update that has come into force is not kept.
UpdateBondSizeForget(bond, bounty) ==
    /\ ValidBondSize(bond, bounty)
    /\ Announced(bond, bounty)
    /\ UNCHANGED <<clock, previousBondSize, previousExitBountySize>>

UpdateBondSize(bond, bounty) ==
    /\ ValidBondSize(bond, bounty)
    /\ IF updatedBondSize # 0 /\ clock >= effectiveUpdateTime
       THEN previousBondSize' = updatedBondSize /\ previousExitBountySize' = updatedExitBountySize
       ELSE UNCHANGED <<previousBondSize, previousExitBountySize>>
    /\ Announced(bond, bounty)
    /\ UNCHANGED clock

BondTick == TimePasses(BondTime) /\ UNCHANGED paramVars

BondNext == BondTick \/ \E bond, bounty \in BondSizes : UpdateBondSize(bond, bounty)

BondSpec == BondInit /\ [][BondNext]_bondVars

----------------------------------------------------------------------------

Waits == updatedBondSize # 0 /\ clock < effectiveUpdateTime

Bond == INSTANCE DelayedValue WITH
    Initial <- <<InitialBondSize, InitialExitBountySize>>,
    Values <- BondSizes \X BondSizes,
    Delay <- WAITING_PERIOD,
    Unset <- <<>>,
    value <- <<BondSize, ExitBountySize>>,
    next <- IF Waits THEN <<updatedBondSize, updatedExitBountySize>> ELSE <<>>,
    due <- IF Waits THEN effectiveUpdateTime ELSE 0

\* "The new bond size value updates once the two day waiting period completes": whatever is
\* updated when, also while another update waits or right when one comes into force, the sizes in
\* force are those announced two days before, and nobody meets a bond without notice.
BondIsDelayed == Bond!Spec

\* From one bond in force to the next one the steps are bounded, and the bond pays the bounty.
\* An update is compared with the bond in force when it is made, which another update that waits
\* could change before it comes.
BondMovesInBounds ==
    [][ /\ BondSize' \in (BondSize \div LowerBoundDivisor) .. (BondSize * UpperBoundMultiplier)
        /\ BondSize' > 0 /\ BondSize' >= ExitBountySize' ]_bondVars
====
