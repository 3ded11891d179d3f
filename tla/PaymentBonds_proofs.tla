---- MODULE PaymentBonds_proofs ----
(***************************************************************************)
(* The payment exit game can pay every bond that it owes, and owes nothing *)
(* that was not paid in: for any transactions, bonds, bounties and exit    *)
(* period, whoever of the receivers rejects ETH.                           *)
(*                                                                         *)
(* What is owed is a sum over the exits.  The first lemmas take it apart   *)
(* into what each standard exit and each in-flight exit is owed for, so    *)
(* that a step, which changes one exit, changes one term.                  *)
(***************************************************************************)
EXTENDS PaymentExitGame_proofs, ArithmeticLemmas

----------------------------------------------------------------------------
(* What is owed, exit by exit. *)

LEMMA SlotsAreFinite == IsFiniteSet(Slots)
  <1> DEFINE of(t) == InputSlots(t) \cup OutputSlots(t)
             e == [t \in Txs |-> of(t)]
             S == {e[t] : t \in Txs}
  <1>1. ASSUME NEW t \in Txs PROVE IsFiniteSet(of(t))
    BY SlotsOf, FS_Union
  <1>2. Slots = UNION S /\ \A T \in S : IsFiniteSet(T)
    BY <1>1 DEF Slots
  <1>3. IsFiniteSet(S)
    <2> HIDE DEF e
    <2> QED BY TxAssumption, FiniteImage
  <1> HIDE DEF S
  <1> QED BY <1>2, <1>3, FS_UNION

\* A standard exit is owed its bond while it can exit; an in-flight exit its own and those of
\* what is piggybacked on it.
StandardBond(exit) == IF exit.exitable THEN exit.bondSize ELSE 0
GameBonds(ife) == ife.bondSize + SumFunctionOnSet(ife.piggybackBond, ife.exitMap)

StandardBonds(exits) == SumFunctionOnSet([o \in OutputIds |-> StandardBond(exits[o])], OutputIds)
AllGameBonds(games) == SumFunctionOnSet([t \in Txs |-> GameBonds(games[t])], Txs)

LEMMA BondTypes ==
    /\ \A exit \in StandardExitData : StandardBond(exit) \in Nat
    /\ \A ife \in InFlightExitData :
        /\ IsFiniteSet(ife.exitMap)
        /\ SumFunctionOnSet(ife.piggybackBond, ife.exitMap) \in Nat
        /\ GameBonds(ife) \in Nat
  <1>1. \A exit \in StandardExitData : StandardBond(exit) \in Nat
    BY DEF StandardExitData, StandardBond
  <1>2. ASSUME NEW ife \in InFlightExitData
        PROVE  /\ IsFiniteSet(ife.exitMap)
               /\ SumFunctionOnSet(ife.piggybackBond, ife.exitMap) \in Nat
               /\ GameBonds(ife) \in Nat
    <2>1. ife.exitMap \subseteq Slots /\ ife.piggybackBond \in [Slots -> Nat] /\ ife.bondSize \in Nat
      BY DEF InFlightExitData
    <2>2. IsFiniteSet(ife.exitMap)
      BY <2>1, SlotsAreFinite, FS_Subset
    <2>3. \A o \in ife.exitMap : ife.piggybackBond[o] \in Nat
      BY <2>1
    <2>4. SumFunctionOnSet(ife.piggybackBond, ife.exitMap) \in Nat
      BY <2>2, <2>3, SumNat
    <2> QED BY <2>1, <2>2, <2>4 DEF GameBonds
  <1> QED BY <1>1, <1>2

LEMMA StandardSum ==
    ASSUME NEW exits \in [OutputIds -> StandardExitData]
    PROVE  LET standard == {o \in OutputIds : exits[o].exitable}
           IN  SumFunction([o \in standard |-> exits[o].bondSize]) = StandardBonds(exits)
  <1> DEFINE standard == {o \in OutputIds : exits[o].exitable}
             rest == OutputIds \ standard
             f == [o \in standard |-> exits[o].bondSize]
             h == [o \in OutputIds |-> StandardBond(exits[o])]
  <1>1. IsFiniteSet(standard) /\ IsFiniteSet(rest)
    BY OutputsAreFinite, FS_Subset
  <1>2. OutputIds = standard \cup rest /\ standard \cap rest = {}
    OBVIOUS
  <1>3. \A o \in standard : f[o] = h[o]
    BY DEF StandardBond
  <1>4. \A o \in rest : h[o] = 0
    BY DEF StandardBond
  <1>5. \A o \in standard \cup rest : h[o] \in Int
    BY BondTypes
  <1>6. SumFunction(f) = SumFunctionOnSet(f, standard)
    BY DEF SumFunction
  <1>7. StandardBonds(exits) = SumFunctionOnSet(h, standard \cup rest)
    BY <1>2 DEF StandardBonds
  <1> HIDE DEF standard, rest, f, h
  <1>8. SumFunctionOnSet(f, standard) = SumFunctionOnSet(h, standard)
    BY <1>1, <1>3, SumSame
  <1>9. SumFunctionOnSet(h, rest) = 0
    BY <1>1, <1>4, SumZero
  <1>10. /\ SumFunctionOnSet(h, standard \cup rest) = SumFunctionOnSet(h, standard) + SumFunctionOnSet(h, rest)
         /\ SumFunctionOnSet(h, standard) \in Int
    BY <1>1, <1>2, <1>5, SumUnion
  <1> QED BY <1>6, <1>7, <1>8, <1>9, <1>10 DEF f, standard

LEMMA PiggybackSum ==
    ASSUME NEW games \in [Txs -> InFlightExitData]
    PROVE  LET piggybacks == UNION {{t} \X games[t].exitMap : t \in Txs}
               bonds == SumFunction([t \in Txs |-> games[t].bondSize])
               piggybackBonds == SumFunction([b \in piggybacks |-> games[b[1]].piggybackBond[b[2]]])
           IN  /\ bonds + piggybackBonds = AllGameBonds(games)
               /\ bonds \in Int /\ piggybackBonds \in Int
  <1> DEFINE pairs(T) == UNION {{t} \X games[t].exitMap : t \in T}
             f == [b \in pairs(Txs) |-> games[b[1]].piggybackBond[b[2]]]
             g == [t \in Txs |-> SumFunctionOnSet(games[t].piggybackBond, games[t].exitMap)]
             Good == {T \in SUBSET Txs :
                        IsFiniteSet(pairs(T)) /\ SumFunctionOnSet(f, pairs(T)) = SumFunctionOnSet(g, T)}
  <1>1. IsFiniteSet(Txs)
    BY TxAssumption
  <1>2. {} \in Good
    <2>1. pairs({}) = {}
      OBVIOUS
    <2> QED BY <2>1, SumEmpty, FS_EmptySet
  <1>3. ASSUME NEW T \in SUBSET Txs, T # {}, \A t \in T : T \ {t} \in Good PROVE T \in Good
    <2>1. PICK t \in T : TRUE
      BY <1>3
    <2> DEFINE R == T \ {t}
               map == games[t].exitMap
               bond == games[t].piggybackBond
               own == {t} \X map
               e == [o \in map |-> <<t, o>>]
    <2>2. map \subseteq Slots /\ bond \in [Slots -> Nat] /\ IsFiniteSet(map)
      BY BondTypes DEF InFlightExitData
    <2>3. own = {e[o] : o \in map} /\ (\A o, d \in map : e[o] = e[d] => o = d)
      <3> HIDE DEF map
      <3>1. \A o \in map : e[o] = <<t, o>>
        OBVIOUS
      <3> QED BY <3>1
    <2>4. IsFiniteSet(own)
      <3> HIDE DEF own, e, map
      <3> QED BY <2>2, <2>3, FiniteImage
    <2>5. pairs(T) = pairs(R) \cup own /\ pairs(R) \cap own = {}
      OBVIOUS
    <2>6. \A o \in map : bond[o] = f[e[o]] /\ f[e[o]] \in Int
      BY <2>2
    <2>7. SumFunctionOnSet(f, own) = SumFunctionOnSet(bond, map)
      <3> HIDE DEF own, e, map, bond, f
      <3>1. \A U \in SUBSET map : SumFunctionOnSet(f, {e[o] : o \in U}) = SumFunctionOnSet(bond, U)
        BY <2>2, <2>3, <2>6, SumImage
      <3> QED BY <3>1, <2>3
    <2>8. IsFiniteSet(pairs(R)) /\ SumFunctionOnSet(f, pairs(R)) = SumFunctionOnSet(g, R)
      BY <1>3
    <2>9. \A b \in pairs(R) \cup own : f[b] \in Int
      <3> SUFFICES ASSUME NEW b \in pairs(Txs) PROVE f[b] \in Int
        OBVIOUS
      <3>1. PICK s \in Txs : b \in {s} \X games[s].exitMap
        OBVIOUS
      <3>2. b[1] = s /\ b[2] \in games[s].exitMap
        BY <3>1
      <3>3. games[s].exitMap \subseteq Slots /\ games[s].piggybackBond \in [Slots -> Nat]
        BY DEF InFlightExitData
      <3> QED BY <3>2, <3>3
    <2>10. \A s \in T : g[s] \in Int
      BY BondTypes
    <2>11. g[t] = SumFunctionOnSet(bond, map)
      OBVIOUS
    <2>12. IsFiniteSet(T)
      BY <1>1, FS_Subset
    <2> HIDE DEF own, f, g, pairs, bond, map
    <2>13. /\ SumFunctionOnSet(f, pairs(R) \cup own) = SumFunctionOnSet(f, pairs(R)) + SumFunctionOnSet(f, own)
           /\ IsFiniteSet(pairs(R) \cup own)
      BY <2>4, <2>5, <2>8, <2>9, SumUnion, FS_Union
    <2>14. /\ SumFunctionOnSet(g, T) = g[t] + SumFunctionOnSet(g, R)
           /\ SumFunctionOnSet(g, R) \in Int /\ g[t] \in Int
      BY <2>10, <2>12, SumRemove
    <2>15. SumFunctionOnSet(f, pairs(T)) = SumFunctionOnSet(g, T)
      BY <2>5, <2>7, <2>8, <2>11, <2>13, <2>14
    <2>16. IsFiniteSet(pairs(T))
      BY <2>5, <2>13
    <2> QED BY <2>15, <2>16
  <1>4. Txs \in Good
    <2> HIDE DEF Good
    <2> QED BY <1>1, <1>2, <1>3, SubsetInduction
  <1> DEFINE k == [t \in Txs |-> GameBonds(games[t])]
             h == [t \in Txs |-> games[t].bondSize]
  <1>5. \A t \in Txs : h[t] \in Int /\ g[t] \in Int /\ k[t] = h[t] + g[t]
    BY BondTypes DEF GameBonds, InFlightExitData
  <1>6. /\ SumFunction(h) = SumFunctionOnSet(h, Txs)
        /\ SumFunction(f) = SumFunctionOnSet(f, pairs(Txs))
        /\ AllGameBonds(games) = SumFunctionOnSet(k, Txs)
    BY DEF SumFunction, AllGameBonds
  <1>7. SumFunctionOnSet(f, pairs(Txs)) = SumFunctionOnSet(g, Txs)
    BY <1>4
  <1> HIDE DEF Good, f, g, h, k
  <1>8. SumFunctionOnSet(k, Txs) = SumFunctionOnSet(h, Txs) + SumFunctionOnSet(g, Txs)
    BY <1>1, <1>5, SumPlus
  <1>9. SumFunctionOnSet(h, Txs) \in Int /\ SumFunctionOnSet(g, Txs) \in Int
    BY <1>1, <1>5, SumInt
  <1>10. /\ SumFunction(h) + SumFunction(f) = AllGameBonds(games)
         /\ SumFunction(h) \in Int /\ SumFunction(f) \in Int
    BY <1>6, <1>7, <1>8, <1>9
  <1> QED BY <1>10 DEF h, f

LEMMA BondSums ==
    /\ \A exits \in [OutputIds -> StandardExitData] : StandardBonds(exits) \in Nat
    /\ \A games \in [Txs -> InFlightExitData] : AllGameBonds(games) \in Nat
  <1>1. ASSUME NEW exits \in [OutputIds -> StandardExitData] PROVE StandardBonds(exits) \in Nat
    <2> DEFINE h == [o \in OutputIds |-> StandardBond(exits[o])]
    <2>1. \A o \in OutputIds : h[o] \in Nat
      BY BondTypes
    <2>2. StandardBonds(exits) = SumFunctionOnSet(h, OutputIds)
      BY DEF StandardBonds
    <2> HIDE DEF h
    <2> QED BY <2>1, <2>2, OutputsAreFinite, SumNat
  <1>2. ASSUME NEW games \in [Txs -> InFlightExitData] PROVE AllGameBonds(games) \in Nat
    <2> DEFINE h == [t \in Txs |-> GameBonds(games[t])]
    <2>1. \A t \in Txs : h[t] \in Nat
      BY BondTypes
    <2>2. AllGameBonds(games) = SumFunctionOnSet(h, Txs)
      BY DEF AllGameBonds
    <2> HIDE DEF h
    <2> QED BY <2>1, <2>2, TxsAreFinite, SumNat
  <1> QED BY <1>1, <1>2

LEMMA OwedIsBonds ==
    /\ StandardExitTypeOK /\ InFlightExitTypeOK =>
            Owed = StandardBonds(standardExits) + AllGameBonds(inFlightExits)
    /\ StandardExitTypeOK' /\ InFlightExitTypeOK' =>
            Owed' = StandardBonds(standardExits') + AllGameBonds(inFlightExits')
  <1>1. ASSUME NEW exits \in [OutputIds -> StandardExitData], NEW games \in [Txs -> InFlightExitData]
        PROVE  LET standard == {o \in OutputIds : exits[o].exitable}
                   piggybacks == UNION {{t} \X games[t].exitMap : t \in Txs}
               IN  SumFunction([o \in standard |-> exits[o].bondSize])
                    + SumFunction([t \in Txs |-> games[t].bondSize])
                    + SumFunction([b \in piggybacks |-> games[b[1]].piggybackBond[b[2]]])
                    = StandardBonds(exits) + AllGameBonds(games)
    <2> DEFINE a == SumFunction([o \in {o \in OutputIds : exits[o].exitable} |-> exits[o].bondSize])
               b == SumFunction([t \in Txs |-> games[t].bondSize])
               c == SumFunction([p \in UNION {{t} \X games[t].exitMap : t \in Txs} |->
                        games[p[1]].piggybackBond[p[2]]])
    <2>1. a = StandardBonds(exits)
      BY StandardSum
    <2>2. b + c = AllGameBonds(games) /\ b \in Int /\ c \in Int
      BY PiggybackSum
    <2>3. a \in Int
      BY <2>1, BondSums
    <2> HIDE DEF a, b, c
    <2>4. a + b + c = StandardBonds(exits) + AllGameBonds(games)
      BY <2>1, <2>2, <2>3
    <2> QED BY <2>4 DEF a, b, c
  <1> QED BY <1>1 DEF Owed, StandardExitTypeOK, InFlightExitTypeOK

\* A step that changes one exit changes what is owed by the bonds of that one.
LEMMA StandardOwed ==
    ASSUME TypeInv, NEW o \in OutputIds, NEW exit \in StandardExitData,
           standardExits' = [standardExits EXCEPT ![o] = exit], UNCHANGED inFlightExits
    PROVE  Owed' = Owed - StandardBond(standardExits[o]) + StandardBond(exit)
  <1>1. StandardExitTypeOK /\ InFlightExitTypeOK
    BY DEF TypeInv, TypeOK
  <1>2. StandardExitTypeOK' /\ InFlightExitTypeOK'
    BY <1>1, UpdateStandardLemma DEF InFlightExitTypeOK
  <1> DEFINE f == [d \in OutputIds |-> StandardBond(standardExits[d])]
             h == [d \in OutputIds |-> StandardBond(standardExits'[d])]
  <1>3. StandardBonds(standardExits) = SumFunctionOnSet(f, OutputIds)
        /\ StandardBonds(standardExits') = SumFunctionOnSet(h, OutputIds)
    BY DEF StandardBonds
  <1>4. \A d \in OutputIds : f[d] \in Int /\ h[d] \in Int
    BY <1>1, <1>2, BondTypes DEF StandardExitTypeOK
  <1>5. \A d \in OutputIds \ {o} : f[d] = h[d]
    BY <1>1 DEF StandardExitTypeOK
  <1>6. f[o] = StandardBond(standardExits[o]) /\ h[o] = StandardBond(exit)
    BY <1>1 DEF StandardExitTypeOK
  <1> HIDE DEF f, h
  <1>7. /\ SumFunctionOnSet(h, OutputIds) = SumFunctionOnSet(f, OutputIds) - f[o] + h[o]
        /\ SumFunctionOnSet(f, OutputIds) \in Int
    BY <1>4, <1>5, OutputsAreFinite, SumChange
  <1>8. AllGameBonds(inFlightExits) \in Int
    BY <1>1, BondSums DEF InFlightExitTypeOK
  <1>9. /\ Owed = SumFunctionOnSet(f, OutputIds) + AllGameBonds(inFlightExits)
        /\ Owed' = SumFunctionOnSet(h, OutputIds) + AllGameBonds(inFlightExits)
    BY <1>1, <1>2, <1>3, OwedIsBonds
  <1> QED BY <1>4, <1>6, <1>7, <1>8, <1>9

LEMMA InFlightOwed ==
    ASSUME TypeInv, NEW t \in Txs, NEW ife \in InFlightExitData,
           inFlightExits' = [inFlightExits EXCEPT ![t] = ife], UNCHANGED standardExits
    PROVE  Owed' = Owed - GameBonds(inFlightExits[t]) + GameBonds(ife)
  <1>1. StandardExitTypeOK /\ InFlightExitTypeOK
    BY DEF TypeInv, TypeOK
  <1>2. StandardExitTypeOK' /\ InFlightExitTypeOK'
    BY <1>1 DEF InFlightExitTypeOK, StandardExitTypeOK
  <1> DEFINE f == [s \in Txs |-> GameBonds(inFlightExits[s])]
             h == [s \in Txs |-> GameBonds(inFlightExits'[s])]
  <1>3. AllGameBonds(inFlightExits) = SumFunctionOnSet(f, Txs)
        /\ AllGameBonds(inFlightExits') = SumFunctionOnSet(h, Txs)
    BY DEF AllGameBonds
  <1>4. \A s \in Txs : f[s] \in Int /\ h[s] \in Int
    BY <1>1, <1>2, BondTypes DEF InFlightExitTypeOK
  <1>5. \A s \in Txs \ {t} : f[s] = h[s]
    BY <1>1 DEF InFlightExitTypeOK
  <1>6. f[t] = GameBonds(inFlightExits[t]) /\ h[t] = GameBonds(ife)
    BY <1>1 DEF InFlightExitTypeOK
  <1> HIDE DEF f, h
  <1>7. /\ SumFunctionOnSet(h, Txs) = SumFunctionOnSet(f, Txs) - f[t] + h[t]
        /\ SumFunctionOnSet(f, Txs) \in Int
    BY <1>4, <1>5, TxsAreFinite, SumChange
  <1>8. StandardBonds(standardExits) \in Int
    BY <1>1, BondSums DEF StandardExitTypeOK
  <1>9. /\ Owed = StandardBonds(standardExits) + SumFunctionOnSet(f, Txs)
        /\ Owed' = StandardBonds(standardExits) + SumFunctionOnSet(h, Txs)
    BY <1>1, <1>2, <1>3, OwedIsBonds
  <1> QED BY <1>4, <1>6, <1>7, <1>8, <1>9

LEMMA OwedType ==
    /\ TypeInv => Owed \in Nat
    /\ TypeInv' => Owed' \in Nat
  BY OwedIsBonds, BondSums DEF TypeInv, TypeOK, StandardExitTypeOK, InFlightExitTypeOK

LEMMA SameOwed ==
    ASSUME UNCHANGED <<standardExits, inFlightExits>>
    PROVE  Owed' = Owed
  BY DEF Owed

----------------------------------------------------------------------------
(* The steps. *)

\* A bounty is part of its bond; an exit that is not there holds no bond and no piggyback; the
\* amount of a standard exit that can exit is that of its output.
BondData ==
    /\ ethBalance \in Int
    /\ \A o \in OutputIds :
        /\ standardExits[o].bountySize <= standardExits[o].bondSize
        /\ standardExits[o].exitable => standardExits[o].amount = Amount(o)
    /\ \A t \in Txs :
        /\ \A s \in Slots : inFlightExits[t].piggybackBounty[s] <= inFlightExits[t].piggybackBond[s]
        /\ ~IsStarted(t) => inFlightExits[t].bondSize = 0 /\ inFlightExits[t].exitMap = {}

\* The balance moves with what is owed, or falls short of that only by an exit that is omitted
\* though nobody challenged it.
Covered == ethBalance' - ethBalance >= Owed' - Owed
Omitted ==
    \E o \in OutputIds :
        /\ standardExits[o].exitable /\ IsOutputFinalized(o)
        /\ standardExits'[o] = NoStandardExit
        /\ ethBalance' = ethBalance
Accounted == ethBalance' - ethBalance = Owed' - Owed \/ Omitted
NoneRefused == MayRefuse = FALSE
AmountsNotZero == \A o \in OutputIds : Amount(o) # 0

\* What each step is shown to do.
Settled ==
    /\ BondData'
    /\ Covered
    /\ NoneRefused /\ AmountsNotZero => Accounted

LEMMA NoBonds == GameBonds(NoInFlightExit) = 0 /\ StandardBond(NoStandardExit) = 0
  <1>1. NoInFlightExit.bondSize = 0 /\ NoInFlightExit.exitMap = {}
    BY DEF NoInFlightExit
  <1>2. SumFunctionOnSet(NoInFlightExit.piggybackBond, {}) = 0
    BY SumEmpty
  <1>3. GameBonds(NoInFlightExit) = 0 + 0
    BY <1>1, <1>2 DEF GameBonds
  <1> QED BY <1>3 DEF StandardBond, NoStandardExit

LEMMA InitBondData == Init => BondData /\ EthSolvency
  <1> SUFFICES ASSUME Init PROVE BondData /\ EthSolvency
    OBVIOUS
  <1>1. TypeInv
    BY InitTypeInv
  <1>2. standardExits = [o \in OutputIds |-> NoStandardExit] /\ inFlightExits = [t \in Txs |-> NoInFlightExit]
        /\ ethBalance = 0
    BY DEF Init, StandardExitInit, InFlightExitInit, FundsInit
  <1>3. BondData
    BY <1>2 DEF BondData, NoStandardExit, NoInFlightExit, IsStarted
  <1>4. \A o \in OutputIds : StandardBond(standardExits[o]) = 0
    BY <1>2 DEF StandardBond, NoStandardExit
  <1>5. \A t \in Txs : GameBonds(inFlightExits[t]) = 0
    BY <1>2, NoBonds
  <1>6. StandardBonds(standardExits) = 0
    <2> DEFINE f == [o \in OutputIds |-> StandardBond(standardExits[o])]
    <2>1. \A o \in OutputIds : f[o] = 0
      BY <1>4
    <2>2. StandardBonds(standardExits) = SumFunctionOnSet(f, OutputIds)
      BY DEF StandardBonds
    <2> HIDE DEF f
    <2> QED BY <2>1, <2>2, OutputsAreFinite, SumZero
  <1>7. AllGameBonds(inFlightExits) = 0
    <2> DEFINE f == [t \in Txs |-> GameBonds(inFlightExits[t])]
    <2>1. \A t \in Txs : f[t] = 0
      BY <1>5
    <2>2. AllGameBonds(inFlightExits) = SumFunctionOnSet(f, Txs)
      BY DEF AllGameBonds
    <2> HIDE DEF f
    <2> QED BY <2>1, <2>2, TxsAreFinite, SumZero
  <1>8. Owed = 0
    BY <1>1, <1>6, <1>7, OwedIsBonds DEF TypeInv, TypeOK
  <1> QED BY <1>2, <1>3, <1>8 DEF EthSolvency

\* What changes no exit and no balance.
LEMMA IdleSettles ==
    ASSUME TypeInv, BondData, UNCHANGED <<standardExits, inFlightExits, ethBalance>>
    PROVE  Settled
  <1>1. BondData'
    BY DEF BondData, IsStarted
  <1>2. Owed' = Owed /\ Owed \in Nat /\ ethBalance \in Int
    BY SameOwed, OwedType DEF BondData
  <1> QED BY <1>1, <1>2 DEF Settled, Covered, Accounted

\* What changes one standard exit, or one in-flight exit: what is left to show is how the balance
\* follows the bonds of that exit.
LEMMA StandardSettles ==
    ASSUME TypeInv, BondData, NEW o \in OutputIds, NEW exit \in StandardExitData,
           standardExits' = [standardExits EXCEPT ![o] = exit], UNCHANGED inFlightExits,
           exit.bountySize <= exit.bondSize, exit.exitable => exit.amount = Amount(o),
           ethBalance' \in Int,
           ethBalance' - ethBalance >= StandardBond(exit) - StandardBond(standardExits[o]),
           NoneRefused /\ AmountsNotZero =>
                \/ ethBalance' - ethBalance = StandardBond(exit) - StandardBond(standardExits[o])
                \/ Omitted
    PROVE  Settled
  <1>1. Owed' = Owed - StandardBond(standardExits[o]) + StandardBond(exit)
    BY StandardOwed
  <1>2. Owed \in Int /\ ethBalance \in Int
    BY OwedType DEF BondData
  <1>3. standardExits \in [OutputIds -> StandardExitData]
    BY DEF TypeInv, TypeOK, StandardExitTypeOK
  <1>4. StandardBond(standardExits[o]) \in Int /\ StandardBond(exit) \in Int
    BY <1>3, BondTypes
  <1>5. BondData'
    BY <1>3 DEF BondData, IsStarted
  <1>6. Covered
    BY <1>1, <1>2, <1>4 DEF Covered
  <1>7. NoneRefused /\ AmountsNotZero => Accounted
    BY <1>1, <1>2, <1>4 DEF Accounted
  <1> QED BY <1>5, <1>6, <1>7 DEF Settled

LEMMA InFlightSettles ==
    ASSUME TypeInv, BondData, NEW t \in Txs, NEW ife \in InFlightExitData,
           inFlightExits' = [inFlightExits EXCEPT ![t] = ife], UNCHANGED standardExits,
           \A o \in Slots : ife.piggybackBounty[o] <= ife.piggybackBond[o],
           ife.exitStartTimestamp = 0 => ife.bondSize = 0 /\ ife.exitMap = {},
           ethBalance' \in Int,
           ethBalance' - ethBalance >= GameBonds(ife) - GameBonds(inFlightExits[t]),
           NoneRefused => ethBalance' - ethBalance = GameBonds(ife) - GameBonds(inFlightExits[t])
    PROVE  Settled
  <1>1. Owed' = Owed - GameBonds(inFlightExits[t]) + GameBonds(ife)
    BY InFlightOwed
  <1>2. Owed \in Int /\ ethBalance \in Int
    BY OwedType DEF BondData
  <1>3. inFlightExits \in [Txs -> InFlightExitData]
    BY DEF TypeInv, TypeOK, InFlightExitTypeOK
  <1>4. GameBonds(inFlightExits[t]) \in Int /\ GameBonds(ife) \in Int
    BY <1>3, BondTypes
  <1>5. BondData'
    BY <1>3 DEF BondData, IsStarted
  <1>6. Covered
    BY <1>1, <1>2, <1>4 DEF Covered
  <1>7. NoneRefused => Accounted
    BY <1>1, <1>2, <1>4 DEF Accounted
  <1> QED BY <1>5, <1>6, <1>7 DEF Settled

LEMMA BondOf ==
    ASSUME NEW bond \in BondSizes
    PROVE  bond.size \in Nat /\ bond.bounty \in Nat /\ bond.bounty <= bond.size
  BY BondAssumption

LEMMA StandardExitsSettle ==
    ASSUME TypeInv, BondData, StandardExits
    PROVE  Settled
  <1>1. UNCHANGED inFlightExits /\ StandardExitable \subseteq OutputIds
    BY StandardExitAssumption DEF StandardExits
  <1>2. standardExits \in [OutputIds -> StandardExitData] /\ ethBalance \in Int
    BY DEF TypeInv, TypeOK, StandardExitTypeOK, BondData
  <1>3. ASSUME NEW o \in OutputIds, NEW p \in DOMAIN chain, NEW bond \in BondSizes,
               StartStandardExit(o, p, bond)
        PROVE  Settled
    <2> DEFINE exit == [exitable |-> TRUE, utxoPos |-> p, amount |-> Amount(o),
                        bondSize |-> bond.size, bountySize |-> bond.bounty]
    <2>1. bond.size \in Nat /\ bond.bounty \in Nat /\ bond.bounty <= bond.size
      BY BondOf
    <2>2. exit \in StandardExitData
      <3>1. p \in Nat /\ Amount(o) \in Nat
        BY ExitableAtLemma, OutputOf DEF TypeInv, TypeOK
      <3> QED BY <3>1, <2>1 DEF StandardExitData
    <2>3. /\ standardExits' = [standardExits EXCEPT ![o] = exit]
          /\ ethBalance' = ethBalance + bond.size
          /\ standardExits[o].amount = 0
      BY <1>3 DEF StartStandardExit
    <2>4. StandardBond(exit) = bond.size /\ StandardBond(standardExits[o]) \in Nat
      BY <1>2, BondTypes DEF StandardBond
    <2>5. AmountsNotZero => StandardBond(standardExits[o]) = 0
      BY <2>3 DEF AmountsNotZero, StandardBond, BondData
    <2>6. exit.bountySize <= exit.bondSize /\ exit.amount = Amount(o)
      BY <2>1
    <2> HIDE DEF exit
    <2>7. /\ ethBalance' \in Int
          /\ ethBalance' - ethBalance >= StandardBond(exit) - StandardBond(standardExits[o])
          /\ AmountsNotZero =>
                ethBalance' - ethBalance = StandardBond(exit) - StandardBond(standardExits[o])
      BY <1>2, <2>1, <2>3, <2>4, <2>5
    <2> QED BY <1>1, <2>2, <2>3, <2>6, <2>7, StandardSettles
  <1>4. ASSUME NEW o \in OutputIds, NEW t \in Txs, ChallengeStandardExit(o, t)
        PROVE  Settled
    <2> DEFINE exit == [standardExits[o] EXCEPT !.exitable = FALSE]
    <2>1. exit \in StandardExitData /\ ~exit.exitable
      BY <1>2 DEF StandardExitData
    <2>2. /\ standardExits' = [standardExits EXCEPT ![o] = exit]
          /\ ethBalance' = ethBalance - standardExits[o].bondSize
          /\ standardExits[o].exitable
      BY <1>4 DEF ChallengeStandardExit
    <2>3. /\ StandardBond(exit) = 0 /\ StandardBond(standardExits[o]) = standardExits[o].bondSize
          /\ standardExits[o].bondSize \in Nat
      BY <1>2, <2>1, <2>2 DEF StandardBond, StandardExitData
    <2>4. exit.bountySize <= exit.bondSize
      BY <1>2 DEF BondData, StandardExitData
    <2> HIDE DEF exit
    <2>5. /\ ethBalance' \in Int
          /\ ethBalance' - ethBalance = StandardBond(exit) - StandardBond(standardExits[o])
          /\ ethBalance' - ethBalance >= StandardBond(exit) - StandardBond(standardExits[o])
      BY <1>2, <2>2, <2>3
    <2> QED BY <1>1, <2>1, <2>2, <2>4, <2>5, StandardSettles
  <1> QED BY <1>1, <1>3, <1>4 DEF StandardExits

LEMMA InFlightData ==
    ASSUME TypeInv, BondData, NEW t \in Txs
    PROVE  /\ inFlightExits[t] \in InFlightExitData
           /\ inFlightExits[t].bondSize \in Nat
           /\ inFlightExits[t].exitMap \subseteq Slots /\ IsFiniteSet(inFlightExits[t].exitMap)
           /\ inFlightExits[t].piggybackBond \in [Slots -> Nat]
           /\ inFlightExits[t].piggybackBounty \in [Slots -> Nat]
           /\ \A o \in Slots : inFlightExits[t].piggybackBounty[o] <= inFlightExits[t].piggybackBond[o]
           /\ SumFunctionOnSet(inFlightExits[t].piggybackBond, inFlightExits[t].exitMap) \in Nat
           /\ ethBalance \in Int
  <1>1. inFlightExits[t] \in InFlightExitData
    BY InFlightExitLemma
  <1> QED BY <1>1, BondTypes DEF InFlightExitData, BondData

LEMMA StartInFlightSettles ==
    ASSUME TypeInv, BondData, NEW t \in Txs, NEW bond \in BondSizes,
           StartInFlightExit(t, bond.size), UNCHANGED standardExits, now # 0
    PROVE  Settled
  <1>1. PICK youngest \in Range(TxInputs[t]) :
            inFlightExits' = [inFlightExits EXCEPT ![t] =
                [NoInFlightExit EXCEPT
                    !.isCanonical = TRUE,
                    !.exitStartTimestamp = now,
                    !.position = youngest.position,
                    !.bondSize = bond.size]]
    BY DEF StartInFlightExit
  <1> DEFINE ife == [NoInFlightExit EXCEPT
                    !.isCanonical = TRUE,
                    !.exitStartTimestamp = now,
                    !.position = youngest.position,
                    !.bondSize = bond.size]
  <1>2. bond.size \in Nat
    BY BondOf
  <1>3. ife \in InFlightExitData
    <2>1. now \in Nat /\ youngest.position \in Nat
      BY InputOf DEF TypeInv, TypeOK, ChainTypeOK
    <2> QED BY <1>2, <2>1, NoExitsLemma DEF InFlightExitData
  <1>4. /\ ife.bondSize = bond.size /\ ife.exitMap = {}
        /\ \A o \in Slots : ife.piggybackBounty[o] <= ife.piggybackBond[o]
    BY DEF NoInFlightExit
  <1>5. GameBonds(ife) = bond.size
    <2>1. SumFunctionOnSet(ife.piggybackBond, {}) = 0
      BY SumEmpty
    <2>2. GameBonds(ife) = bond.size + 0
      BY <1>4, <2>1 DEF GameBonds
    <2> QED BY <1>2, <2>2
  <1>6. GameBonds(inFlightExits[t]) = 0
    <2>1. inFlightExits[t].bondSize = 0 /\ inFlightExits[t].exitMap = {}
      BY DEF StartInFlightExit, BondData
    <2>2. SumFunctionOnSet(inFlightExits[t].piggybackBond, {}) = 0
      BY SumEmpty
    <2>3. GameBonds(inFlightExits[t]) = 0 + 0
      BY <2>1, <2>2 DEF GameBonds
    <2> QED BY <2>3
  <1>8. ethBalance' = ethBalance + bond.size /\ ethBalance \in Int
    BY DEF StartInFlightExit, BondData
  <1>9. inFlightExits' = [inFlightExits EXCEPT ![t] = ife] /\ ife.exitStartTimestamp = now
    BY <1>1 DEF NoInFlightExit
  <1> HIDE DEF ife
  <1>7. /\ ethBalance' \in Int
        /\ ethBalance' - ethBalance = GameBonds(ife) - GameBonds(inFlightExits[t])
        /\ ethBalance' - ethBalance >= GameBonds(ife) - GameBonds(inFlightExits[t])
    BY <1>2, <1>5, <1>6, <1>8
  <1> QED BY <1>3, <1>4, <1>7, <1>9, InFlightSettles

LEMMA PiggybackSettles ==
    ASSUME TypeInv, BondData, NEW t \in Txs, NEW s \in Slots, NEW bond \in BondSizes,
           Piggyback(t, s, bond), UNCHANGED standardExits
    PROVE  Settled
  <1> DEFINE old == inFlightExits[t]
             ife == SetPiggybacked(t, s, bond)
             map == old.exitMap
  <1>1. /\ bond.size \in Nat /\ bond.bounty \in Nat /\ bond.bounty <= bond.size
        /\ old \in InFlightExitData
    BY BondOf, InFlightData
  <1>2. /\ old.bondSize \in Nat /\ map \subseteq Slots /\ IsFiniteSet(map)
        /\ old.piggybackBond \in [Slots -> Nat] /\ old.piggybackBounty \in [Slots -> Nat]
        /\ SumFunctionOnSet(old.piggybackBond, map) \in Nat
        /\ ethBalance \in Int
    BY InFlightData
  <1>3. \A d \in Slots : old.piggybackBounty[d] <= old.piggybackBond[d]
    BY InFlightData
  <1>4. ife \in InFlightExitData
    BY <1>1, <1>2 DEF SetPiggybacked, InFlightExitData
  <1>5. /\ ife.bondSize = old.bondSize /\ ife.exitMap = map \cup {s}
        /\ ife.piggybackBond = [old.piggybackBond EXCEPT ![s] = bond.size]
        /\ ife.piggybackBounty = [old.piggybackBounty EXCEPT ![s] = bond.bounty]
        /\ ife.exitStartTimestamp = old.exitStartTimestamp
    BY <1>1 DEF SetPiggybacked, InFlightExitData
  <1>6. \A d \in Slots : ife.piggybackBounty[d] <= ife.piggybackBond[d]
    BY <1>1, <1>2, <1>3, <1>5
  <1>7. /\ s \notin map /\ old.exitStartTimestamp # 0
        /\ inFlightExits' = [inFlightExits EXCEPT ![t] = ife]
        /\ ethBalance' = ethBalance + bond.size
    BY DEF Piggyback, IsStarted
  <1> HIDE DEF old, ife, map
  <1>8. SumFunctionOnSet(ife.piggybackBond, map \cup {s}) = bond.size + SumFunctionOnSet(ife.piggybackBond, map)
    <2>1. ife.piggybackBond[s] = bond.size /\ \A d \in map \cup {s} : ife.piggybackBond[d] \in Int
      BY <1>1, <1>2, <1>5
    <2> QED BY <2>1, <1>2, <1>7, SumAdd
  <1>9. SumFunctionOnSet(ife.piggybackBond, map) = SumFunctionOnSet(old.piggybackBond, map)
    <2>1. \A d \in map : ife.piggybackBond[d] = old.piggybackBond[d]
      BY <1>2, <1>5, <1>7
    <2> QED BY <2>1, <1>2, SumSame
  <1>10. /\ GameBonds(ife) = old.bondSize + SumFunctionOnSet(ife.piggybackBond, map \cup {s})
         /\ GameBonds(old) = old.bondSize + SumFunctionOnSet(old.piggybackBond, map)
    BY <1>5 DEF GameBonds, map
  <1>11. /\ ethBalance' \in Int
         /\ ethBalance' - ethBalance = GameBonds(ife) - GameBonds(old)
         /\ ethBalance' - ethBalance >= GameBonds(ife) - GameBonds(old)
    BY <1>1, <1>2, <1>7, <1>8, <1>9, <1>10
  <1> QED BY <1>4, <1>5, <1>6, <1>7, <1>11, InFlightSettles DEF old

LEMMA CanonicitySettles ==
    ASSUME TypeInv, TypeInv', BondData, NEW t \in Txs, NEW c \in Txs, NEW p \in DOMAIN chain \cup {Infinity},
           \/ ChallengeInFlightExitNotCanonical(t, c, p)
           \/ p \in DOMAIN chain /\ RespondToNonCanonicalChallenge(t, p),
           UNCHANGED standardExits
    PROVE  Settled
  <1> DEFINE old == inFlightExits[t]
             ife(b) == [old EXCEPT !.oldestCompetitorPosition = p, !.isCanonical = b]
  <1>1. PICK b \in BOOLEAN : inFlightExits' = [inFlightExits EXCEPT ![t] = ife(b)]
    BY DEF ChallengeInFlightExitNotCanonical, RespondToNonCanonicalChallenge
  <1>2. UNCHANGED ethBalance /\ old.exitStartTimestamp # 0
    BY DEF ChallengeInFlightExitNotCanonical, RespondToNonCanonicalChallenge, fundVars, IsStarted
  <1>3. old \in InFlightExitData /\ ethBalance \in Int /\ GameBonds(old) \in Nat
    BY InFlightData, BondTypes
  <1>5. ife(b) \in InFlightExitData
    BY <1>1 DEF TypeInv, TypeOK, InFlightExitTypeOK
  <1>6. /\ ife(b).bondSize = old.bondSize /\ ife(b).exitMap = old.exitMap
        /\ ife(b).piggybackBond = old.piggybackBond /\ ife(b).piggybackBounty = old.piggybackBounty
        /\ ife(b).exitStartTimestamp = old.exitStartTimestamp
    BY <1>3 DEF InFlightExitData
  <1>7. GameBonds(ife(b)) = GameBonds(old)
    BY <1>6 DEF GameBonds
  <1>8. \A o \in Slots : ife(b).piggybackBounty[o] <= ife(b).piggybackBond[o]
    BY <1>6, InFlightData
  <1>9. /\ ethBalance' \in Int
        /\ ethBalance' - ethBalance = GameBonds(ife(b)) - GameBonds(inFlightExits[t])
        /\ ethBalance' - ethBalance >= GameBonds(ife(b)) - GameBonds(inFlightExits[t])
    BY <1>2, <1>3, <1>7
  <1> DEFINE new == ife(b)
  <1>10. /\ new \in InFlightExitData /\ inFlightExits' = [inFlightExits EXCEPT ![t] = new]
         /\ new.exitStartTimestamp # 0
         /\ \A o \in Slots : new.piggybackBounty[o] <= new.piggybackBond[o]
         /\ ethBalance' - ethBalance = GameBonds(new) - GameBonds(inFlightExits[t])
         /\ ethBalance' - ethBalance >= GameBonds(new) - GameBonds(inFlightExits[t])
    BY <1>1, <1>2, <1>5, <1>6, <1>8, <1>9
  <1> HIDE DEF new, old
  <1> QED BY <1>9, <1>10, InFlightSettles

LEMMA UnpiggybackSettles ==
    ASSUME TypeInv, BondData, NEW t \in Txs, NEW s \in Slots, IsStarted(t), Unpiggyback(t, s),
           UNCHANGED standardExits
    PROVE  Settled
  <1> DEFINE old == inFlightExits[t]
             ife == [old EXCEPT !.exitMap = @ \ {s}]
             map == old.exitMap
  <1>1. /\ old \in InFlightExitData /\ old.bondSize \in Nat /\ map \subseteq Slots /\ IsFiniteSet(map)
        /\ old.piggybackBond \in [Slots -> Nat]
        /\ SumFunctionOnSet(old.piggybackBond, map) \in Nat
        /\ ethBalance \in Int
    BY InFlightData
  <1>2. ife \in InFlightExitData
    BY <1>1 DEF InFlightExitData
  <1>3. /\ ife.bondSize = old.bondSize /\ ife.exitMap = map \ {s}
        /\ ife.piggybackBond = old.piggybackBond /\ ife.piggybackBounty = old.piggybackBounty
        /\ ife.exitStartTimestamp = old.exitStartTimestamp
    BY <1>1 DEF InFlightExitData
  <1>4. \A d \in Slots : ife.piggybackBounty[d] <= ife.piggybackBond[d]
    BY <1>3, InFlightData
  <1>5. /\ s \in map /\ old.exitStartTimestamp # 0
        /\ inFlightExits' = [inFlightExits EXCEPT ![t] = ife]
        /\ ethBalance' = ethBalance - old.piggybackBond[s]
    BY DEF Unpiggyback, IsStarted, TypeInv, TypeOK, InFlightExitTypeOK
  <1> HIDE DEF old, ife, map
  <1>6. /\ SumFunctionOnSet(old.piggybackBond, map) =
            old.piggybackBond[s] + SumFunctionOnSet(old.piggybackBond, map \ {s})
        /\ SumFunctionOnSet(old.piggybackBond, map \ {s}) \in Int
    <2>1. \A d \in map : old.piggybackBond[d] \in Int
      BY <1>1
    <2> QED BY <2>1, <1>1, <1>5, SumRemove
  <1>7. /\ GameBonds(ife) = old.bondSize + SumFunctionOnSet(old.piggybackBond, map \ {s})
        /\ GameBonds(old) = old.bondSize + SumFunctionOnSet(old.piggybackBond, map)
    BY <1>3 DEF GameBonds, map
  <1>8. /\ ethBalance' \in Int
        /\ ethBalance' - ethBalance = GameBonds(ife) - GameBonds(old)
        /\ ethBalance' - ethBalance >= GameBonds(ife) - GameBonds(old)
    <2>1. old.piggybackBond[s] \in Int
      BY <1>1
    <2> QED BY <2>1, <1>1, <1>5, <1>6, <1>7
  <1> QED BY <1>2, <1>3, <1>4, <1>5, <1>8, InFlightSettles DEF old

LEMMA DeleteSettles ==
    ASSUME TypeInv, BondData, NEW t \in Txs, DeleteInFlightExit(t)
    PROVE  Settled
  <1> DEFINE old == inFlightExits[t]
  <1>1. old.bondSize \in Nat /\ ethBalance \in Int
    BY InFlightData
  <1>2. /\ inFlightExits' = [inFlightExits EXCEPT ![t] = NoInFlightExit]
        /\ ethBalance' = ethBalance - old.bondSize
        /\ old.exitMap = {}
        /\ UNCHANGED standardExits
    BY DEF DeleteInFlightExit, DeleteNonPiggybackedInFlightExit
  <1> HIDE DEF old
  <1>3. GameBonds(old) = old.bondSize
    <2>1. SumFunctionOnSet(old.piggybackBond, {}) = 0
      BY SumEmpty
    <2>2. GameBonds(old) = old.bondSize + 0
      BY <1>2, <2>1 DEF GameBonds
    <2> QED BY <1>1, <2>2
  <1>4. /\ ethBalance' \in Int
        /\ ethBalance' - ethBalance = GameBonds(NoInFlightExit) - GameBonds(old)
        /\ ethBalance' - ethBalance >= GameBonds(NoInFlightExit) - GameBonds(old)
    BY <1>1, <1>2, <1>3, NoBonds
  <1>5. /\ NoInFlightExit \in InFlightExitData
        /\ NoInFlightExit.bondSize = 0 /\ NoInFlightExit.exitMap = {}
        /\ \A o \in Slots : NoInFlightExit.piggybackBounty[o] <= NoInFlightExit.piggybackBond[o]
    BY NoExitsLemma DEF NoInFlightExit
  <1> QED BY <1>2, <1>4, <1>5, InFlightSettles DEF old

----------------------------------------------------------------------------
(* Processing: what is sent is at most what is due, and all of it where nobody refuses. *)

LEMMA AcceptedSum ==
    ASSUME NEW D, IsFiniteSet(D), NEW due, \A b \in D : due[b] \in Nat, NEW sent \in Accepted(D)
    PROVE  /\ SumFunctionOnSet(due, D) \in Nat /\ SumFunctionOnSet(due, sent) \in Nat
           /\ SumFunctionOnSet(due, sent) <= SumFunctionOnSet(due, D)
           /\ NoneRefused => SumFunctionOnSet(due, sent) = SumFunctionOnSet(due, D)
  <1>1. sent \subseteq D /\ (NoneRefused => sent = D)
    BY DEF Accepted, NoneRefused
  <1>2. SumFunctionOnSet(due, D) \in Nat /\ SumFunctionOnSet(due, sent) \in Nat
    BY <1>1, SumNat
  <1>3. SumFunctionOnSet(due, sent) <= SumFunctionOnSet(due, D)
    BY <1>1, SumSubset
  <1> QED BY <1>1, <1>2, <1>3

LEMMA ProcessStandardSettles ==
    ASSUME TypeInv, BondData, NEW o \in OutputIds, ProcessStandardExit(o), UNCHANGED inFlightExits
    PROVE  Settled
  <1> DEFINE exit == standardExits[o]
  <1>1. /\ exit \in StandardExitData /\ standardExits \in [OutputIds -> StandardExitData]
        /\ exit.bondSize \in Nat /\ exit.bountySize \in Nat /\ exit.bountySize <= exit.bondSize
        /\ ethBalance \in Int
    BY DEF TypeInv, TypeOK, StandardExitTypeOK, StandardExitData, BondData
  <1>2. standardExits' = [standardExits EXCEPT ![o] = NoStandardExit]
    BY DEF ProcessStandardExit, OmitStandardExit, FinalizeStandardExit
  <1>3. /\ NoStandardExit \in StandardExitData /\ ~NoStandardExit.exitable
        /\ NoStandardExit.bountySize <= NoStandardExit.bondSize
    BY NoExitsLemma DEF NoStandardExit
  <1>4. CASE OmitStandardExit(o)
    <2>1. ethBalance' = ethBalance /\ (~exit.exitable \/ IsOutputFinalized(o))
      BY <1>4 DEF OmitStandardExit, fundVars
    <2>2. StandardBond(exit) \in Nat /\ (~exit.exitable => StandardBond(exit) = 0)
      BY <1>1, BondTypes DEF StandardBond
    <2>3. exit.exitable => Omitted
      BY <1>1, <1>2, <2>1 DEF Omitted
    <2>4. /\ ethBalance' \in Int
          /\ ethBalance' - ethBalance >= StandardBond(NoStandardExit) - StandardBond(exit)
          /\ \/ ethBalance' - ethBalance = StandardBond(NoStandardExit) - StandardBond(exit)
             \/ Omitted
      BY <1>1, <2>1, <2>2, <2>3, NoBonds
    <2> QED BY <1>2, <1>3, <2>4, StandardSettles
  <1>5. CASE FinalizeStandardExit(o)
    <2> DEFINE due == [toOwner |-> exit.bondSize - exit.bountySize, toProcessor |-> exit.bountySize]
               D == {"toOwner", "toProcessor"}
    <2>1. PICK sent \in Accepted(DOMAIN due) : ethBalance' = ethBalance - SumFunctionOnSet(due, sent)
      BY <1>5 DEF FinalizeStandardExit
    <2>2. DOMAIN due = D /\ IsFiniteSet(D)
      <3>1. IsFiniteSet(D)
        <4>1. D = {"toOwner"} \cup {"toProcessor"} /\ IsFiniteSet({"toOwner"})
          BY FS_Singleton
        <4> HIDE DEF D
        <4> QED BY <4>1, FS_AddElement
      <3>2. DOMAIN due = D
        OBVIOUS
      <3> QED BY <3>1, <3>2
    <2>3. due["toOwner"] = exit.bondSize - exit.bountySize /\ due["toProcessor"] = exit.bountySize
      OBVIOUS
    <2>4. \A b \in D : due[b] \in Nat
      BY <1>1, <2>3
    <2>5. SumFunctionOnSet(due, D) = exit.bondSize
      <3> HIDE DEF exit, due
      <3>1. /\ due["toOwner"] \in Int /\ due["toProcessor"] \in Int
            /\ "toOwner" # "toProcessor"
        BY <2>4
      <3>2. SumFunctionOnSet(due, D) = due["toOwner"] + due["toProcessor"]
        BY <3>1, SumOfTwo
      <3> QED BY <1>1, <2>3, <3>2
    <2>6. /\ SumFunctionOnSet(due, sent) \in Nat
          /\ SumFunctionOnSet(due, sent) <= exit.bondSize
          /\ NoneRefused => SumFunctionOnSet(due, sent) = exit.bondSize
      <3> HIDE DEF due
      <3> QED BY <2>1, <2>2, <2>4, <2>5, AcceptedSum
    <2>7. StandardBond(exit) = exit.bondSize
      BY <1>5 DEF FinalizeStandardExit, StandardBond
    <2>8. /\ ethBalance' \in Int
          /\ ethBalance' - ethBalance >= StandardBond(NoStandardExit) - StandardBond(exit)
          /\ NoneRefused =>
                ethBalance' - ethBalance = StandardBond(NoStandardExit) - StandardBond(exit)
      <3> HIDE DEF exit, due
      <3> QED BY <1>1, <2>1, <2>6, <2>7, NoBonds
    <2> QED BY <1>2, <1>3, <2>8, StandardSettles
  <1> QED BY <1>4, <1>5 DEF ProcessStandardExit

\* With an in-flight exit all is due that the piggybacks of the token are owed, and the bond of the
\* exit with the last of them.
LEMMA BondsDueSum ==
    ASSUME TypeInv, BondData, NEW t \in Txs, NEW token
    PROVE  LET ife == inFlightExits[t]
               due == BondsDue(t, token)
               gone == Piggybacked(t, token)
           IN  /\ IsFiniteSet(DOMAIN due)
               /\ \A b \in DOMAIN due : due[b] \in Nat
               /\ SumFunctionOnSet(due, DOMAIN due) =
                    SumFunctionOnSet(ife.piggybackBond, gone)
                    + (IF ife.exitMap = gone THEN ife.bondSize ELSE 0)
  <1> DEFINE ife == inFlightExits[t]
             due == BondsDue(t, token)
             gone == Piggybacked(t, token)
             bond == ife.piggybackBond
             bounty == ife.piggybackBounty
             exitBond == IF ife.exitMap = gone THEN ife.bondSize ELSE 0
             e == [s \in gone |-> <<"bond", s>>]
             d == [s \in gone |-> <<"bounty", s>>]
             eDue == [s \in gone |-> bond[s] - bounty[s]]
             own == {e[s] : s \in gone}
             others == {d[s] : s \in gone}
             last == <<"exit", <<"exit", 0>> >>
  <1>1. /\ ife.bondSize \in Nat /\ ife.exitMap \subseteq Slots /\ IsFiniteSet(ife.exitMap)
        /\ bond \in [Slots -> Nat] /\ bounty \in [Slots -> Nat]
        /\ \A s \in Slots : bounty[s] <= bond[s]
    BY InFlightData
  <1>2. gone \subseteq ife.exitMap
    BY DEF Piggybacked
  <1>3. IsFiniteSet(gone) /\ gone \subseteq Slots
    BY <1>1, <1>2, FS_Subset
  <1>4. DOMAIN due = (own \cup others) \cup {last}
    BY DEF BondsDue, ExitBond
  <1>5. /\ \A s \in gone : due[e[s]] = eDue[s] /\ due[d[s]] = bounty[s]
        /\ due[last] = exitBond
    BY DEF BondsDue, ExitBond
  <1>6. /\ \A s, c \in gone : e[s] = e[c] => s = c
        /\ \A s, c \in gone : d[s] = d[c] => s = c
        /\ own \cap others = {} /\ last \notin own \cup others
    OBVIOUS
  <1>7. exitBond \in Nat
    BY <1>1
  <1>8. \A s \in gone : /\ eDue[s] \in Nat /\ bounty[s] \in Nat /\ bond[s] = eDue[s] + bounty[s]
    BY <1>1, <1>3
  <1> HIDE DEF ife, due, gone, bond, bounty, exitBond, e, d, eDue, last
  <1>9. IsFiniteSet(own) /\ IsFiniteSet(others) /\ IsFiniteSet(own \cup others)
    BY <1>3, FiniteImage, FS_Union
  <1>10. \A b \in (own \cup others) \cup {last} : due[b] \in Nat
    BY <1>5, <1>7, <1>8
  <1>11. SumFunctionOnSet(due, own) = SumFunctionOnSet(eDue, gone)
    <2>1. \A U \in SUBSET gone : SumFunctionOnSet(due, {e[s] : s \in U}) = SumFunctionOnSet(eDue, U)
      BY <1>3, <1>5, <1>6, <1>8, SumImage
    <2> QED BY <2>1
  <1>12. SumFunctionOnSet(due, others) = SumFunctionOnSet(bounty, gone)
    <2>1. \A U \in SUBSET gone : SumFunctionOnSet(due, {d[s] : s \in U}) = SumFunctionOnSet(bounty, U)
      BY <1>3, <1>5, <1>6, <1>8, SumImage
    <2> QED BY <2>1
  <1>13. SumFunctionOnSet(bond, gone) = SumFunctionOnSet(eDue, gone) + SumFunctionOnSet(bounty, gone)
    BY <1>3, <1>8, SumPlus
  <1> HIDE DEF own, others
  <1>14. /\ SumFunctionOnSet(due, own \cup others) = SumFunctionOnSet(due, own) + SumFunctionOnSet(due, others)
         /\ SumFunctionOnSet(due, own \cup others) \in Int
    <2>1. \A b \in own \cup others : due[b] \in Int
      BY <1>10
    <2> QED BY <2>1, <1>6, <1>9, SumUnion, SumInt
  <1>15. SumFunctionOnSet(due, (own \cup others) \cup {last}) = due[last] + SumFunctionOnSet(due, own \cup others)
    <2> DEFINE all == own \cup others
    <2>1. IsFiniteSet(all) /\ last \notin all /\ \A b \in all \cup {last} : due[b] \in Int
      BY <1>6, <1>9, <1>10
    <2> HIDE DEF all
    <2>2. SumFunctionOnSet(due, all \cup {last}) = due[last] + SumFunctionOnSet(due, all)
      BY <2>1, SumAdd
    <2> QED BY <2>2 DEF all
  <1>16. SumFunctionOnSet(due, DOMAIN due) = SumFunctionOnSet(bond, gone) + exitBond
    BY <1>4, <1>5, <1>7, <1>11, <1>12, <1>13, <1>14, <1>15
  <1>17. IsFiniteSet(DOMAIN due)
    BY <1>4, <1>9, FS_AddElement
  <1> QED BY <1>4, <1>10, <1>16, <1>17 DEF due, gone, bond, ife, exitBond

LEMMA ProcessInFlightSettles ==
    ASSUME TypeInv, TypeInv', BondData, NEW t \in Txs, NEW token,
           ProcessInFlightExit(t, token), UNCHANGED standardExits
    PROVE  Settled
  <1>1. CASE OmitInFlightExit(t)
    <2>1. UNCHANGED <<standardExits, inFlightExits, ethBalance>>
      BY <1>1 DEF OmitInFlightExit, fundVars
    <2> QED BY <2>1, IdleSettles
  <1>2. CASE FinalizeInFlightExit(t, token)
    <2> DEFINE old == inFlightExits[t]
               due == BondsDue(t, token)
               D == DOMAIN due
               bond == old.piggybackBond
               gone == Piggybacked(t, token)
               left == old.exitMap \ gone
               ife == IF left = {} THEN NoInFlightExit ELSE [old EXCEPT !.exitMap = left]
    <2>1. /\ old \in InFlightExitData /\ old.bondSize \in Nat /\ ethBalance \in Int
          /\ old.exitMap \subseteq Slots /\ IsFiniteSet(old.exitMap)
          /\ bond \in [Slots -> Nat]
          /\ \A o \in Slots : old.piggybackBounty[o] <= bond[o]
      BY InFlightData
    <2>2. PICK sent \in Accepted(D) : ethBalance' = ethBalance - SumFunctionOnSet(due, sent)
      BY <1>2 DEF FinalizeInFlightExit
    <2>3. inFlightExits' = [inFlightExits EXCEPT ![t] = ife] /\ old.exitStartTimestamp # 0
      BY <1>2 DEF FinalizeInFlightExit, IsStarted, TypeInv, TypeOK, InFlightExitTypeOK
    <2>4. gone \subseteq old.exitMap
      BY DEF Piggybacked
    <2>5. /\ IsFiniteSet(D)
          /\ \A b \in D : due[b] \in Nat
          /\ SumFunctionOnSet(due, D) =
                SumFunctionOnSet(bond, gone) + (IF old.exitMap = gone THEN old.bondSize ELSE 0)
      BY BondsDueSum
    <2>6. ife \in InFlightExitData
      BY <2>3 DEF TypeInv, TypeOK, InFlightExitTypeOK
    <2>7. GameBonds(old) = old.bondSize + SumFunctionOnSet(bond, old.exitMap)
      BY DEF GameBonds
    <2>8. left # {} =>
            /\ GameBonds(ife) = old.bondSize + SumFunctionOnSet(bond, left)
            /\ ife.piggybackBond = bond /\ ife.piggybackBounty = old.piggybackBounty
            /\ ife.exitStartTimestamp = old.exitStartTimestamp
      <3> SUFFICES ASSUME left # {} PROVE
            /\ GameBonds(ife) = old.bondSize + SumFunctionOnSet(bond, left)
            /\ ife.piggybackBond = bond /\ ife.piggybackBounty = old.piggybackBounty
            /\ ife.exitStartTimestamp = old.exitStartTimestamp
        OBVIOUS
      <3>1. /\ ife.bondSize = old.bondSize /\ ife.exitMap = left
            /\ ife.piggybackBond = bond /\ ife.piggybackBounty = old.piggybackBounty
            /\ ife.exitStartTimestamp = old.exitStartTimestamp
        BY <2>1 DEF InFlightExitData
      <3> HIDE DEF ife, left
      <3> QED BY <3>1 DEF GameBonds
    <2>9. left = {} => ife = NoInFlightExit
      OBVIOUS
    <2>10. /\ gone \cup left = old.exitMap /\ gone \cap left = {}
           /\ (left = {} <=> old.exitMap = gone)
      BY <2>4
    <2>11. IsFiniteSet(gone) /\ IsFiniteSet(left)
      BY <2>1, <2>4, FS_Subset
    <2>12. \A o \in gone \cup left : bond[o] \in Int
      BY <2>1, <2>10
    <2> HIDE DEF old, due, D, bond, gone, left, ife
    <2>13. /\ SumFunctionOnSet(bond, gone \cup left) = SumFunctionOnSet(bond, gone) + SumFunctionOnSet(bond, left)
           /\ SumFunctionOnSet(bond, gone) \in Int /\ SumFunctionOnSet(bond, left) \in Int
      BY <2>10, <2>11, <2>12, SumUnion
    <2>14. SumFunctionOnSet(due, D) = GameBonds(old) - GameBonds(ife)
      <3>1. SumFunctionOnSet(bond, old.exitMap) = SumFunctionOnSet(bond, gone) + SumFunctionOnSet(bond, left)
        BY <2>10, <2>13
      <3>2. CASE left = {}
        <4>1. SumFunctionOnSet(bond, left) = 0
          BY <3>2, SumEmpty
        <4>2. GameBonds(ife) = 0
          BY <3>2, <2>9, NoBonds
        <4> QED BY <2>1, <2>5, <2>7, <2>10, <2>13, <3>1, <3>2, <4>1, <4>2
      <3>3. CASE left # {}
        BY <2>1, <2>5, <2>7, <2>8, <2>10, <2>13, <3>1, <3>3
      <3> QED BY <3>2, <3>3
    <2>15. /\ SumFunctionOnSet(due, D) \in Nat /\ SumFunctionOnSet(due, sent) \in Nat
           /\ SumFunctionOnSet(due, sent) <= SumFunctionOnSet(due, D)
           /\ NoneRefused => SumFunctionOnSet(due, sent) = SumFunctionOnSet(due, D)
      BY <2>2, <2>5, AcceptedSum
    <2>16. GameBonds(old) \in Int /\ GameBonds(ife) \in Int
      BY <2>1, <2>6, BondTypes
    <2>17. /\ ethBalance' \in Int
           /\ ethBalance' - ethBalance >= GameBonds(ife) - GameBonds(old)
           /\ NoneRefused => ethBalance' - ethBalance = GameBonds(ife) - GameBonds(old)
      BY <2>1, <2>2, <2>14, <2>15, <2>16
    <2>18. /\ \A o \in Slots : ife.piggybackBounty[o] <= ife.piggybackBond[o]
           /\ ife.exitStartTimestamp = 0 => ife.bondSize = 0 /\ ife.exitMap = {}
      <3>1. CASE left = {}
        BY <3>1, <2>9 DEF NoInFlightExit
      <3>2. CASE left # {}
        BY <3>2, <2>1, <2>3, <2>8
      <3> QED BY <3>1, <3>2
    <2> QED BY <2>3, <2>6, <2>17, <2>18, InFlightSettles DEF old
  <1> QED BY <1>1, <1>2 DEF ProcessInFlightExit

----------------------------------------------------------------------------

LEMMA NextSettles ==
    ASSUME TypeInv, TypeInv', BondData, now # 0, [Next]_vars
    PROVE  Settled
  <1>1. CASE TimePasses \/ Framework \/ UNCHANGED vars
    <2>1. UNCHANGED <<standardExits, inFlightExits, ethBalance>>
      BY <1>1 DEF TimePasses, Framework, vars, fundVars
    <2> QED BY <2>1, IdleSettles
  <1>2. CASE StandardExits
    BY <1>2, StandardExitsSettle
  <1>3. CASE InFlightGame
    <2>1. InFlightTxs \subseteq Txs /\ UNCHANGED standardExits
      BY <1>3, InFlightExitAssumption DEF InFlightGame
    <2>2. CASE \E t \in InFlightTxs, bond \in BondSizes : StartInFlightExit(t, bond.size)
      BY <2>1, <2>2, StartInFlightSettles
    <2>3. CASE \E t \in InFlightTxs, s \in Slots, bond \in BondSizes : Piggyback(t, s, bond)
      BY <2>1, <2>3, PiggybackSettles
    <2>4. CASE \E t \in InFlightTxs, c \in Txs, p \in DOMAIN chain \cup {Infinity} :
                  ChallengeInFlightExitNotCanonical(t, c, p)
      BY <2>1, <2>4, CanonicitySettles
    <2>5. CASE \E t \in InFlightTxs, p \in DOMAIN chain : RespondToNonCanonicalChallenge(t, p)
      BY <2>1, <2>5, CanonicitySettles
    <2>6. CASE \E t \in InFlightTxs, s \in Slots, c \in Txs :
                  \/ ChallengeInFlightExitInputSpent(t, s, c)
                  \/ ChallengeInFlightExitOutputSpent(t, s, c)
      BY <2>1, <2>6, UnpiggybackSettles
         DEF ChallengeInFlightExitInputSpent, ChallengeInFlightExitOutputSpent
    <2> QED BY <1>3, <2>2, <2>3, <2>4, <2>5, <2>6 DEF InFlightGame
  <1>4. CASE \E t \in InFlightTxs : DeleteInFlightExit(t)
    BY <1>4, DeleteSettles, InFlightExitAssumption
  <1>5. CASE \E k \in Tokens : ProcessExits(k)
    BY <1>5, ProcessLemma, ProcessStandardSettles, ProcessInFlightSettles
  <1> QED BY <1>1, <1>2, <1>3, <1>4, <1>5 DEF Next

\* The inductive invariant.
BondInv == now # 0 /\ BondData /\ EthSolvency

LEMMA BondInvHolds == Spec => []BondInv
  <1>1. Init => BondInv
    BY InitBondData, TimeAssumption DEF Init, ChainInit, BondInv
  <1>2. TypeInv /\ TypeInv' /\ BondInv /\ [Next]_vars => BondInv'
    <2> SUFFICES ASSUME TypeInv, TypeInv', BondInv, [Next]_vars PROVE BondInv'
      OBVIOUS
    <2>1. BondData' /\ Covered
      BY NextSettles DEF BondInv, Settled
    <2>2. Owed \in Nat /\ Owed' \in Nat
      BY OwedType
    <2>3. EthSolvency'
      <3>1. ethBalance \in Int /\ ethBalance' \in Int /\ ethBalance >= Owed
        BY <2>1 DEF BondInv, BondData, EthSolvency
      <3>2. ethBalance' >= Owed'
        <4>1. ethBalance' - ethBalance >= Owed' - Owed
          BY <2>1 DEF Covered
        <4> DEFINE a == ethBalance  b == ethBalance'  c == Owed  d == Owed'
        <4>2. a \in Int /\ b \in Int /\ a >= c
          BY <3>1
        <4>5. c \in Int /\ d \in Int
          BY <2>2
        <4>6. b - a >= d - c
          BY <4>1
        <4> HIDE DEF a, b, c, d
        <4>3. b >= d
          BY <4>2, <4>5, <4>6
        <4> QED BY <4>3 DEF b, d
      <3> QED BY <3>2 DEF EthSolvency
    <2>4. now' # 0
      <3>1. UNCHANGED now \/ now' = now + 1
        BY DEF Next, TimePasses, Tick, Framework, SubmitBlock, StandardExits, InFlightGame,
               DeleteInFlightExit, ProcessExits, chainVars, vars
      <3>2. now \in Nat
        BY DEF TypeInv, TypeOK, ChainTypeOK
      <3> QED BY <3>1, <3>2 DEF BondInv
    <2> QED BY <2>1, <2>3, <2>4 DEF BondInv
  <1> QED BY <1>1, <1>2, TypeInvariance, PTL DEF Spec

\* The exit game always holds the ETH of every bond that it owes, whatever is challenged,
\* restarted, omitted or processed in whatever order, and whoever rejects what is sent.
THEOREM BondsArePayable == Spec => []EthSolvency
  <1>1. BondInv => EthSolvency
    BY DEF BondInv
  <1> QED BY <1>1, BondInvHolds, PTL

\* Where nobody rejects ETH and no output has amount 0, no step takes or gives more than the bonds
\* it starts or ends, but for an exit nobody challenged that is omitted.
THEOREM EveryBondIsAccountedFor ==
    ASSUME NoneRefused, AmountsNotZero
    PROVE  Spec => BondsAccounted
  <1>1. TypeInv /\ TypeInv' /\ BondInv /\ [Next]_vars => [Accounted]_vars
    BY NextSettles DEF BondInv, Settled
  <1>2. [Accounted]_vars => [\/ ethBalance' - ethBalance = Owed' - Owed
                             \/ \E o \in OutputIds :
                                    /\ standardExits[o].exitable /\ IsOutputFinalized(o)
                                    /\ standardExits'[o] = NoStandardExit
                                    /\ ethBalance' = ethBalance]_vars
    BY DEF Accounted, Omitted
  <1> QED BY <1>1, <1>2, BondInvHolds, TypeInvariance, PTL DEF Spec, BondsAccounted

====
