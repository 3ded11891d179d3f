---- MODULE PaymentExitGame_proofs ----
(***************************************************************************)
(* The payment exit game keeps its types and implements Payouts; what      *)
(* Payouts promises about the money follows, for any transactions, tokens, *)
(* bonds and exit period.                                                  *)
(***************************************************************************)
EXTENDS PaymentExitGame, FiniteSetTheorems, TLAPS

----------------------------------------------------------------------------
(* The data of the world. *)

LEMMA SeqElement ==
    ASSUME NEW S, NEW s \in Seq(S), NEW i \in DOMAIN s
    PROVE  i \in Nat /\ s[i] \in S
  OBVIOUS

LEMMA SeqOfFunction ==
    ASSUME NEW S, NEW n \in Nat, NEW s \in [1..n -> S]
    PROVE  s \in Seq(S) /\ Len(s) = n
  OBVIOUS

LEMMA OutputIdsLemma == \A t \in Txs : Outputs(t) \subseteq OutputIds
  BY DEF OutputIds

LEMMA OutputOf ==
    ASSUME NEW o \in OutputIds
    PROVE  /\ o[1] \in Txs /\ o[2] \in Nat
           /\ Token(o) \in Tokens /\ Amount(o) \in Nat
  <1>1. PICK t \in Txs : o \in Outputs(t)
    BY DEF OutputIds
  <1>2. PICK i \in DOMAIN TxOutputs[t] : o = <<t, i>>
    BY <1>1 DEF Outputs
  <1>3. TxOutputs[t] \in Seq([token : Tokens, amount : Nat])
    BY TxAssumption
  <1>4. i \in Nat /\ TxOutputs[t][i] \in [token : Tokens, amount : Nat]
    BY <1>2, <1>3, SeqElement
  <1> QED BY <1>2, <1>4 DEF Token, Amount

LEMMA FiniteImage ==
    ASSUME NEW S, IsFiniteSet(S), NEW e
    PROVE  IsFiniteSet({e[x] : x \in S})
  <1> DEFINE f == [x \in S |-> e[x]]
             T == {e[x] : x \in S}
  <1>1. f \in [S -> T] /\ \A y \in T : \E x \in S : f[x] = y
    OBVIOUS
  <1>2. f \in Surjection(S, T)
    BY <1>1 DEF Surjection
  <1> HIDE DEF f, T
  <1>3. IsFiniteSet(T)
    BY <1>2, FS_Surjection
  <1> QED BY <1>3 DEF T

LEMMA TxsAreFinite == IsFiniteSet(Txs)
  BY TxAssumption

LEMMA OutputsAreFinite == IsFiniteSet(OutputIds)
  <1>1. ASSUME NEW t \in Txs PROVE IsFiniteSet(Outputs(t))
    <2> DEFINE e == [i \in DOMAIN TxOutputs[t] |-> <<t, i>>]
    <2>1. TxOutputs[t] \in Seq([token : Tokens, amount : Nat])
      BY TxAssumption
    <2>2. DOMAIN TxOutputs[t] = 1 .. Len(TxOutputs[t]) /\ Len(TxOutputs[t]) \in Nat
      BY <2>1
    <2>3. IsFiniteSet(DOMAIN TxOutputs[t])
      BY <2>2, FS_Interval
    <2>4. Outputs(t) = {e[i] : i \in DOMAIN TxOutputs[t]}
      BY DEF Outputs
    <2> HIDE DEF e
    <2> QED BY <2>3, <2>4, FiniteImage
  <1> DEFINE e == [t \in Txs |-> Outputs(t)]
             S == {e[t] : t \in Txs}
  <1>2. OutputIds = UNION S /\ \A T \in S : IsFiniteSet(T)
    BY <1>1 DEF OutputIds
  <1>3. IsFiniteSet(S)
    <2> HIDE DEF e
    <2> QED BY TxAssumption, FiniteImage
  <1> HIDE DEF S
  <1> QED BY <1>2, <1>3, FS_UNION

LEMMA InputOf ==
    ASSUME NEW t \in Txs, NEW input \in Range(TxInputs[t])
    PROVE  input.output \in OutputIds /\ input.position \in Nat
  <1>1. TxInputs[t] \in Seq([output : OutputIds, position : Nat])
    BY TxAssumption
  <1>2. PICK i \in DOMAIN TxInputs[t] : input = TxInputs[t][i]
    BY DEF Range
  <1>3. input \in [output : OutputIds, position : Nat]
    BY <1>1, <1>2, SeqElement
  <1> QED BY <1>3

LEMMA InputsLemma == \A t \in Txs : Inputs(t) \subseteq OutputIds
  BY InputOf DEF Inputs

\* The inputs and outputs of a transaction, by index.
LEMMA SlotOf ==
    ASSUME NEW t \in Txs, NEW s \in InputSlots(t) \cup OutputSlots(t)
    PROVE  /\ s \in Slots
           /\ OutputAt(t, s) \in OutputIds
           /\ s \in InputSlots(t) => OutputAt(t, s) \in Inputs(t)
           /\ s \in OutputSlots(t) => OutputAt(t, s) \in Outputs(t)
  <1>1. s \in Slots
    BY DEF Slots
  <1>2. CASE s \in InputSlots(t)
    <2>1. s[1] = "input" /\ s[2] \in DOMAIN TxInputs[t]
      BY <1>2 DEF InputSlots
    <2>2. OutputAt(t, s) \in Inputs(t)
      BY <2>1 DEF OutputAt, Inputs, Range
    <2>3. s \notin OutputSlots(t)
      BY <2>1 DEF OutputSlots
    <2> QED BY <1>1, <2>2, <2>3, InputsLemma
  <1>3. CASE s \in OutputSlots(t)
    <2>1. s[1] = "output" /\ s[2] \in DOMAIN TxOutputs[t]
      BY <1>3 DEF OutputSlots
    <2>2. OutputAt(t, s) \in Outputs(t)
      BY <2>1 DEF OutputAt, Outputs
    <2>3. s \notin InputSlots(t)
      BY <2>1 DEF InputSlots
    <2> QED BY <1>1, <2>2, <2>3, OutputIdsLemma
  <1> QED BY <1>2, <1>3

LEMMA SlotsOf ==
    ASSUME NEW t \in Txs
    PROVE  /\ IsFiniteSet(InputSlots(t)) /\ IsFiniteSet(OutputSlots(t))
           /\ \A o \in Inputs(t) : \E s \in InputSlots(t) : OutputAt(t, s) = o
           /\ \A s, r \in OutputSlots(t) : OutputAt(t, s) = OutputAt(t, r) => s = r
  <1>1. /\ DOMAIN TxInputs[t] = 1..Len(TxInputs[t]) /\ Len(TxInputs[t]) \in Nat
        /\ DOMAIN TxOutputs[t] = 1..Len(TxOutputs[t]) /\ Len(TxOutputs[t]) \in Nat
    <2>1. /\ TxInputs[t] \in Seq([output : OutputIds, position : Nat])
          /\ TxOutputs[t] \in Seq([token : Tokens, amount : Nat])
      BY TxAssumption
    <2> QED BY <2>1
  <1>2. IsFiniteSet(DOMAIN TxInputs[t]) /\ IsFiniteSet(DOMAIN TxOutputs[t])
    BY <1>1, FS_Interval
  <1>3. IsFiniteSet({"input"}) /\ IsFiniteSet({"output"})
    BY FS_Singleton
  <1>4. IsFiniteSet(InputSlots(t)) /\ IsFiniteSet(OutputSlots(t))
    BY <1>2, <1>3, FS_Product DEF InputSlots, OutputSlots
  <1>5. ASSUME NEW o \in Inputs(t)
        PROVE  \E s \in InputSlots(t) : OutputAt(t, s) = o
    <2>1. PICK i \in DOMAIN TxInputs[t] : o = TxInputs[t][i].output
      BY DEF Inputs, Range
    <2>2. <<"input", i>> \in InputSlots(t) /\ OutputAt(t, <<"input", i>>) = o
      BY <2>1 DEF InputSlots, OutputAt
    <2> QED BY <2>2
  <1>6. ASSUME NEW s \in OutputSlots(t), NEW r \in OutputSlots(t), OutputAt(t, s) = OutputAt(t, r)
        PROVE  s = r
    <2>1. OutputAt(t, s) = <<t, s[2]>> /\ OutputAt(t, r) = <<t, r[2]>>
      BY DEF OutputSlots, OutputAt
    <2>2. s[2] = r[2]
      <3>1. <<t, s[2]>> = <<t, r[2]>>
        BY <1>6, <2>1
      <3> QED BY <3>1
    <2>3. s = <<"output", s[2]>> /\ r = <<"output", r[2]>>
      BY DEF OutputSlots
    <2> QED BY <2>2, <2>3
  <1> QED BY <1>4, <1>5, <1>6

\* How often an output is paid for.
LEMMA TimesLemma ==
    ASSUME NEW paid, IsFiniteSet(DOMAIN paid), NEW o
    PROVE  /\ TimesPaid(paid, o) \in Nat
           /\ TimesPaid(paid, o) = 0 <=> ~ \E s \in DOMAIN paid : paid[s] = o
  <1> DEFINE places == {s \in DOMAIN paid : paid[s] = o}
  <1>1. IsFiniteSet(places)
    BY FS_Subset
  <1>2. Cardinality(places) \in Nat /\ (Cardinality(places) = 0 <=> places = {})
    <2> HIDE DEF places
    <2> QED BY <1>1, FS_CardinalityType, FS_EmptySet
  <1> QED BY <1>2 DEF TimesPaid

\* How many inputs of a transaction name an output.
LEMMA NamingLemma ==
    ASSUME NEW t \in Txs, NEW o
    PROVE  InputsNaming(t, o) \in Nat /\ (InputsNaming(t, o) > 0 <=> o \in Inputs(t))
  <1> DEFINE places == {s \in InputSlots(t) : OutputAt(t, s) = o}
  <1>1. IsFiniteSet(places)
    BY SlotsOf, FS_Subset
  <1>2. Cardinality(places) \in Nat /\ (Cardinality(places) = 0 <=> places = {})
    <2> HIDE DEF places
    <2> QED BY <1>1, FS_CardinalityType, FS_EmptySet
  <1>3. places # {} <=> o \in Inputs(t)
    BY SlotOf, SlotsOf
  <1> HIDE DEF places
  <1>4. Cardinality(places) \in Nat /\ (Cardinality(places) > 0 <=> o \in Inputs(t))
    BY <1>2, <1>3
  <1> QED BY <1>4 DEF InputsNaming, places

LEMMA ExitIdsLemma ==
    /\ \A o \in OutputIds : StandardExitId(o) \in ExitIds
    /\ \A t \in Txs : InFlightExitId(t) \in ExitIds
    /\ \A o, d \in OutputIds : StandardExitId(o) = StandardExitId(d) => o = d
    /\ \A t, u \in Txs : InFlightExitId(t) = InFlightExitId(u) => t = u
    /\ \A o \in OutputIds, t \in Txs : StandardExitId(o) # InFlightExitId(t)
    /\ \A e \in ExitIds : IF IsStandardExit(e)
            THEN e.of \in OutputIds /\ e = StandardExitId(e.of)
            ELSE e.of[1] \in Txs /\ e = InFlightExitId(e.of[1])
  <1>1. \A o, d \in OutputIds : StandardExitId(o) = StandardExitId(d) => o = d
    BY DEF StandardExitId
  <1>2. \A t, u \in Txs : InFlightExitId(t) = InFlightExitId(u) => t = u
    <2> SUFFICES ASSUME NEW t \in Txs, NEW u \in Txs, InFlightExitId(t) = InFlightExitId(u)
                 PROVE  t = u
      OBVIOUS
    <2>1. InFlightExitId(t).of = InFlightExitId(u).of
      OBVIOUS
    <2>2. <<t, 0>> = <<u, 0>>
      BY <2>1 DEF InFlightExitId
    <2> QED BY <2>2
  <1>3. \A o \in OutputIds, t \in Txs : StandardExitId(o).kind # InFlightExitId(t).kind
    BY DEF StandardExitId, InFlightExitId
  <1>4. ASSUME NEW e \in ExitIds, IsStandardExit(e)
        PROVE  e.of \in OutputIds /\ e = StandardExitId(e.of)
    BY <1>4 DEF ExitIds, IsStandardExit, StandardExitId, InFlightExitId
  <1>5. ASSUME NEW e \in ExitIds, ~IsStandardExit(e)
        PROVE  e.of[1] \in Txs /\ e = InFlightExitId(e.of[1])
    <2>1. PICK t \in Txs : e = InFlightExitId(t)
      BY <1>5 DEF ExitIds, IsStandardExit, StandardExitId
    <2>2. e.of = <<t, 0>>
      BY <2>1 DEF InFlightExitId
    <2>3. e.of[1] = t
      BY <2>2
    <2> QED BY <2>1, <2>3
  <1> QED BY <1>1, <1>2, <1>3, <1>4, <1>5 DEF ExitIds

LEMMA MaxOfTwo ==
    ASSUME NEW a \in Nat, NEW b \in Nat
    PROVE  Max({a, b}) \in Nat
  <1>1. \E x \in {a, b} : \A y \in {a, b} : x >= y
    OBVIOUS
  <1>2. Max({a, b}) \in {a, b}
    BY <1>1 DEF Max
  <1> QED BY <1>2

LEMMA ExitableAtLemma ==
    ASSUME ChainTypeOK, NEW p \in DOMAIN chain
    PROVE  /\ p \in Nat
           /\ BlockOf(p).timestamp \in Nat
           /\ CalculateTxExitableTimestamp(BlockOf(p).timestamp) \in Nat
           /\ CalculateDepositTxOutputExitableTimestamp \in Nat
  <1>1. p \in Nat /\ chain[p] \in [tx : Txs, timestamp : Nat]
    BY SeqElement DEF ChainTypeOK
  <1>2. BlockOf(p).timestamp \in Nat
    BY <1>1 DEF BlockOf
  <1>3. /\ BlockOf(p).timestamp + 2 * MinExitPeriod \in Nat
        /\ now + MinExitPeriod \in Nat
    BY <1>2, TimeAssumption DEF ChainTypeOK
  <1> QED BY <1>1, <1>2, <1>3, MaxOfTwo
       DEF CalculateTxExitableTimestamp, CalculateDepositTxOutputExitableTimestamp

----------------------------------------------------------------------------
(* Types. *)

\* What the types rest on beside themselves: a started in-flight exit has the position of a
\* block, whose timestamp its priority is computed from.
StartedAtBlock == \A t \in Txs : IsStarted(t) => inFlightExits[t].position \in DOMAIN chain

TypeInv == TypeOK /\ StartedAtBlock

LEMMA EnqueueLemma ==
    ASSUME ControllerTypeOK,
           NEW token \in Tokens, NEW exitableAt \in Nat, NEW txPos \in Nat, NEW exitId \in ExitIds,
           Enqueue(token, exitableAt, txPos, exitId), UNCHANGED outputsFinalizations
    PROVE  ControllerTypeOK'
  <1>1. ComputePriority(exitableAt, txPos, exitId) \in Priorities
    BY DEF ComputePriority, Priorities
  <1> QED BY <1>1 DEF Enqueue, ControllerTypeOK, HasExitQueue

LEMMA TakeHeadLemma ==
    ASSUME ControllerTypeOK, NEW token, NEW priority, TakeHead(token, priority)
    PROVE  /\ token \in Tokens
           /\ priority.exitId \in ExitIds
           /\ DOMAIN exitsQueues' \subseteq Tokens
           /\ \A k \in DOMAIN exitsQueues' : exitsQueues'[k] \subseteq Priorities
  <1>1. token \in DOMAIN exitsQueues /\ priority \in exitsQueues[token]
    BY DEF TakeHead, HasExitQueue, GetMin
  <1>2. priority \in Priorities
    BY <1>1 DEF ControllerTypeOK
  <1>3. priority.exitId \in ExitIds
    BY <1>2 DEF Priorities
  <1>4. exitsQueues' = [exitsQueues EXCEPT ![token] = @ \ {priority}]
    BY DEF TakeHead
  <1> QED BY <1>1, <1>3, <1>4 DEF ControllerTypeOK

LEMMA FlagLemma ==
    ASSUME ControllerTypeOK, NEW os, NEW exitId \in ExitIds, BatchFlagOutputsFinalized(os, exitId)
    PROVE  outputsFinalizations' \in [OutputIds -> ExitIds \cup {NoExit}]
  BY DEF ControllerTypeOK, BatchFlagOutputsFinalized

LEMMA WithdrawLemma ==
    ASSUME withdrawn \in [OutputIds -> Seq(ExitIds)],
           NEW exitId \in ExitIds, NEW token, NEW paid, IsFiniteSet(DOMAIN paid),
           Withdraw(exitId, token, paid)
    PROVE  withdrawn' \in [OutputIds -> Seq(ExitIds)]
  <1>1. ASSUME NEW s \in Seq(ExitIds), NEW k \in Nat
        PROVE  s \o [n \in 1..k |-> exitId] \in Seq(ExitIds)
    <2>1. [n \in 1..k |-> exitId] \in Seq(ExitIds)
      BY SeqOfFunction
    <2> QED BY <2>1
  <1>2. \A o \in OutputIds : TimesPaid(paid, o) \in Nat
    BY TimesLemma
  <1>3. \A o \in OutputIds :
            withdrawn[o] \o [n \in 1..TimesPaid(paid, o) |-> exitId] \in Seq(ExitIds)
    BY <1>1, <1>2
  <1> QED BY <1>3 DEF Withdraw

LEMMA InitTypeInv == Init => TypeInv
  <1> SUFFICES ASSUME Init PROVE TypeInv
    OBVIOUS
  <1>1. ChainTypeOK
    <2>1. chain = [p \in DOMAIN Deposits |-> [tx |-> Deposits[p], timestamp |-> DepositTime]]
      BY DEF Init, ChainInit
    <2>2. Deposits \in Seq(Txs) /\ DepositTime \in Nat /\ MaxBlocks \in Nat /\ StartTime \in Nat
      BY TxAssumption, TimeAssumption
    <2>3. DOMAIN Deposits = 1..Len(Deposits) /\ Len(Deposits) \in Nat
      BY <2>2
    <2>4. \A p \in 1..Len(Deposits) :
            [tx |-> Deposits[p], timestamp |-> DepositTime] \in [tx : Txs, timestamp : Nat]
      BY <2>2, <2>3, SeqElement
    <2>5. chain \in [1..Len(Deposits) -> [tx : Txs, timestamp : Nat]]
      BY <2>1, <2>3, <2>4
    <2>6. chain \in Seq([tx : Txs, timestamp : Nat]) /\ Len(chain) = Len(Deposits)
      BY <2>3, <2>5, SeqOfFunction
    <2> QED BY <2>2, <2>3, <2>6 DEF Init, ChainInit, ChainTypeOK
  <1>2. ControllerTypeOK
    BY DEF Init, ControllerInit, ControllerTypeOK
  <1>3. StandardExitTypeOK
    BY DEF Init, StandardExitInit, StandardExitTypeOK, StandardExitData, NoStandardExit
  <1>4. InFlightExitTypeOK
    <2>1. NoInFlightExit \in InFlightExitData
      BY TxAssumption, TimeAssumption DEF NoInFlightExit, InFlightExitData, Infinity
    <2> QED BY <2>1 DEF Init, InFlightExitInit, InFlightExitTypeOK
  <1>5. withdrawn \in [OutputIds -> Seq(ExitIds)]
    BY DEF Init, FundsInit
  <1>6. StartedAtBlock
    BY DEF Init, InFlightExitInit, StartedAtBlock, IsStarted, NoInFlightExit
  <1> QED BY <1>1, <1>2, <1>3, <1>4, <1>5, <1>6 DEF TypeInv, TypeOK

\* An action that leaves the blocks alone, changes the record of one in-flight exit to one that
\* is not started or keeps its position, keeps StartedAtBlock.
LEMMA UpdateLemma ==
    ASSUME TypeInv, NEW t \in Txs, NEW ife \in InFlightExitData,
           inFlightExits' = [inFlightExits EXCEPT ![t] = ife], UNCHANGED chain,
           ife.exitStartTimestamp # 0 => ife.position \in DOMAIN chain
    PROVE  InFlightExitTypeOK' /\ StartedAtBlock'
  <1>1. inFlightExits \in [Txs -> InFlightExitData]
    BY DEF TypeInv, TypeOK, InFlightExitTypeOK
  <1>2. inFlightExits' \in [Txs -> InFlightExitData]
    BY <1>1
  <1>3. inFlightExits'[t] = ife /\ \A u \in Txs \ {t} : inFlightExits'[u] = inFlightExits[u]
    BY <1>1
  <1> QED BY <1>2, <1>3 DEF InFlightExitTypeOK, TypeInv, StartedAtBlock, IsStarted

LEMMA UpdateStandardLemma ==
    ASSUME StandardExitTypeOK, NEW o \in OutputIds, NEW exit \in StandardExitData,
           standardExits' = [standardExits EXCEPT ![o] = exit]
    PROVE  StandardExitTypeOK'
  BY DEF StandardExitTypeOK

LEMMA NoExitsLemma ==
    /\ NoStandardExit \in StandardExitData
    /\ NoInFlightExit \in InFlightExitData
    /\ NoInFlightExit.exitStartTimestamp = 0
    /\ Infinity \in Nat
    /\ Infinity = Len(Deposits) + MaxBlocks + 1
  BY TxAssumption, TimeAssumption
     DEF NoStandardExit, StandardExitData, NoInFlightExit, InFlightExitData, Infinity

\* What most actions leave alone.
LEMMA UnchangedLemma ==
    ASSUME TypeInv
    PROVE  /\ UNCHANGED chainVars => ChainTypeOK'
           /\ UNCHANGED controllerVars => ControllerTypeOK'
           /\ UNCHANGED standardExits => StandardExitTypeOK'
           /\ UNCHANGED inFlightExits => InFlightExitTypeOK'
           /\ UNCHANGED withdrawn => (withdrawn \in [OutputIds -> Seq(ExitIds)])'
           /\ UNCHANGED <<chainVars, inFlightExits>> => StartedAtBlock'
  <1>1. UNCHANGED chainVars => ChainTypeOK'
    BY DEF TypeInv, TypeOK, chainVars, ChainTypeOK
  <1>2. UNCHANGED controllerVars => ControllerTypeOK'
    BY DEF TypeInv, TypeOK, controllerVars, ControllerTypeOK
  <1>3. UNCHANGED standardExits => StandardExitTypeOK'
    BY DEF TypeInv, TypeOK, StandardExitTypeOK
  <1>4. UNCHANGED inFlightExits => InFlightExitTypeOK'
    BY DEF TypeInv, TypeOK, InFlightExitTypeOK
  <1>5. UNCHANGED withdrawn => (withdrawn \in [OutputIds -> Seq(ExitIds)])'
    BY DEF TypeInv, TypeOK
  <1>6. UNCHANGED <<chainVars, inFlightExits>> => StartedAtBlock'
    BY DEF TypeInv, chainVars, StartedAtBlock, IsStarted
  <1> QED BY <1>1, <1>2, <1>3, <1>4, <1>5, <1>6

LEMMA TimeTypes ==
    ASSUME TypeInv, TimePasses
    PROVE  TypeInv'
  <1>1. ChainTypeOK'
    BY DEF TimePasses, Tick, TypeInv, TypeOK, ChainTypeOK
  <1>2. StartedAtBlock'
    BY DEF TimePasses, Tick, TypeInv, StartedAtBlock, IsStarted
  <1>3. UNCHANGED controllerVars /\ UNCHANGED standardExits /\ UNCHANGED inFlightExits
        /\ UNCHANGED withdrawn
    BY DEF TimePasses, fundVars
  <1> QED BY <1>1, <1>2, <1>3, UnchangedLemma DEF TypeInv, TypeOK

LEMMA FrameworkTypes ==
    ASSUME TypeInv, Framework
    PROVE  TypeInv'
  <1>1. CASE /\ \E t \in Txs : SubmitBlock(t)
             /\ UNCHANGED <<fundVars, controllerVars, standardExits, inFlightExits>>
    <2>1. PICK t \in Txs : SubmitBlock(t)
      BY <1>1
    <2> DEFINE block == [tx |-> t, timestamp |-> now]
               Block == [tx : Txs, timestamp : Nat]
    <2>2. chain \in Seq(Block) /\ now \in Nat /\ Len(chain) < Len(Deposits) + MaxBlocks
          /\ chain' = Append(chain, block) /\ now' = now
      BY <2>1 DEF SubmitBlock, TypeInv, TypeOK, ChainTypeOK
    <2>3. block \in Block
      BY <2>2
    <2>4. Len(Deposits) + MaxBlocks \in Nat
      BY TxAssumption, TimeAssumption
    <2>5. chain' \in Seq(Block) /\ Len(chain') = Len(chain) + 1 /\ DOMAIN chain \subseteq DOMAIN chain'
      <3> HIDE DEF block, Block
      <3> QED BY <2>2, <2>3
    <2>6. ChainTypeOK'
      BY <2>2, <2>4, <2>5 DEF ChainTypeOK
    <2>7. StartedAtBlock'
      BY <1>1, <2>5 DEF TypeInv, StartedAtBlock, IsStarted
    <2> QED BY <1>1, <2>6, <2>7, UnchangedLemma DEF TypeInv, TypeOK, fundVars
  <1>2. CASE /\ \E k \in Tokens : AddExitQueue(k)
             /\ UNCHANGED <<chainVars, fundVars, standardExits, inFlightExits>>
    <2>1. ControllerTypeOK'
      BY <1>2 DEF AddExitQueue, TypeInv, TypeOK, ControllerTypeOK, HasExitQueue
    <2> QED BY <1>2, <2>1, UnchangedLemma DEF TypeInv, TypeOK, fundVars
  <1> QED BY <1>1, <1>2 DEF Framework

LEMMA StartStandardExitTypes ==
    ASSUME TypeInv, NEW o \in OutputIds, NEW p \in DOMAIN chain, NEW bond \in BondSizes,
           StartStandardExit(o, p, bond), UNCHANGED <<chainVars, inFlightExits>>
    PROVE  TypeInv'
  <1> DEFINE exitableAt == IF IsDeposit(p)
                 THEN CalculateDepositTxOutputExitableTimestamp
                 ELSE CalculateTxExitableTimestamp(BlockOf(p).timestamp)
             exit == [exitable |-> TRUE, utxoPos |-> p, amount |-> Amount(o),
                      bondSize |-> bond.size, bountySize |-> bond.bounty]
  <1>1. ChainTypeOK /\ ControllerTypeOK /\ StandardExitTypeOK
    BY DEF TypeInv, TypeOK
  <1>2. p \in Nat /\ exitableAt \in Nat
    BY <1>1, ExitableAtLemma
  <1>3. bond.size \in Nat /\ bond.bounty \in Nat
    BY BondAssumption
  <1>4. Token(o) \in Tokens /\ Amount(o) \in Nat
    BY OutputOf
  <1>5. exit \in StandardExitData
    BY <1>2, <1>3, <1>4 DEF StandardExitData
  <1>6. /\ standardExits' = [standardExits EXCEPT ![o] = exit]
        /\ Enqueue(Token(o), exitableAt, p, StandardExitId(o))
        /\ UNCHANGED withdrawn /\ UNCHANGED outputsFinalizations
    BY DEF StartStandardExit
  <1>7. StandardExitTypeOK'
    <2> HIDE DEF exit
    <2> QED BY <1>1, <1>5, <1>6, UpdateStandardLemma
  <1>8. ControllerTypeOK'
    <2> HIDE DEF exitableAt
    <2> QED BY <1>1, <1>2, <1>4, <1>6, EnqueueLemma, ExitIdsLemma
  <1> QED BY <1>6, <1>7, <1>8, UnchangedLemma DEF TypeInv, TypeOK

LEMMA StandardExitsTypes ==
    ASSUME TypeInv, StandardExits
    PROVE  TypeInv'
  <1>1. StandardExitable \subseteq OutputIds
    BY StandardExitAssumption
  <1>2. CASE \E o \in StandardExitable, p \in DOMAIN chain, bond \in BondSizes :
                StartStandardExit(o, p, bond)
    BY <1>1, <1>2, StartStandardExitTypes DEF StandardExits
  <1>3. CASE \E o \in StandardExitable, t \in Txs : ChallengeStandardExit(o, t)
    <2>1. PICK o \in OutputIds : \E t \in Txs : ChallengeStandardExit(o, t)
      BY <1>1, <1>3
    <2> DEFINE exit == [standardExits[o] EXCEPT !.exitable = FALSE]
    <2>2. StandardExitTypeOK
      BY DEF TypeInv, TypeOK
    <2>3. standardExits[o] \in StandardExitData
      BY <2>2 DEF StandardExitTypeOK
    <2>4. exit \in StandardExitData
      BY <2>3 DEF StandardExitData
    <2>5. standardExits' = [standardExits EXCEPT ![o] = exit]
          /\ UNCHANGED withdrawn /\ UNCHANGED controllerVars
      BY <2>1 DEF ChallengeStandardExit
    <2>6. StandardExitTypeOK'
      <3> HIDE DEF exit
      <3> QED BY <2>2, <2>4, <2>5, UpdateStandardLemma
    <2> QED BY <2>5, <2>6, UnchangedLemma DEF StandardExits, TypeInv, TypeOK
  <1> QED BY <1>2, <1>3 DEF StandardExits

LEMMA StartInFlightExitTypes ==
    ASSUME TypeInv, NEW t \in Txs, NEW bond \in BondSizes, StartInFlightExit(t, bond.size),
           UNCHANGED <<chainVars, standardExits>>
    PROVE  TypeInv'
  <1>1. PICK youngest \in Range(TxInputs[t]) :
            inFlightExits' = [inFlightExits EXCEPT ![t] =
                [NoInFlightExit EXCEPT
                    !.isCanonical = TRUE,
                    !.exitStartTimestamp = now,
                    !.position = youngest.position,
                    !.bondSize = bond.size]]
    BY DEF StartInFlightExit
  <1> DEFINE ife == [NoInFlightExit EXCEPT
                        !.isCanonical = TRUE,
                        !.exitStartTimestamp = now,
                        !.position = youngest.position,
                        !.bondSize = bond.size]
  <1>2. youngest.position \in DOMAIN chain
    BY DEF StartInFlightExit, IsStandardFinalized, Positions
  <1>3. youngest.position \in Nat /\ bond.size \in Nat /\ now \in Nat
    BY InputOf, BondAssumption DEF TypeInv, TypeOK, ChainTypeOK
  <1>4. ife \in InFlightExitData /\ ife.position = youngest.position
    BY <1>3, NoExitsLemma DEF NoInFlightExit, InFlightExitData
  <1>5. UNCHANGED controllerVars /\ UNCHANGED withdrawn /\ UNCHANGED chain
    BY DEF StartInFlightExit, chainVars
  <1>6. InFlightExitTypeOK' /\ StartedAtBlock'
    <2>1. inFlightExits' = [inFlightExits EXCEPT ![t] = ife]
      BY <1>1
    <2> HIDE DEF ife
    <2> QED BY <2>1, <1>2, <1>4, <1>5, UpdateLemma
  <1> QED BY <1>5, <1>6, UnchangedLemma DEF TypeInv, TypeOK

\* What the type says of the record of one exit, and what changing one field of it leaves.
LEMMA InFlightExitLemma ==
    ASSUME TypeInv, NEW t \in Txs
    PROVE  /\ inFlightExits[t] \in InFlightExitData
           /\ IsStarted(t) <=> inFlightExits[t].exitStartTimestamp # 0
           /\ IsStarted(t) => inFlightExits[t].position \in DOMAIN chain
  BY DEF TypeInv, TypeOK, InFlightExitTypeOK, StartedAtBlock, IsStarted

LEMMA PiggybackTypes ==
    ASSUME TypeInv, NEW t \in Txs, NEW s \in Slots, NEW bond \in BondSizes,
           Piggyback(t, s, bond), UNCHANGED <<chainVars, standardExits>>
    PROVE  TypeInv'
  <1> DEFINE ife == inFlightExits[t]
             token == Token(OutputAt(t, s))
             exitableAt == CalculateTxExitableTimestamp(BlockOf(ife.position).timestamp)
  <1>1. ife \in InFlightExitData /\ ife.position \in DOMAIN chain
    BY InFlightExitLemma DEF Piggyback
  <1>2. ife.position \in Nat /\ exitableAt \in Nat
    BY <1>1, ExitableAtLemma DEF TypeInv, TypeOK
  <1>3. bond.size \in Nat /\ bond.bounty \in Nat
    BY BondAssumption
  <1>4. /\ SetPiggybacked(t, s, bond) \in InFlightExitData
        /\ SetPiggybacked(t, s, bond).position = ife.position
    BY <1>1, <1>3 DEF SetPiggybacked, InFlightExitData
  <1>5. InFlightExitTypeOK' /\ StartedAtBlock'
    BY <1>1, <1>4, UpdateLemma DEF Piggyback, chainVars
  <1>6. ControllerTypeOK'
    <2>1. CASE IsFirstPiggybackOfTheToken(t, token)
      <3>1. Enqueue(token, exitableAt, ife.position, InFlightExitId(t))
            /\ UNCHANGED outputsFinalizations
        BY <2>1 DEF Piggyback
      <3>2. token \in Tokens
        BY SlotOf, OutputOf DEF Piggyback
      <3> HIDE DEF exitableAt, ife, token
      <3> QED BY <3>1, <3>2, <1>2, ExitIdsLemma, EnqueueLemma DEF TypeInv, TypeOK
    <2>2. CASE ~IsFirstPiggybackOfTheToken(t, token)
      BY <2>2, UnchangedLemma DEF Piggyback, controllerVars
    <2> QED BY <2>1, <2>2
  <1> QED BY <1>5, <1>6, UnchangedLemma DEF Piggyback, TypeInv, TypeOK

\* The actions on the exit of t that keep its position and touch neither queues nor money but
\* the exit game's own.
LEMMA GameStepTypes ==
    ASSUME TypeInv, NEW t \in Txs, NEW ife \in InFlightExitData,
           inFlightExits' = [inFlightExits EXCEPT ![t] = ife],
           ife.exitStartTimestamp # 0 => IsStarted(t) /\ ife.position = inFlightExits[t].position,
           UNCHANGED <<chainVars, standardExits, withdrawn, controllerVars>>
    PROVE  TypeInv'
  <1>1. ife.exitStartTimestamp # 0 => ife.position \in DOMAIN chain
    BY InFlightExitLemma
  <1>2. InFlightExitTypeOK' /\ StartedAtBlock'
    BY <1>1, UpdateLemma DEF chainVars
  <1> QED BY <1>2, UnchangedLemma DEF TypeInv, TypeOK

LEMMA CanonicityTypes ==
    ASSUME TypeInv, NEW t \in Txs, NEW c \in Txs, NEW p \in DOMAIN chain \cup {Infinity},
           \/ ChallengeInFlightExitNotCanonical(t, c, p)
           \/ p \in DOMAIN chain /\ RespondToNonCanonicalChallenge(t, p),
           UNCHANGED <<chainVars, standardExits>>
    PROVE  TypeInv'
  <1>1. p \in 0..Infinity
    <2>1. chain \in Seq([tx : Txs, timestamp : Nat]) /\ Len(chain) <= Len(Deposits) + MaxBlocks
      BY DEF TypeInv, TypeOK, ChainTypeOK
    <2>2. Len(Deposits) \in Nat /\ MaxBlocks \in Nat
      BY TxAssumption, TimeAssumption
    <2> QED BY <2>1, <2>2, NoExitsLemma
  <1>2. PICK canonical \in BOOLEAN : inFlightExits' = [inFlightExits EXCEPT ![t] =
            [inFlightExits[t] EXCEPT !.oldestCompetitorPosition = p, !.isCanonical = canonical]]
    BY DEF ChallengeInFlightExitNotCanonical, RespondToNonCanonicalChallenge
  <1> DEFINE ife ==
        [inFlightExits[t] EXCEPT !.oldestCompetitorPosition = p, !.isCanonical = canonical]
  <1>3. inFlightExits[t] \in InFlightExitData /\ IsStarted(t)
    BY InFlightExitLemma DEF ChallengeInFlightExitNotCanonical, RespondToNonCanonicalChallenge
  <1>4. ife \in InFlightExitData /\ ife.position = inFlightExits[t].position
    BY <1>1, <1>3 DEF InFlightExitData
  <1>5. UNCHANGED <<chainVars, standardExits, withdrawn, controllerVars>>
    BY DEF ChallengeInFlightExitNotCanonical, RespondToNonCanonicalChallenge, fundVars
  <1> HIDE DEF ife
  <1> QED BY <1>2, <1>3, <1>4, <1>5, GameStepTypes DEF ife

LEMMA UnpiggybackTypes ==
    ASSUME TypeInv, NEW t \in Txs, NEW s, IsStarted(t), Unpiggyback(t, s),
           UNCHANGED <<chainVars, standardExits>>
    PROVE  TypeInv'
  <1> DEFINE ife == [inFlightExits[t] EXCEPT !.exitMap = @ \ {s}]
  <1>1. inFlightExits[t] \in InFlightExitData
    BY InFlightExitLemma
  <1>2. ife \in InFlightExitData /\ ife.position = inFlightExits[t].position
    BY <1>1 DEF InFlightExitData
  <1>3. inFlightExits' = [inFlightExits EXCEPT ![t] = ife]
        /\ UNCHANGED <<chainVars, standardExits, withdrawn, controllerVars>>
    BY DEF Unpiggyback
  <1> HIDE DEF ife
  <1> QED BY <1>2, <1>3, GameStepTypes

LEMMA InFlightGameTypes ==
    ASSUME TypeInv, InFlightGame
    PROVE  TypeInv'
  <1>1. InFlightTxs \subseteq Txs
    BY InFlightExitAssumption
  <1>2. UNCHANGED <<chainVars, standardExits>>
    BY DEF InFlightGame
  <1>3. CASE \E t \in InFlightTxs, bond \in BondSizes : StartInFlightExit(t, bond.size)
    BY <1>1, <1>2, <1>3, StartInFlightExitTypes
  <1>4. CASE \E t \in InFlightTxs, s \in Slots, bond \in BondSizes : Piggyback(t, s, bond)
    BY <1>1, <1>2, <1>4, PiggybackTypes
  <1>5. CASE \E t \in InFlightTxs, c \in Txs, p \in DOMAIN chain \cup {Infinity} :
                ChallengeInFlightExitNotCanonical(t, c, p)
    BY <1>1, <1>2, <1>5, CanonicityTypes
  <1>6. CASE \E t \in InFlightTxs, p \in DOMAIN chain : RespondToNonCanonicalChallenge(t, p)
    BY <1>1, <1>2, <1>6, CanonicityTypes
  <1>7. CASE \E t \in InFlightTxs, s \in Slots, c \in Txs :
                ChallengeInFlightExitInputSpent(t, s, c)
    BY <1>1, <1>2, <1>7, UnpiggybackTypes DEF ChallengeInFlightExitInputSpent
  <1>8. CASE \E t \in InFlightTxs, s \in Slots, c \in Txs :
                ChallengeInFlightExitOutputSpent(t, s, c)
    BY <1>1, <1>2, <1>8, UnpiggybackTypes DEF ChallengeInFlightExitOutputSpent
  <1> QED BY <1>3, <1>4, <1>5, <1>6, <1>7, <1>8 DEF InFlightGame

LEMMA DeleteTypes ==
    ASSUME TypeInv, NEW t \in Txs, DeleteInFlightExit(t)
    PROVE  TypeInv'
  <1>1. inFlightExits' = [inFlightExits EXCEPT ![t] = NoInFlightExit]
        /\ UNCHANGED <<chainVars, standardExits, withdrawn, controllerVars>>
    BY DEF DeleteInFlightExit, DeleteNonPiggybackedInFlightExit
  <1> QED BY <1>1, NoExitsLemma, GameStepTypes

----------------------------------------------------------------------------
(* Processing. *)

\* What the vaults may pay is part of what is due.
LEMMA PayableLemma ==
    ASSUME NEW token, NEW due, NEW places \in Payable(token, due)
    PROVE  places \subseteq DOMAIN due
  BY DEF Payable

LEMMA StandardPaid ==
    ASSUME NEW o \in OutputIds, FinalizeStandardExit(o)
    PROVE  \E paid \in SUBSET {o} :
                Withdraw(StandardExitId(o), Token(o), [s \in paid |-> o])
  <1> DEFINE due == [s \in {o} |-> o]
  <1>1. PICK paid \in Payable(Token(o), due) :
            Withdraw(StandardExitId(o), Token(o), [s \in paid |-> o])
    BY DEF FinalizeStandardExit
  <1>2. paid \subseteq DOMAIN due
    BY PayableLemma
  <1> QED BY <1>1, <1>2

\* An in-flight exit is paid for inputs or outputs on the side that exits that no exit finalized.
LEMMA InFlightPaid ==
    ASSUME NEW t \in Txs, NEW token, FinalizeInFlightExit(t, token)
    PROVE  LET exiting == Exiting(t, token)
           IN  /\ IsFiniteSet(DOMAIN exiting)
               /\ \E paid \in SUBSET DOMAIN exiting :
                    /\ \A s \in paid : ~IsOutputFinalized(exiting[s])
                    /\ Withdraw(InFlightExitId(t), token, [s \in paid |-> exiting[s]])
  <1> DEFINE exiting == Exiting(t, token)
             open == {s \in DOMAIN exiting : ~IsOutputFinalized(exiting[s])}
             due == [s \in open |-> exiting[s]]
  <1>1. IsFiniteSet(DOMAIN exiting)
    <2>1. DOMAIN exiting \subseteq InputSlots(t) \/ DOMAIN exiting \subseteq OutputSlots(t)
      BY DEF Exiting
    <2> HIDE DEF exiting
    <2> QED BY <2>1, SlotsOf, FS_Subset
  <1>2. PICK paid \in Payable(token, due) :
            Withdraw(InFlightExitId(t), token, [s \in paid |-> due[s]])
    BY DEF FinalizeInFlightExit, Restrict
  <1> HIDE DEF exiting
  <1>3. paid \subseteq open
    BY PayableLemma
  <1>4. [s \in paid |-> due[s]] = [s \in paid |-> exiting[s]]
    BY <1>3
  <1>5. paid \in SUBSET DOMAIN exiting /\ \A s \in paid : ~IsOutputFinalized(exiting[s])
    BY <1>3
  <1> HIDE DEF due
  <1> QED BY <1>1, <1>2, <1>4, <1>5 DEF exiting

\* The head of a queue is the standard exit of an output or the in-flight exit of a transaction.
LEMMA ProcessLemma ==
    ASSUME TypeInv, NEW token \in Tokens, ProcessExits(token)
    PROVE  /\ UNCHANGED chainVars
           /\ DOMAIN exitsQueues' \subseteq Tokens
           /\ \A k \in DOMAIN exitsQueues' : exitsQueues'[k] \subseteq Priorities
           /\ \/ \E o \in OutputIds : ProcessStandardExit(o) /\ UNCHANGED inFlightExits
              \/ \E t \in Txs : ProcessInFlightExit(t, token) /\ UNCHANGED standardExits
  <1>1. PICK priority \in exitsQueues[token] : ProcessExit(token, priority)
    BY DEF ProcessExits
  <1> DEFINE exitId == priority.exitId
  <1>2. TakeHead(token, priority)
    BY <1>1 DEF ProcessExit
  <1>3. /\ exitId \in ExitIds
        /\ DOMAIN exitsQueues' \subseteq Tokens
        /\ \A k \in DOMAIN exitsQueues' : exitsQueues'[k] \subseteq Priorities
    BY <1>2, TakeHeadLemma DEF TypeInv, TypeOK
  <1>4. CASE IsStandardExit(exitId)
    BY <1>1, <1>3, <1>4, ExitIdsLemma DEF ProcessExit, ProcessExits
  <1>5. CASE ~IsStandardExit(exitId)
    BY <1>1, <1>3, <1>5, ExitIdsLemma DEF ProcessExit, ProcessExits
  <1> QED BY <1>4, <1>5

LEMMA ProcessTypes ==
    ASSUME TypeInv, NEW token \in Tokens, ProcessExits(token)
    PROVE  TypeInv'
  <1>1. /\ UNCHANGED chainVars
        /\ DOMAIN exitsQueues' \subseteq Tokens
        /\ \A k \in DOMAIN exitsQueues' : exitsQueues'[k] \subseteq Priorities
    BY ProcessLemma
  <1>2. ControllerTypeOK /\ withdrawn \in [OutputIds -> Seq(ExitIds)]
    BY DEF TypeInv, TypeOK
  <1> DEFINE Typed == /\ outputsFinalizations' \in [OutputIds -> ExitIds \cup {NoExit}]
                      /\ withdrawn' \in [OutputIds -> Seq(ExitIds)]
  <1>3. ASSUME NEW o \in OutputIds, ProcessStandardExit(o), UNCHANGED inFlightExits
        PROVE  Typed /\ StandardExitTypeOK' /\ InFlightExitTypeOK' /\ StartedAtBlock'
    <2>1. standardExits' = [standardExits EXCEPT ![o] = NoStandardExit]
      BY <1>3 DEF ProcessStandardExit, OmitStandardExit, FinalizeStandardExit
    <2>2. StandardExitTypeOK'
      BY <2>1, NoExitsLemma, UpdateStandardLemma DEF TypeInv, TypeOK
    <2>3. CASE OmitStandardExit(o)
      BY <2>2, <2>3, <1>1, <1>2, <1>3, UnchangedLemma
         DEF OmitStandardExit, fundVars, ControllerTypeOK
    <2>4. CASE FinalizeStandardExit(o)
      <3>1. BatchFlagOutputsFinalized({o}, StandardExitId(o))
        BY <2>4 DEF FinalizeStandardExit
      <3>2. PICK paid \in SUBSET {o} : Withdraw(StandardExitId(o), Token(o), [s \in paid |-> o])
        BY <2>4, StandardPaid
      <3> DEFINE f == [s \in paid |-> o]
      <3>3. IsFiniteSet(DOMAIN f)
        BY FS_Singleton, FS_Subset
      <3>4. withdrawn' \in [OutputIds -> Seq(ExitIds)]
        <4>1. Withdraw(StandardExitId(o), Token(o), f)
          BY <3>2
        <4> HIDE DEF f
        <4> QED BY <4>1, <3>3, <1>2, ExitIdsLemma, WithdrawLemma
      <3>5. Typed
        BY <3>1, <3>4, <1>2, ExitIdsLemma, FlagLemma
      <3> QED BY <2>2, <3>5, <1>1, <1>3, UnchangedLemma
    <2> QED BY <1>3, <2>3, <2>4 DEF ProcessStandardExit
  <1>4. ASSUME NEW t \in Txs, ProcessInFlightExit(t, token), UNCHANGED standardExits
        PROVE  Typed /\ StandardExitTypeOK' /\ InFlightExitTypeOK' /\ StartedAtBlock'
    <2>1. CASE OmitInFlightExit(t)
      BY <2>1, <1>1, <1>2, <1>4, UnchangedLemma DEF OmitInFlightExit, fundVars, ControllerTypeOK
    <2>2. CASE FinalizeInFlightExit(t, token)
      <3>1. BatchFlagOutputsFinalized(Flagged(t, token), InFlightExitId(t))
        BY <2>2 DEF FinalizeInFlightExit
      <3>2. Typed
        <4> DEFINE exiting == Exiting(t, token)
        <4>1. IsFiniteSet(DOMAIN exiting)
          BY <2>2, InFlightPaid
        <4>2. PICK paid \in SUBSET DOMAIN exiting :
                  Withdraw(InFlightExitId(t), token, [s \in paid |-> exiting[s]])
          BY <2>2, InFlightPaid
        <4> DEFINE f == [s \in paid |-> exiting[s]]
        <4>3. IsFiniteSet(DOMAIN f) /\ Withdraw(InFlightExitId(t), token, f)
          <5>1. IsFiniteSet(paid)
            <6> HIDE DEF exiting
            <6> QED BY <4>1, FS_Subset
          <5> QED BY <4>2, <5>1
        <4> HIDE DEF f
        <4> QED BY <4>3, <3>1, <1>2, ExitIdsLemma, FlagLemma, WithdrawLemma
      <3> DEFINE left == inFlightExits[t].exitMap \ Piggybacked(t, token)
                 ife == IF left = {} THEN NoInFlightExit
                        ELSE [inFlightExits[t] EXCEPT !.exitMap = left]
      <3>3. inFlightExits[t] \in InFlightExitData /\ IsStarted(t)
            /\ inFlightExits[t].position \in DOMAIN chain
        BY <2>2, InFlightExitLemma DEF FinalizeInFlightExit
      <3>4. ife \in InFlightExitData
            /\ (ife.exitStartTimestamp # 0 => ife.position \in DOMAIN chain)
        BY <3>3, NoExitsLemma DEF InFlightExitData
      <3>5. inFlightExits' = [inFlightExits EXCEPT ![t] = ife]
        BY <2>2 DEF FinalizeInFlightExit, TypeInv, TypeOK, InFlightExitTypeOK
      <3>6. InFlightExitTypeOK' /\ StartedAtBlock'
        <4> HIDE DEF ife
        <4> QED BY <3>4, <3>5, <1>1, UpdateLemma DEF chainVars
      <3> QED BY <3>2, <3>6, <1>4, UnchangedLemma
    <2> QED BY <1>4, <2>1, <2>2 DEF ProcessInFlightExit
  <1>5. Typed /\ StandardExitTypeOK' /\ InFlightExitTypeOK' /\ StartedAtBlock'
    BY <1>3, <1>4, ProcessLemma
  <1> QED BY <1>1, <1>5, UnchangedLemma DEF TypeInv, TypeOK, ControllerTypeOK

LEMMA NextTypeInv == TypeInv /\ [Next]_vars => TypeInv'
  <1> SUFFICES ASSUME TypeInv, [Next]_vars PROVE TypeInv'
    OBVIOUS
  <1>1. CASE TimePasses
    BY <1>1, TimeTypes
  <1>2. CASE Framework
    BY <1>2, FrameworkTypes
  <1>3. CASE StandardExits
    BY <1>3, StandardExitsTypes
  <1>4. CASE InFlightGame
    BY <1>4, InFlightGameTypes
  <1>5. CASE \E t \in InFlightTxs : DeleteInFlightExit(t)
    BY <1>5, DeleteTypes, InFlightExitAssumption
  <1>6. CASE \E k \in Tokens : ProcessExits(k)
    BY <1>6, ProcessTypes
  <1>7. CASE UNCHANGED vars
    BY <1>7, UnchangedLemma DEF vars, fundVars, TypeInv, TypeOK
  <1> QED BY <1>1, <1>2, <1>3, <1>4, <1>5, <1>6, <1>7 DEF Next

LEMMA TypeInvariance == Spec => []TypeInv
  BY InitTypeInv, NextTypeInv, PTL DEF Spec

\* The variables keep their types in every behaviour of the exit game.
THEOREM TypeCorrect == Spec => []TypeOK
  <1>1. TypeInv => TypeOK
    BY DEF TypeInv
  <1> QED BY <1>1, TypeInvariance, PTL

----------------------------------------------------------------------------
(* The refinement. *)

\* What finalizes and pays as Payouts says: what is paid for is among what is flagged, no exit
\* finalized it before, and it is paid for no more often than claimed.
LEMMA FinalizeLemma ==
    ASSUME NEW exitId, NEW token, NEW flagged, NEW paid, NEW claims,
           IsFiniteSet(DOMAIN paid),
           \A s \in DOMAIN paid : paid[s] \in flagged /\ ~IsOutputFinalized(paid[s]),
           \A o \in OutputIds : claims[o] \in Nat,
           \A s \in DOMAIN paid : TimesPaid(paid, paid[s]) <= claims[paid[s]],
           BatchFlagOutputsFinalized(flagged, exitId), Withdraw(exitId, token, paid)
    PROVE  Promised!Finalize(exitId, flagged, claims)
  <1>1. outputsFinalizations' = [o \in OutputIds |->
            IF o \in flagged /\ outputsFinalizations[o] = NoExit
            THEN exitId ELSE outputsFinalizations[o]]
    BY DEF BatchFlagOutputsFinalized, IsOutputFinalized
  <1>2. withdrawn' = [o \in OutputIds |-> withdrawn[o] \o [n \in 1..TimesPaid(paid, o) |-> exitId]]
    BY DEF Withdraw
  <1>3. withdrawn' = [o \in OutputIds |-> withdrawn'[o]]
    BY <1>2
  <1>4. ASSUME NEW o \in OutputIds
        PROVE  \E times \in 0..(IF o \in flagged /\ outputsFinalizations[o] = NoExit
                                THEN claims[o] ELSE 0) :
                    withdrawn'[o] = withdrawn[o] \o [n \in 1..times |-> exitId]
    <2>1. withdrawn'[o] = withdrawn[o] \o [n \in 1..TimesPaid(paid, o) |-> exitId]
      BY <1>2
    <2>2. TimesPaid(paid, o) \in Nat /\ claims[o] \in Nat
      BY TimesLemma
    <2>3. CASE \E s \in DOMAIN paid : paid[s] = o
      <3>1. TimesPaid(paid, o) <= claims[o] /\ o \in flagged /\ outputsFinalizations[o] = NoExit
        BY <2>3 DEF IsOutputFinalized
      <3>2. TimesPaid(paid, o) \in 0..claims[o]
        BY <2>2, <3>1
      <3> QED BY <2>1, <3>1, <3>2
    <2>4. CASE ~ \E s \in DOMAIN paid : paid[s] = o
      <3>1. TimesPaid(paid, o) = 0
        BY <2>4, TimesLemma
      <3>2. 0 \in 0..(IF o \in flagged /\ outputsFinalizations[o] = NoExit THEN claims[o] ELSE 0)
        BY <2>2
      <3> QED BY <2>1, <3>1, <3>2
    <2> QED BY <2>3, <2>4
  <1> QED BY <1>1, <1>3, <1>4 DEF Promised!Finalize, Promised!Finalized

LEMMA StandardExitPays ==
    ASSUME NEW o \in OutputIds, FinalizeStandardExit(o)
    PROVE  Promised!ExitOutput(o)
  <1>1. PICK paid \in SUBSET {o} :
            Withdraw(StandardExitId(o), Token(o), [s \in paid |-> o])
    BY StandardPaid
  <1>2. ~IsOutputFinalized(o) /\ BatchFlagOutputsFinalized({o}, StandardExitId(o))
    BY DEF FinalizeStandardExit
  <1> DEFINE f == [s \in paid |-> o]
             once == [d \in OutputIds |-> 1]
  <1>3. IsFiniteSet({o}) /\ Cardinality({o}) = 1
    BY FS_Singleton
  <1>4. ASSUME NEW s \in DOMAIN f PROVE TimesPaid(f, f[s]) <= once[f[s]]
    <2>1. {d \in DOMAIN f : f[d] = f[s]} = {o}
      BY <1>4
    <2> QED BY <1>3, <2>1 DEF TimesPaid
  <1>5. IsFiniteSet(DOMAIN f)
    BY <1>3, FS_Subset
  <1>6. \A s \in DOMAIN f : f[s] \in {o} /\ ~IsOutputFinalized(f[s])
    BY <1>2
  <1>7. \A d \in OutputIds : once[d] \in Nat
    OBVIOUS
  <1> HIDE DEF f, once
  <1>8. Promised!Finalize(StandardExitId(o), {o}, once)
    BY <1>1, <1>2, <1>4, <1>5, <1>6, <1>7, FinalizeLemma DEF f
  <1> QED BY <1>8 DEF Promised!ExitOutput, Promised!OnceEach, once

\* The inputs of t as Payouts sees them.
LEMMA AllInputsLemma == \A t \in Txs : Promised!AllInputs(t) = Inputs(t)
  BY NamingLemma, InputsLemma DEF Promised!AllInputs

LEMMA InFlightExitPays ==
    ASSUME NEW t \in Txs, NEW token, FinalizeInFlightExit(t, token)
    PROVE  Promised!ExitInputs(t) \/ Promised!ExitOutputs(t)
  <1> DEFINE exitId == InFlightExitId(t)
             exiting == Exiting(t, token)
  <1>1. PICK paid \in SUBSET DOMAIN exiting :
            /\ \A s \in paid : ~IsOutputFinalized(exiting[s])
            /\ Withdraw(exitId, token, [s \in paid |-> exiting[s]])
    BY InFlightPaid
  <1>2. BatchFlagOutputsFinalized(Flagged(t, token), exitId)
    BY DEF FinalizeInFlightExit
  <1>3. \A s \in DOMAIN exiting : exiting[s] = OutputAt(t, s)
    BY DEF Exiting
  <1> DEFINE f == [s \in paid |-> exiting[s]]
  <1>4. \A s \in DOMAIN f : f[s] \in Flagged(t, token) /\ ~IsOutputFinalized(f[s])
    BY <1>1 DEF Flagged, Range
  <1>5. DOMAIN f = paid /\ \A s \in paid : f[s] = OutputAt(t, s)
    BY <1>1, <1>3
  <1>6. CASE ExitsInputs(t)
    <2>1. DOMAIN exiting \subseteq InputSlots(t)
      BY <1>6 DEF Exiting
    <2>2. Flagged(t, token) \in SUBSET Inputs(t)
      BY <1>3, <1>6, <2>1, SlotOf DEF Flagged, Range
    <2> DEFINE claims == [o \in OutputIds |-> InputsNaming(t, o)]
    <2>3. paid \subseteq InputSlots(t)
      BY <1>1, <2>1
    <2>4. IsFiniteSet(DOMAIN f)
      BY <1>5, <2>3, SlotsOf, FS_Subset
    <2>5. \A o \in OutputIds : claims[o] \in Nat
      BY NamingLemma
    <2>6. ASSUME NEW s \in DOMAIN f PROVE TimesPaid(f, f[s]) <= claims[f[s]]
      <3> DEFINE some == {r \in DOMAIN f : f[r] = f[s]}
                 all == {r \in InputSlots(t) : OutputAt(t, r) = f[s]}
      <3>1. some \subseteq all /\ f[s] \in OutputIds
        BY <1>5, <2>3, SlotOf
      <3>2. IsFiniteSet(all)
        BY SlotsOf, FS_Subset
      <3>3. claims[f[s]] = Cardinality(all) /\ TimesPaid(f, f[s]) = Cardinality(some)
        BY <3>1 DEF TimesPaid, InputsNaming
      <3> HIDE DEF some, all
      <3> QED BY <3>1, <3>2, <3>3, FS_Subset
    <2> HIDE DEF claims, f
    <2>7. Promised!Finalize(InFlightExitId(t), Flagged(t, token), claims)
      BY <1>1, <1>2, <1>4, <2>4, <2>5, <2>6, FinalizeLemma DEF f
    <2>8. Flagged(t, token) \in SUBSET Promised!AllInputs(t)
      BY <2>2, AllInputsLemma
    <2> QED BY <2>7, <2>8 DEF Promised!ExitInputs, claims
  <1>7. CASE ~ExitsInputs(t)
    <2> DEFINE claims == [o \in OutputIds |-> IF o \in Outputs(t) THEN 1 ELSE 0]
               side == Range(exiting)
    <2>1. DOMAIN exiting \subseteq OutputSlots(t)
      BY <1>7 DEF Exiting
    <2>2. Flagged(t, token) = side \cup Inputs(t) /\ side \in SUBSET Outputs(t)
      BY <1>3, <1>7, <2>1, SlotOf DEF Flagged, Range
    <2>3. paid \subseteq OutputSlots(t)
      BY <1>1, <2>1
    <2>4. IsFiniteSet(DOMAIN f)
      BY <1>5, <2>3, SlotsOf, FS_Subset
    <2>5. \A o \in OutputIds : claims[o] \in Nat
      OBVIOUS
    <2>6. ASSUME NEW s \in DOMAIN f PROVE TimesPaid(f, f[s]) <= claims[f[s]]
      <3>1. {r \in DOMAIN f : f[r] = f[s]} = {s}
        BY <1>5, <2>3, SlotsOf
      <3>2. Cardinality({s}) = 1
        BY FS_Singleton
      <3>3. claims[f[s]] = 1
        BY <1>5, <2>3, SlotOf
      <3>4. TimesPaid(f, f[s]) = 1
        BY <3>1, <3>2 DEF TimesPaid
      <3> HIDE DEF claims, f
      <3> QED BY <3>3, <3>4
    <2>7. \A i \in Promised!AllInputs(t) : outputsFinalizations[i] \in {NoExit, InFlightExitId(t)}
      BY <1>7, AllInputsLemma DEF ExitsInputs, IsAnyInputFinalizedByOtherExit
    <2> HIDE DEF claims, f, side
    <2>8. Promised!Finalize(InFlightExitId(t), Flagged(t, token), claims)
      BY <1>1, <1>2, <1>4, <2>4, <2>5, <2>6, FinalizeLemma DEF f
    <2>9. Promised!Finalize(InFlightExitId(t), side \cup Promised!AllInputs(t), claims)
      BY <2>2, <2>8, AllInputsLemma
    <2> QED BY <2>2, <2>7, <2>9 DEF Promised!ExitOutputs, claims
  <1> QED BY <1>6, <1>7

LEMMA PayoutStep ==
    ASSUME TypeInv, [Next]_vars
    PROVE  Promised!Next \/ UNCHANGED <<outputsFinalizations, withdrawn>>
  <1> DEFINE Kept == UNCHANGED <<outputsFinalizations, withdrawn>>
  <1>1. CASE TimePasses \/ Framework
    BY <1>1 DEF TimePasses, Framework, AddExitQueue, fundVars, controllerVars
  <1>2. CASE StandardExits
    BY <1>2 DEF StandardExits, StartStandardExit, ChallengeStandardExit, controllerVars
  <1>3. CASE InFlightGame
    BY <1>3 DEF InFlightGame, StartInFlightExit, Piggyback, ChallengeInFlightExitNotCanonical,
                RespondToNonCanonicalChallenge, ChallengeInFlightExitInputSpent,
                ChallengeInFlightExitOutputSpent, Unpiggyback, fundVars, controllerVars
  <1>4. CASE \E t \in InFlightTxs : DeleteInFlightExit(t)
    BY <1>4 DEF DeleteInFlightExit, DeleteNonPiggybackedInFlightExit, controllerVars
  <1>5. ASSUME NEW token \in Tokens, ProcessExits(token)
        PROVE  Promised!Next \/ Kept
    <2>1. ASSUME NEW o \in OutputIds, ProcessStandardExit(o)
          PROVE  Promised!Next \/ Kept
      BY <2>1, StandardExitPays DEF ProcessStandardExit, OmitStandardExit, Promised!Next, fundVars
    <2>2. ASSUME NEW t \in Txs, ProcessInFlightExit(t, token)
          PROVE  Promised!Next \/ Kept
      BY <2>2, InFlightExitPays DEF ProcessInFlightExit, OmitInFlightExit, Promised!Next, fundVars
    <2> QED BY <1>5, <2>1, <2>2, ProcessLemma
  <1>6. CASE UNCHANGED vars
    BY <1>6 DEF vars, fundVars, controllerVars
  <1> QED BY <1>1, <1>2, <1>3, <1>4, <1>5, <1>6 DEF Next

\* Whatever the exit game does about money is a step of Payouts.
THEOREM Refinement == Spec => ImplementsPayouts
  <1>1. Init => Promised!Init
    BY DEF Init, ControllerInit, FundsInit, Promised!Init
  <1>2. TypeInv /\ [Next]_vars => [Promised!Next]_(Promised!payoutVars)
    BY PayoutStep DEF Promised!payoutVars
  <1> QED BY <1>1, <1>2, TypeInvariance, PTL DEF Spec, ImplementsPayouts, Promised!Spec

----------------------------------------------------------------------------
(* What follows from Payouts. *)

\* Nothing is paid that no exit finalized.
PaidIsFinalized == \A o \in OutputIds : outputsFinalizations[o] = NoExit => withdrawn[o] = <<>>

PayoutInv == PaidIsFinalized /\ WithdrawnByItsFinalizer /\ PaidOutputBlocksInputs

LEMMA InitPayoutInv == Init => PayoutInv
  <1> SUFFICES ASSUME Init PROVE PayoutInv
    OBVIOUS
  <1>1. \A o \in OutputIds : withdrawn[o] = <<>>
    BY DEF Init, FundsInit
  <1>2. \A t \in Txs : \A o \in Outputs(t) : ~WasPaid(t, o)
    <2>1. Range(<<>>) = {}
      BY DEF Range
    <2> QED BY <1>1, <2>1, OutputIdsLemma DEF WasPaid
  <1> QED BY <1>1, <1>2 DEF PayoutInv, PaidIsFinalized, WithdrawnByItsFinalizer,
                            PaidOutputBlocksInputs

LEMMA RepeatLemma ==
    ASSUME NEW S, NEW s \in Seq(S), NEW e \in S, NEW k \in Nat
    PROVE  LET r == [n \in 1..k |-> e]
           IN  /\ k = 0 => s \o r = s
               /\ s = <<>> => s \o r = r
               /\ Len(r) = k
               /\ k # 0 => Range(r) = {e}
  <1> DEFINE r == [n \in 1..k |-> e]
  <1>1. r \in Seq(S) /\ Len(r) = k
    BY SeqOfFunction
  <1>2. k = 0 => r = <<>>
    BY <1>1
  <1>3. k # 0 => Range(r) = {e}
    <2> SUFFICES ASSUME k # 0 PROVE Range(r) = {e}
      OBVIOUS
    <2>1. 1 \in 1..k
      OBVIOUS
    <2> QED BY <2>1 DEF Range
  <1> HIDE DEF r
  <1>4. (r = <<>> => s \o r = s) /\ (s = <<>> => s \o r = r)
    BY <1>1
  <1> QED BY <1>1, <1>2, <1>3, <1>4 DEF r

\* What an in-flight exit can claim of an output is a number; it is one for any exit but that of
\* a transaction that spends the output.
LEMMA ClaimsLemma ==
    /\ \A o, d \in OutputIds : Claims(StandardExitId(o), d) = 1
    /\ \A t \in Txs, o \in OutputIds :
        Claims(InFlightExitId(t), o) =
            IF o \in Inputs(t) THEN InputsNaming(t, o) ELSE 1
  <1>1. \A o \in OutputIds : IsStandardExit(StandardExitId(o))
    BY DEF StandardExitId, IsStandardExit
  <1>2. ASSUME NEW t \in Txs
        PROVE  ~IsStandardExit(InFlightExitId(t)) /\ InFlightExitId(t).of[1] = t
    <2>1. InFlightExitId(t).of = <<t, 0>>
      BY DEF InFlightExitId
    <2> QED BY <2>1 DEF InFlightExitId, IsStandardExit
  <1> QED BY <1>1, <1>2 DEF Claims

LEMMA ClaimsNat == \A e \in ExitIds : \A o \in OutputIds : Claims(e, o) \in Nat
  BY ExitIdsLemma, ClaimsLemma, NamingLemma

\* One exit finalizes and is paid; if it is the in-flight exit of t and is paid an output of t,
\* then it has all inputs of t.
LEMMA FinalizeKeeps ==
    ASSUME TypeInv, PayoutInv, NEW exitId \in ExitIds, NEW flagged, NEW claims,
           Promised!Finalize(exitId, flagged, claims),
           \A o \in OutputIds \cap flagged : claims[o] \in Nat /\ claims[o] <= Claims(exitId, o),
           \A t \in Txs : \A o \in Outputs(t) :
                o \in flagged /\ claims[o] > 0 /\ exitId = InFlightExitId(t) =>
                    /\ Inputs(t) \subseteq flagged
                    /\ \A i \in Inputs(t) : outputsFinalizations[i] \in {NoExit, exitId}
    PROVE  PayoutInv'
  <1> DEFINE first == {o \in flagged : outputsFinalizations[o] = NoExit}
             paid == {o \in OutputIds : withdrawn'[o] # withdrawn[o]}
  <1>1. exitId # NoExit
    BY NoExitAssumption
  <1>2. \A o \in OutputIds :
            outputsFinalizations'[o] = IF o \in first THEN exitId ELSE outputsFinalizations[o]
    BY DEF Promised!Finalize, Promised!Finalized
  <1>3. ASSUME NEW o \in OutputIds
        PROVE  IF o \in paid
               THEN /\ o \in first /\ claims[o] > 0
                    /\ Range(withdrawn'[o]) = {exitId} /\ Len(withdrawn'[o]) <= Claims(exitId, o)
               ELSE withdrawn'[o] = withdrawn[o]
    <2>1. PICK times \in 0..(IF o \in first THEN claims[o] ELSE 0) :
                withdrawn'[o] = withdrawn[o] \o [n \in 1..times |-> exitId]
      BY DEF Promised!Finalize, Promised!Finalized
    <2>2. withdrawn[o] \in Seq(ExitIds)
      BY DEF TypeInv, TypeOK
    <2>3. times \in Nat /\ (o \in first => claims[o] \in Nat /\ claims[o] <= Claims(exitId, o))
      BY <2>1
    <2> DEFINE r == [n \in 1..times |-> exitId]
    <2>4. /\ times = 0 => withdrawn[o] \o r = withdrawn[o]
          /\ withdrawn[o] = <<>> => withdrawn[o] \o r = r
          /\ Len(r) = times
          /\ times # 0 => Range(r) = {exitId}
      BY <2>2, <2>3, RepeatLemma
    <2>5. withdrawn'[o] = withdrawn[o] \o r
      BY <2>1
    <2>6. Claims(exitId, o) \in Nat
      BY ClaimsNat
    <2> HIDE DEF r
    <2>7. o \in first => withdrawn[o] = <<>>
      BY DEF PayoutInv, PaidIsFinalized
    <2>8. CASE times = 0
      BY <2>4, <2>5, <2>8
    <2>9. CASE times # 0
      <3>1. o \in first /\ times <= claims[o] /\ claims[o] > 0
        BY <2>1, <2>3, <2>9
      <3>2. withdrawn'[o] = r
        BY <2>4, <2>5, <2>7, <3>1
      <3>3. Len(r) <= Claims(exitId, o)
        BY <2>3, <2>4, <2>6, <3>1
      <3> QED BY <2>4, <2>9, <3>1, <3>2, <3>3
    <2> QED BY <2>8, <2>9
  <1> HIDE DEF paid
  <1>4. PaidIsFinalized'
    BY <1>1, <1>2, <1>3 DEF PayoutInv, PaidIsFinalized
  <1>5. WithdrawnByItsFinalizer'
    <2> SUFFICES ASSUME NEW o \in OutputIds, withdrawn'[o] # <<>>
                 PROVE  /\ Range(withdrawn'[o]) = {outputsFinalizations'[o]}
                        /\ Len(withdrawn'[o]) <= Claims(outputsFinalizations'[o], o)
      BY DEF WithdrawnByItsFinalizer, Claims, IsStandardExit, Inputs, InputsNaming, InputSlots, OutputAt
    <2>1. CASE o \in paid
      BY <2>1, <1>2, <1>3
    <2>2. CASE o \notin paid
      <3>1. withdrawn[o] # <<>> /\ withdrawn'[o] = withdrawn[o]
        BY <2>2, <1>3
      <3>2. outputsFinalizations[o] # NoExit
        BY <3>1 DEF PayoutInv, PaidIsFinalized
      <3> QED BY <3>1, <3>2, <1>2 DEF PayoutInv, WithdrawnByItsFinalizer
    <2> QED BY <2>1, <2>2
  <1>6. PaidOutputBlocksInputs'
    <2> SUFFICES ASSUME NEW t \in Txs, NEW o \in Outputs(t),
                        InFlightExitId(t) \in Range(withdrawn'[o]), NEW i \in Inputs(t)
                 PROVE  outputsFinalizations'[i] = InFlightExitId(t)
      BY DEF PaidOutputBlocksInputs, WasPaid
    <2>1. i \in OutputIds /\ o \in OutputIds
      BY InputsLemma, OutputIdsLemma
    <2>2. CASE o \in paid
      <3>1. exitId = InFlightExitId(t)
        BY <2>1, <2>2, <1>3
      <3>2. o \in flagged /\ claims[o] > 0
        BY <2>1, <2>2, <1>3
      <3>3. i \in flagged /\ outputsFinalizations[i] \in {NoExit, exitId}
        BY <3>1, <3>2
      <3> QED BY <2>1, <3>1, <3>3, <1>2
    <2>3. CASE o \notin paid
      <3>1. outputsFinalizations[i] = InFlightExitId(t)
        BY <2>1, <2>3, <1>3 DEF PayoutInv, PaidOutputBlocksInputs, WasPaid
      <3>2. InFlightExitId(t) # NoExit
        BY ExitIdsLemma, NoExitAssumption
      <3> QED BY <2>1, <3>1, <3>2, <1>2
    <2> QED BY <2>2, <2>3
  <1> QED BY <1>4, <1>5, <1>6 DEF PayoutInv

LEMMA NextPayoutInv ==
    ASSUME TypeInv, PayoutInv, [Next]_vars
    PROVE  PayoutInv'
  <1>1. CASE UNCHANGED <<outputsFinalizations, withdrawn>>
    BY <1>1 DEF PayoutInv, PaidIsFinalized, WithdrawnByItsFinalizer, PaidOutputBlocksInputs,
                WasPaid
  <1>2. ASSUME NEW o \in OutputIds, Promised!ExitOutput(o)
        PROVE  PayoutInv'
    <2> DEFINE once == [d \in OutputIds |-> 1]
    <2>1. Promised!Finalize(StandardExitId(o), {o}, once)
      BY <1>2 DEF Promised!ExitOutput, Promised!OnceEach
    <2>2. StandardExitId(o) \in ExitIds /\ \A t \in Txs : StandardExitId(o) # InFlightExitId(t)
      BY ExitIdsLemma
    <2>3. \A d \in OutputIds : once[d] \in Nat /\ once[d] <= Claims(StandardExitId(o), d)
      BY ClaimsLemma
    <2> HIDE DEF once
    <2> QED BY <2>1, <2>2, <2>3, FinalizeKeeps
  <1>3. ASSUME NEW t \in Txs, Promised!ExitInputs(t)
        PROVE  PayoutInv'
    <2> DEFINE claims == [o \in OutputIds |-> InputsNaming(t, o)]
    <2>1. PICK flagged \in SUBSET Promised!AllInputs(t) :
            Promised!Finalize(InFlightExitId(t), flagged, claims)
      BY <1>3 DEF Promised!ExitInputs
    <2>2. flagged \subseteq Inputs(t)
      BY AllInputsLemma
    <2>3. \A o \in OutputIds \cap flagged :
            claims[o] \in Nat /\ claims[o] <= Claims(InFlightExitId(t), o)
      BY <2>2, NamingLemma, ClaimsLemma
    <2>4. \A u \in Txs : \A o \in Outputs(u) : ~(o \in flagged /\ InFlightExitId(t) = InFlightExitId(u))
      BY <2>2, ExitIdsLemma, HashAssumption
    <2>5. InFlightExitId(t) \in ExitIds
      BY ExitIdsLemma
    <2> HIDE DEF claims
    <2> QED BY <2>1, <2>3, <2>4, <2>5, FinalizeKeeps
  <1>4. ASSUME NEW t \in Txs, Promised!ExitOutputs(t)
        PROVE  PayoutInv'
    <2> DEFINE claims == [o \in OutputIds |-> IF o \in Outputs(t) THEN 1 ELSE 0]
    <2>1. PICK flagged \in SUBSET Outputs(t) :
            Promised!Finalize(InFlightExitId(t), flagged \cup Promised!AllInputs(t), claims)
      BY <1>4 DEF Promised!ExitOutputs
    <2>2. Promised!AllInputs(t) = Inputs(t)
      BY AllInputsLemma
    <2>3. \A i \in Inputs(t) : outputsFinalizations[i] \in {NoExit, InFlightExitId(t)}
      BY <1>4, <2>2 DEF Promised!ExitOutputs
    <2>4. \A o \in OutputIds :
            claims[o] \in Nat /\ claims[o] <= Claims(InFlightExitId(t), o)
      <3>1. \A o \in Outputs(t) : o \notin Inputs(t)
        BY HashAssumption
      <3>2. \A o \in OutputIds : Claims(InFlightExitId(t), o) \in Nat
        BY ClaimsNat, ExitIdsLemma
      <3> QED BY <3>1, <3>2, ClaimsLemma
    <2>5. \A u \in Txs : InFlightExitId(t) = InFlightExitId(u) => t = u
      BY ExitIdsLemma
    <2>6. Promised!Finalize(InFlightExitId(t), flagged \cup Inputs(t), claims)
      BY <2>1, <2>2
    <2>7. InFlightExitId(t) \in ExitIds
      BY ExitIdsLemma
    <2> HIDE DEF claims
    <2> QED BY <2>3, <2>4, <2>5, <2>6, <2>7, FinalizeKeeps
  <1> QED BY <1>1, <1>2, <1>3, <1>4, PayoutStep DEF Promised!Next

LEMMA PayoutInvariance == Spec => []PayoutInv
  <1>1. TypeInv /\ PayoutInv /\ [Next]_vars => PayoutInv'
    BY NextPayoutInv
  <1> QED BY <1>1, InitPayoutInv, TypeInvariance, PTL DEF Spec

\* What is paid was finalized by the exit that is paid, which gets it no more often than its
\* transaction names it.
THEOREM FinalizersAreWithdrawn == Spec => []WithdrawnByItsFinalizer
  <1>1. PayoutInv => WithdrawnByItsFinalizer
    BY DEF PayoutInv
  <1> QED BY <1>1, PayoutInvariance, PTL

\* So nothing is paid twice where no transaction names one output at two of its inputs: the way
\* the double payment of the run DoubleInput comes about is the only one.
THEOREM NothingIsPaidTwice ==
    ASSUME \A t \in Txs : \A s, r \in InputSlots(t) : OutputAt(t, s) = OutputAt(t, r) => s = r
    PROVE  Spec => []WithdrawnOnce
  <1>1. TypeInv /\ PayoutInv => WithdrawnOnce
    <2> SUFFICES ASSUME TypeInv, PayoutInv, NEW o \in OutputIds, withdrawn[o] # <<>>
                 PROVE  Len(withdrawn[o]) <= 1
      <3>1. Len(<<>>) <= 1
        OBVIOUS
      <3> QED BY <3>1 DEF WithdrawnOnce
    <2>1. Len(withdrawn[o]) <= Claims(outputsFinalizations[o], o)
      BY DEF PayoutInv, WithdrawnByItsFinalizer
    <2>2. outputsFinalizations[o] \in ExitIds
      BY DEF PayoutInv, PaidIsFinalized, TypeInv, TypeOK, ControllerTypeOK
    <2>3. Claims(outputsFinalizations[o], o) = 1
      <3>1. ASSUME NEW t \in Txs, o \in Inputs(t)
            PROVE  InputsNaming(t, o) = 1
        <4>1. PICK s \in InputSlots(t) : OutputAt(t, s) = o
          BY <3>1, SlotsOf
        <4>2. {r \in InputSlots(t) : OutputAt(t, r) = o} = {s}
          BY <4>1
        <4> QED BY <4>2, FS_Singleton DEF InputsNaming
      <3> QED BY <2>2, <3>1, ClaimsLemma DEF ExitIds
    <2>4. Len(withdrawn[o]) \in Nat
      BY DEF TypeInv, TypeOK
    <2> QED BY <2>1, <2>3
  <1> QED BY <1>1, PayoutInvariance, TypeInvariance, PTL

\* An in-flight exit that was paid an output of its transaction has all the inputs.
THEOREM InputsAreBlocked == Spec => []PaidOutputBlocksInputs
  <1>1. PayoutInv => PaidOutputBlocksInputs
    BY DEF PayoutInv
  <1> QED BY <1>1, PayoutInvariance, PTL

\* Of two competing transactions at most one is paid outputs: each would have the shared input.
THEOREM CompetitorsAreExclusive == Spec => []CompetitorsExclusive
  <1>1. PayoutInv => CompetitorsExclusive
    <2> SUFFICES ASSUME PayoutInv, NEW t \in Txs, NEW c \in Txs, c # t,
                        NEW i \in Inputs(c) \cap Inputs(t),
                        NEW o \in Outputs(t), NEW d \in Outputs(c),
                        WasPaid(t, o), WasPaid(c, d)
                 PROVE  FALSE
      BY DEF CompetitorsExclusive
    <2>1. outputsFinalizations[i] = InFlightExitId(t) /\ outputsFinalizations[i] = InFlightExitId(c)
      BY DEF PayoutInv, PaidOutputBlocksInputs
    <2> QED BY <2>1, ExitIdsLemma
  <1> QED BY <1>1, PayoutInvariance, PTL

----------------------------------------------------------------------------
(* The queues. *)

\* An exit that is not started has no piggybacks: what omits it leaves none behind.
OnlyStartedPiggybacked == \A t \in Txs : ~IsStarted(t) => inFlightExits[t].exitMap = {}

QueueInv == PiggybackQueued /\ OnlyStartedPiggybacked

LEMMA InitQueueInv == Init => QueueInv
  BY DEF Init, InFlightExitInit, NoInFlightExit, QueueInv, PiggybackQueued, OnlyStartedPiggybacked

\* What starts or ends no piggyback and takes nothing out of a queue.
QueuesGrow ==
    /\ DOMAIN exitsQueues \subseteq DOMAIN exitsQueues'
    /\ \A k \in DOMAIN exitsQueues : exitsQueues[k] \subseteq exitsQueues'[k]

LEMMA EnqueueGrows ==
    ASSUME NEW token, NEW exitableAt, NEW txPos, NEW exitId,
           Enqueue(token, exitableAt, txPos, exitId)
    PROVE  /\ QueuesGrow
           /\ token \in DOMAIN exitsQueues'
           /\ \E p \in exitsQueues'[token] : p.exitId = exitId
  BY DEF Enqueue, ComputePriority, HasExitQueue, QueuesGrow

LEMMA GrowLemma ==
    ASSUME QueueInv, QueuesGrow, UNCHANGED inFlightExits
    PROVE  QueueInv'
  BY DEF QueueInv, PiggybackQueued, OnlyStartedPiggybacked, QueuesGrow, HasExitQueue, IsStarted

\* One in-flight exit changes and keeps some of its piggybacks, all of them queued.
LEMMA ShrinkLemma ==
    ASSUME TypeInv, QueueInv, NEW t \in Txs, NEW ife,
           inFlightExits' = [inFlightExits EXCEPT ![t] = ife],
           ife.exitMap \subseteq inFlightExits[t].exitMap,
           ife.exitStartTimestamp = 0 => ife.exitMap = {},
           UNCHANGED exitsQueues
    PROVE  QueueInv'
  <1>1. \A u \in Txs : inFlightExits'[u] = IF u = t THEN ife ELSE inFlightExits[u]
    BY DEF TypeInv, TypeOK, InFlightExitTypeOK
  <1> QED BY <1>1 DEF QueueInv, PiggybackQueued, OnlyStartedPiggybacked, HasExitQueue, IsStarted

LEMMA FrameworkQueues ==
    ASSUME TypeInv, QueueInv, TimePasses \/ Framework \/ StandardExits
    PROVE  QueueInv'
  <1>1. UNCHANGED inFlightExits
    BY DEF TimePasses, Framework, StandardExits
  <1>2. QueuesGrow
    <2>1. ASSUME UNCHANGED controllerVars PROVE QueuesGrow
      BY <2>1 DEF controllerVars, QueuesGrow
    <2>2. CASE TimePasses
      BY <2>1, <2>2 DEF TimePasses
    <2>3. CASE Framework
      BY <2>1, <2>3 DEF Framework, AddExitQueue, HasExitQueue, QueuesGrow
    <2>4. CASE StandardExits
      BY <2>1, <2>4, EnqueueGrows DEF StandardExits, StartStandardExit, ChallengeStandardExit
    <2> QED BY <2>2, <2>3, <2>4
  <1> QED BY <1>1, <1>2, GrowLemma

LEMMA PiggybackQueues ==
    ASSUME TypeInv, QueueInv, NEW t \in Txs, NEW s, NEW bond, Piggyback(t, s, bond)
    PROVE  QueueInv'
  <1> DEFINE ife == SetPiggybacked(t, s, bond)
             token == Token(OutputAt(t, s))
  <1>1. inFlightExits[t] \in InFlightExitData
    BY InFlightExitLemma
  <1>2. /\ ife.exitMap = inFlightExits[t].exitMap \cup {s}
        /\ ife.exitStartTimestamp = inFlightExits[t].exitStartTimestamp
        /\ IsStarted(t)
    BY <1>1 DEF Piggyback, SetPiggybacked, InFlightExitData
  <1>3. \A u \in Txs : inFlightExits'[u] = IF u = t THEN ife ELSE inFlightExits[u]
    BY DEF Piggyback, TypeInv, TypeOK, InFlightExitTypeOK
  <1>4. OnlyStartedPiggybacked'
    BY <1>2, <1>3 DEF QueueInv, OnlyStartedPiggybacked, IsStarted
  <1>5. QueuesGrow
    BY EnqueueGrows DEF Piggyback, QueuesGrow
  <1>6. /\ token \in DOMAIN exitsQueues'
        /\ \E p \in exitsQueues'[token] : p.exitId = InFlightExitId(t)
    <2>1. CASE IsFirstPiggybackOfTheToken(t, token)
      BY <2>1, EnqueueGrows DEF Piggyback
    <2>2. CASE ~IsFirstPiggybackOfTheToken(t, token)
      <3>1. PICK d \in inFlightExits[t].exitMap : Token(OutputAt(t, d)) = token
        BY <2>2 DEF IsFirstPiggybackOfTheToken, Piggybacked
      <3> QED BY <2>2, <3>1 DEF Piggyback, QueueInv, PiggybackQueued, HasExitQueue
    <2> QED BY <2>1, <2>2
  <1>7. PiggybackQueued'
    <2> SUFFICES ASSUME NEW u \in Txs, NEW d \in inFlightExits'[u].exitMap
                 PROVE  /\ Token(OutputAt(u, d)) \in DOMAIN exitsQueues'
                        /\ \E p \in exitsQueues'[Token(OutputAt(u, d))] : p.exitId = InFlightExitId(u)
      BY DEF PiggybackQueued, HasExitQueue
    <2>1. CASE u = t /\ d = s
      BY <2>1, <1>6
    <2>2. CASE ~(u = t /\ d = s)
      <3>1. d \in inFlightExits[u].exitMap
        BY <2>2, <1>2, <1>3
      <3> QED BY <3>1, <1>5 DEF QueueInv, PiggybackQueued, HasExitQueue, QueuesGrow
    <2> QED BY <2>1, <2>2
  <1> QED BY <1>4, <1>7 DEF QueueInv

LEMMA GameQueues ==
    ASSUME TypeInv, QueueInv, InFlightGame
    PROVE  QueueInv'
  <1>1. InFlightTxs \subseteq Txs
    BY InFlightExitAssumption
  <1>2. ASSUME NEW t \in Txs, NEW bond \in BondSizes, StartInFlightExit(t, bond.size)
        PROVE  QueueInv'
    <2>1. PICK youngest \in Range(TxInputs[t]) :
              inFlightExits' = [inFlightExits EXCEPT ![t] =
                  [NoInFlightExit EXCEPT
                      !.isCanonical = TRUE,
                      !.exitStartTimestamp = now,
                      !.position = youngest.position,
                      !.bondSize = bond.size]]
      BY <1>2 DEF StartInFlightExit
    <2> DEFINE ife == [NoInFlightExit EXCEPT
                          !.isCanonical = TRUE,
                          !.exitStartTimestamp = now,
                          !.position = youngest.position,
                          !.bondSize = bond.size]
    <2>2. ife.exitMap = {}
      BY DEF NoInFlightExit
    <2>3. inFlightExits' = [inFlightExits EXCEPT ![t] = ife] /\ UNCHANGED exitsQueues
      BY <1>2, <2>1 DEF StartInFlightExit, controllerVars
    <2> HIDE DEF ife
    <2> QED BY <2>2, <2>3, ShrinkLemma
  <1>3. ASSUME NEW t \in Txs, NEW p, NEW canonical, IsStarted(t),
               inFlightExits' = [inFlightExits EXCEPT ![t] =
                 [inFlightExits[t] EXCEPT !.oldestCompetitorPosition = p, !.isCanonical = canonical]],
               UNCHANGED exitsQueues
        PROVE  QueueInv'
    <2> DEFINE ife ==
          [inFlightExits[t] EXCEPT !.oldestCompetitorPosition = p, !.isCanonical = canonical]
    <2>1. inFlightExits[t] \in InFlightExitData
      BY InFlightExitLemma
    <2>2. /\ ife.exitMap = inFlightExits[t].exitMap
          /\ ife.exitStartTimestamp = inFlightExits[t].exitStartTimestamp
      BY <2>1 DEF InFlightExitData
    <2>3. ife.exitStartTimestamp # 0
      BY <1>3, <2>2 DEF IsStarted
    <2> HIDE DEF ife
    <2> QED BY <1>3, <2>2, <2>3, ShrinkLemma DEF ife
  <1>4. ASSUME NEW t \in Txs, NEW s, IsStarted(t), Unpiggyback(t, s)
        PROVE  QueueInv'
    <2> DEFINE ife == [inFlightExits[t] EXCEPT !.exitMap = @ \ {s}]
    <2>1. inFlightExits[t] \in InFlightExitData
      BY InFlightExitLemma
    <2>2. /\ ife.exitMap \subseteq inFlightExits[t].exitMap
          /\ ife.exitStartTimestamp = inFlightExits[t].exitStartTimestamp
      BY <2>1 DEF InFlightExitData
    <2>3. ife.exitStartTimestamp # 0
      BY <1>4, <2>2 DEF IsStarted
    <2>4. inFlightExits' = [inFlightExits EXCEPT ![t] = ife] /\ UNCHANGED exitsQueues
      BY <1>4 DEF Unpiggyback, controllerVars
    <2> HIDE DEF ife
    <2> QED BY <2>2, <2>3, <2>4, ShrinkLemma
  <1>5. CASE \E t \in InFlightTxs, bond \in BondSizes : StartInFlightExit(t, bond.size)
    BY <1>1, <1>2, <1>5
  <1>6. CASE \E t \in InFlightTxs, s \in Slots, bond \in BondSizes : Piggyback(t, s, bond)
    BY <1>1, <1>6, PiggybackQueues
  <1>7. CASE \E t \in InFlightTxs, c \in Txs, p \in DOMAIN chain \cup {Infinity} :
                ChallengeInFlightExitNotCanonical(t, c, p)
    BY <1>1, <1>3, <1>7 DEF ChallengeInFlightExitNotCanonical, controllerVars
  <1>8. CASE \E t \in InFlightTxs, p \in DOMAIN chain : RespondToNonCanonicalChallenge(t, p)
    BY <1>1, <1>3, <1>8 DEF RespondToNonCanonicalChallenge, controllerVars
  <1>9. CASE \E t \in InFlightTxs, s \in Slots, c \in Txs :
                \/ ChallengeInFlightExitInputSpent(t, s, c)
                \/ ChallengeInFlightExitOutputSpent(t, s, c)
    BY <1>1, <1>4, <1>9 DEF ChallengeInFlightExitInputSpent, ChallengeInFlightExitOutputSpent
  <1> QED BY <1>5, <1>6, <1>7, <1>8, <1>9 DEF InFlightGame

LEMMA DeleteQueues ==
    ASSUME TypeInv, QueueInv, NEW t \in Txs, DeleteInFlightExit(t)
    PROVE  QueueInv'
  <1>1. inFlightExits' = [inFlightExits EXCEPT ![t] = NoInFlightExit] /\ UNCHANGED exitsQueues
    BY DEF DeleteInFlightExit, DeleteNonPiggybackedInFlightExit, controllerVars
  <1>2. NoInFlightExit.exitMap = {}
    BY DEF NoInFlightExit
  <1> QED BY <1>1, <1>2, ShrinkLemma

\* The head of the queue of one token leaves. If it was an in-flight exit, then it is not
\* started, or nothing of the token stays piggybacked on it.
LEMMA ProcessQueues ==
    ASSUME TypeInv, QueueInv, NEW token \in Tokens, ProcessExits(token)
    PROVE  QueueInv'
  <1>1. PICK priority \in exitsQueues[token] : ProcessExit(token, priority)
    BY DEF ProcessExits
  <1> DEFINE exitId == priority.exitId
  <1>2. TakeHead(token, priority)
    BY <1>1 DEF ProcessExit
  <1>3. exitId \in ExitIds
    BY <1>2, TakeHeadLemma DEF TypeInv, TypeOK
  <1>4. /\ DOMAIN exitsQueues' = DOMAIN exitsQueues
        /\ \A k \in DOMAIN exitsQueues : exitsQueues'[k] =
                IF k = token THEN exitsQueues[k] \ {priority} ELSE exitsQueues[k]
    BY <1>2 DEF TakeHead
  <1>5. \A u \in Txs, k \in DOMAIN exitsQueues : k # token \/ exitId # InFlightExitId(u) =>
            \A p \in exitsQueues[k] : p.exitId = InFlightExitId(u) => p \in exitsQueues'[k]
    BY <1>4
  <1>6. CASE IsStandardExit(exitId)
    <2>1. UNCHANGED inFlightExits
      BY <1>1, <1>6 DEF ProcessExit
    <2>2. \A u \in Txs : exitId # InFlightExitId(u)
      BY <1>3, <1>6, ExitIdsLemma
    <2> QED BY <1>4, <1>5, <2>1, <2>2
         DEF QueueInv, PiggybackQueued, OnlyStartedPiggybacked, HasExitQueue, IsStarted
  <1>7. CASE ~IsStandardExit(exitId)
    <2>1. PICK t \in Txs : exitId = InFlightExitId(t) /\ ProcessInFlightExit(t, token)
      BY <1>1, <1>3, <1>7, ExitIdsLemma DEF ProcessExit
    <2>2. \A u \in Txs \ {t} : exitId # InFlightExitId(u)
      BY <2>1, ExitIdsLemma
    <2>3. /\ OnlyStartedPiggybacked'
          /\ \A u \in Txs \ {t} : inFlightExits'[u] = inFlightExits[u]
          /\ inFlightExits'[t].exitMap \subseteq inFlightExits[t].exitMap
          /\ \A s \in inFlightExits'[t].exitMap : Token(OutputAt(t, s)) # token
      <3>1. CASE OmitInFlightExit(t)
        BY <3>1 DEF OmitInFlightExit, QueueInv, OnlyStartedPiggybacked, IsStarted
      <3>2. CASE FinalizeInFlightExit(t, token)
        <4> DEFINE left == inFlightExits[t].exitMap \ Piggybacked(t, token)
                   ife == IF left = {} THEN NoInFlightExit
                          ELSE [inFlightExits[t] EXCEPT !.exitMap = left]
        <4>1. inFlightExits[t] \in InFlightExitData /\ IsStarted(t)
          BY <3>2, InFlightExitLemma DEF FinalizeInFlightExit
        <4>2. ife.exitMap = left /\ (ife.exitStartTimestamp = 0 => ife.exitMap = {})
          <5>1. NoInFlightExit.exitMap = {}
            BY DEF NoInFlightExit
          <5>2. [inFlightExits[t] EXCEPT !.exitMap = left].exitMap = left
            BY <4>1 DEF InFlightExitData
          <5>3. [inFlightExits[t] EXCEPT !.exitMap = left].exitStartTimestamp # 0
            BY <4>1 DEF InFlightExitData, IsStarted
          <5> HIDE DEF left
          <5> QED BY <5>1, <5>2, <5>3
        <4>3. \A u \in Txs : inFlightExits'[u] = IF u = t THEN ife ELSE inFlightExits[u]
          BY <3>2 DEF FinalizeInFlightExit, TypeInv, TypeOK, InFlightExitTypeOK
        <4>4. \A s \in left : Token(OutputAt(t, s)) # token
          BY DEF Piggybacked
        <4>5. left \subseteq inFlightExits[t].exitMap
          OBVIOUS
        <4> HIDE DEF left, ife
        <4> QED BY <4>2, <4>3, <4>4, <4>5 DEF QueueInv, OnlyStartedPiggybacked, IsStarted
      <3> QED BY <2>1, <3>1, <3>2 DEF ProcessInFlightExit
    <2> QED BY <1>4, <1>5, <2>2, <2>3 DEF QueueInv, PiggybackQueued, HasExitQueue
  <1> QED BY <1>6, <1>7

LEMMA NextQueueInv ==
    ASSUME TypeInv, QueueInv, [Next]_vars
    PROVE  QueueInv'
  <1>1. CASE TimePasses \/ Framework \/ StandardExits
    BY <1>1, FrameworkQueues
  <1>2. CASE InFlightGame
    BY <1>2, GameQueues
  <1>3. CASE \E t \in InFlightTxs : DeleteInFlightExit(t)
    BY <1>3, DeleteQueues, InFlightExitAssumption
  <1>4. CASE \E k \in Tokens : ProcessExits(k)
    BY <1>4, ProcessQueues
  <1>5. CASE UNCHANGED vars
    BY <1>5, GrowLemma DEF vars, controllerVars, QueuesGrow
  <1> QED BY <1>1, <1>2, <1>3, <1>4, <1>5 DEF Next

\* Nothing that is piggybacked is forgotten: its token's queue holds the exit.
THEOREM PiggybacksAreQueued == Spec => []PiggybackQueued
  <1>1. TypeInv /\ QueueInv /\ [Next]_vars => QueueInv'
    BY NextQueueInv
  <1>2. QueueInv => PiggybackQueued
    BY DEF QueueInv
  <1> QED BY <1>1, <1>2, InitQueueInv, TypeInvariance, PTL DEF Spec

----------------------------------------------------------------------------
(* The queue entries of standard exits, where no amount is 0. *)

Entries(o) ==
    IF HasExitQueue(Token(o))
    THEN {p \in exitsQueues[Token(o)] : p.exitId = StandardExitId(o)}
    ELSE {}

\* A standard exit is only in the queue of its token; its amount tells whether it is in the map,
\* and then the queue has one entry.
EntryInv ==
    /\ \A k \in DOMAIN exitsQueues : \A p \in exitsQueues[k] :
            IsStandardExit(p.exitId) => k = Token(p.exitId.of)
    /\ \A o \in OutputIds :
            IF standardExits[o].amount = 0
            THEN standardExits[o] = NoStandardExit /\ Entries(o) = {}
            ELSE \E p \in Entries(o) : Entries(o) = {p}

LEMMA InitEntryInv == Init => EntryInv
  BY DEF Init, ControllerInit, StandardExitInit, NoStandardExit, EntryInv, Entries, HasExitQueue

\* What adds and takes away no entry of a standard exit.
SameStandardEntries ==
    /\ DOMAIN exitsQueues \subseteq DOMAIN exitsQueues'
    /\ \A k \in DOMAIN exitsQueues : \A p \in exitsQueues[k] :
            IsStandardExit(p.exitId) => p \in exitsQueues'[k]
    /\ \A k \in DOMAIN exitsQueues' : \A p \in exitsQueues'[k] :
            IsStandardExit(p.exitId) => k \in DOMAIN exitsQueues /\ p \in exitsQueues[k]

LEMMA SameLemma ==
    ASSUME EntryInv, SameStandardEntries
    PROVE  /\ \A o \in OutputIds : Entries(o)' = Entries(o)
           /\ \A k \in DOMAIN exitsQueues' : \A p \in exitsQueues'[k] :
                   IsStandardExit(p.exitId) => k = Token(p.exitId.of)
  <1>1. \A o \in OutputIds : \A e : e = StandardExitId(o) => IsStandardExit(e)
    BY DEF StandardExitId, IsStandardExit
  <1>2. ASSUME NEW o \in OutputIds
        PROVE  Entries(o)' = Entries(o)
    <2>1. \A p : p \in Entries(o)' => p \in Entries(o)
      BY <1>1 DEF SameStandardEntries, Entries, HasExitQueue
    <2>2. \A p : p \in Entries(o) => p \in Entries(o)'
      BY <1>1 DEF SameStandardEntries, Entries, HasExitQueue
    <2> QED BY <2>1, <2>2
  <1> QED BY <1>2 DEF EntryInv, SameStandardEntries

LEMMA KeepLemma ==
    ASSUME EntryInv, SameStandardEntries, UNCHANGED standardExits
    PROVE  EntryInv'
  <1>1. /\ \A o \in OutputIds : Entries(o)' = Entries(o)
        /\ \A k \in DOMAIN exitsQueues' : \A p \in exitsQueues'[k] :
                IsStandardExit(p.exitId) => k = Token(p.exitId.of)
    BY SameLemma
  <1> QED BY <1>1 DEF EntryInv

LEMMA SameEntriesLemma ==
    /\ UNCHANGED controllerVars => SameStandardEntries
    /\ \A k : AddExitQueue(k) => SameStandardEntries
    /\ \A k, a, x, t : Enqueue(k, a, x, InFlightExitId(t)) => SameStandardEntries
  <1>1. UNCHANGED controllerVars => SameStandardEntries
    BY DEF controllerVars, SameStandardEntries
  <1>2. \A k : AddExitQueue(k) => SameStandardEntries
    BY DEF AddExitQueue, HasExitQueue, SameStandardEntries
  <1>3. ASSUME NEW k, NEW a, NEW x, NEW t, Enqueue(k, a, x, InFlightExitId(t))
        PROVE  SameStandardEntries
    <2>1. ~IsStandardExit(ComputePriority(a, x, InFlightExitId(t)).exitId)
      BY DEF ComputePriority, InFlightExitId, IsStandardExit
    <2> QED BY <1>3, <2>1 DEF Enqueue, HasExitQueue, SameStandardEntries
  <1> QED BY <1>1, <1>2, <1>3

LEMMA StartEntries ==
    ASSUME TypeInv, EntryInv, NEW o \in OutputIds, NEW p, NEW bond, Amount(o) # 0,
           StartStandardExit(o, p, bond)
    PROVE  EntryInv'
  <1> DEFINE exitableAt == IF IsDeposit(p)
                 THEN CalculateDepositTxOutputExitableTimestamp
                 ELSE CalculateTxExitableTimestamp(BlockOf(p).timestamp)
             priority == ComputePriority(exitableAt, p, StandardExitId(o))
  <1>1. /\ Token(o) \in DOMAIN exitsQueues
        /\ exitsQueues' = [exitsQueues EXCEPT ![Token(o)] = @ \cup {priority}]
    BY DEF StartStandardExit, Enqueue, HasExitQueue
  <1>2. priority.exitId = StandardExitId(o)
    BY DEF ComputePriority
  <1>3. /\ standardExits[o].amount = 0
        /\ standardExits'[o].amount # 0
        /\ \A d \in OutputIds \ {o} : standardExits'[d] = standardExits[d]
    <2>1. standardExits \in [OutputIds -> StandardExitData]
      BY DEF TypeInv, TypeOK, StandardExitTypeOK
    <2> QED BY <2>1 DEF StartStandardExit
  <1> HIDE DEF priority
  <1>4. Entries(o)' = {priority}
    BY <1>1, <1>2, <1>3 DEF EntryInv, Entries, HasExitQueue
  <1>5. \A d \in OutputIds \ {o} : Entries(d)' = Entries(d)
    <2>1. \A d \in OutputIds \ {o} : priority.exitId # StandardExitId(d)
      BY <1>2, ExitIdsLemma
    <2> QED BY <1>1, <2>1 DEF Entries, HasExitQueue
  <1>6. priority.exitId.of = o
    BY <1>2 DEF StandardExitId
  <1> QED BY <1>1, <1>3, <1>4, <1>5, <1>6 DEF EntryInv

LEMMA ChallengeEntries ==
    ASSUME TypeInv, EntryInv, NEW o \in OutputIds, NEW t, ChallengeStandardExit(o, t)
    PROVE  EntryInv'
  <1>1. standardExits \in [OutputIds -> StandardExitData]
    BY DEF TypeInv, TypeOK, StandardExitTypeOK
  <1>2. SameStandardEntries
    BY SameEntriesLemma DEF ChallengeStandardExit
  <1>3. standardExits[o].amount # 0
    BY DEF ChallengeStandardExit, EntryInv, NoStandardExit
  <1>4. /\ standardExits'[o].amount = standardExits[o].amount
        /\ \A d \in OutputIds \ {o} : standardExits'[d] = standardExits[d]
    BY <1>1 DEF ChallengeStandardExit, StandardExitData
  <1>5. /\ \A d \in OutputIds : Entries(d)' = Entries(d)
        /\ \A k \in DOMAIN exitsQueues' : \A p \in exitsQueues'[k] :
                IsStandardExit(p.exitId) => k = Token(p.exitId.of)
    BY <1>2, SameLemma
  <1> QED BY <1>3, <1>4, <1>5 DEF EntryInv

LEMMA ProcessEntries ==
    ASSUME TypeInv, EntryInv, NEW token \in Tokens, ProcessExits(token)
    PROVE  EntryInv'
  <1>1. PICK priority \in exitsQueues[token] : ProcessExit(token, priority)
    BY DEF ProcessExits
  <1> DEFINE exitId == priority.exitId
  <1>2. TakeHead(token, priority) /\ token \in DOMAIN exitsQueues
    BY <1>1 DEF ProcessExit, ProcessExits, HasExitQueue
  <1>3. exitId \in ExitIds
    BY <1>2, TakeHeadLemma DEF TypeInv, TypeOK
  <1>4. exitsQueues' = [exitsQueues EXCEPT ![token] = @ \ {priority}]
    BY <1>2 DEF TakeHead
  <1>5. CASE ~IsStandardExit(exitId)
    <2>1. SameStandardEntries
      BY <1>2, <1>4, <1>5 DEF SameStandardEntries
    <2>2. UNCHANGED standardExits
      BY <1>1, <1>5 DEF ProcessExit
    <2> QED BY <2>1, <2>2, KeepLemma
  <1>6. CASE IsStandardExit(exitId)
    <2>1. PICK o \in OutputIds : exitId = StandardExitId(o) /\ ProcessStandardExit(o)
      BY <1>1, <1>3, <1>6, ExitIdsLemma DEF ProcessExit
    <2>2. token = Token(o)
      <3>1. exitId.of = o
        BY <2>1 DEF StandardExitId
      <3> QED BY <1>1, <1>2, <1>6, <3>1 DEF EntryInv
    <2>3. priority \in Entries(o)
      BY <1>1, <1>2, <2>1, <2>2 DEF Entries, HasExitQueue
    <2>4. Entries(o) = {priority}
      BY <2>3 DEF EntryInv
    <2>5. Entries(o)' = {}
      BY <1>2, <1>4, <2>2, <2>4 DEF Entries, HasExitQueue
    <2>6. \A d \in OutputIds \ {o} : Entries(d)' = Entries(d)
      <3>1. \A d \in OutputIds \ {o} : exitId # StandardExitId(d)
        BY <2>1, ExitIdsLemma
      <3> QED BY <1>2, <1>4, <3>1 DEF Entries, HasExitQueue
    <2>7. /\ standardExits'[o] = NoStandardExit
          /\ \A d \in OutputIds \ {o} : standardExits'[d] = standardExits[d]
      <3>1. standardExits \in [OutputIds -> StandardExitData]
        BY DEF TypeInv, TypeOK, StandardExitTypeOK
      <3> QED BY <2>1, <3>1 DEF ProcessStandardExit, OmitStandardExit, FinalizeStandardExit
    <2>8. NoStandardExit.amount = 0
      BY DEF NoStandardExit
    <2> QED BY <1>2, <1>4, <2>5, <2>6, <2>7, <2>8 DEF EntryInv
  <1> QED BY <1>5, <1>6

LEMMA NextEntryInv ==
    ASSUME TypeInv, EntryInv, [Next]_vars, \A o \in StandardExitable : Amount(o) # 0
    PROVE  EntryInv'
  <1>1. StandardExitable \subseteq OutputIds
    BY StandardExitAssumption
  <1>2. CASE TimePasses \/ Framework
    BY <1>2, SameEntriesLemma, KeepLemma DEF TimePasses, Framework
  <1>3. CASE StandardExits
    BY <1>1, <1>3, StartEntries, ChallengeEntries DEF StandardExits
  <1>4. CASE InFlightGame
    <2>1. UNCHANGED standardExits
      BY <1>4 DEF InFlightGame
    <2>2. SameStandardEntries
      <3>1. ASSUME UNCHANGED exitsQueues PROVE SameStandardEntries
        BY <3>1 DEF SameStandardEntries
      <3>2. ASSUME NEW t, NEW s, NEW bond, Piggyback(t, s, bond) PROVE SameStandardEntries
        BY <3>1, <3>2, SameEntriesLemma DEF Piggyback
      <3> QED BY <1>4, <3>2, SameEntriesLemma
           DEF InFlightGame, StartInFlightExit, ChallengeInFlightExitNotCanonical,
               RespondToNonCanonicalChallenge, ChallengeInFlightExitInputSpent,
               ChallengeInFlightExitOutputSpent, Unpiggyback
    <2> QED BY <2>1, <2>2, KeepLemma
  <1>5. CASE \E t \in InFlightTxs : DeleteInFlightExit(t)
    BY <1>5, SameEntriesLemma, KeepLemma DEF DeleteInFlightExit, DeleteNonPiggybackedInFlightExit
  <1>6. CASE \E k \in Tokens : ProcessExits(k)
    BY <1>6, ProcessEntries
  <1>7. CASE UNCHANGED vars
    BY <1>7, SameEntriesLemma, KeepLemma DEF vars
  <1> QED BY <1>2, <1>3, <1>4, <1>5, <1>6, <1>7 DEF Next

LEMMA EntriesOnce ==
    ASSUME EntryInv
    PROVE  StandardExitQueuedOnce
  <1> SUFFICES ASSUME NEW o \in OutputIds
               PROVE  Cardinality(Entries(o)) = IF standardExits[o] = NoStandardExit THEN 0 ELSE 1
    BY DEF StandardExitQueuedOnce, Entries
  <1>1. CASE standardExits[o].amount = 0
    BY <1>1, FS_EmptySet DEF EntryInv
  <1>2. CASE standardExits[o].amount # 0
    <2>1. PICK p \in Entries(o) : Entries(o) = {p}
      BY <1>2 DEF EntryInv
    <2>2. standardExits[o] # NoStandardExit
      BY <1>2 DEF NoStandardExit
    <2> QED BY <2>1, <2>2, FS_Singleton
  <1> QED BY <1>1, <1>2

\* Where no output of amount 0 exits, each standard exit has one entry in its queue for as long
\* as it is in the map.
THEOREM StandardExitsQueuedOnce ==
    ASSUME \A o \in StandardExitable : Amount(o) # 0
    PROVE  Spec => []StandardExitQueuedOnce
  <1>1. TypeInv /\ EntryInv /\ [Next]_vars => EntryInv'
    BY NextEntryInv
  <1>2. EntryInv => StandardExitQueuedOnce
    BY EntriesOnce
  <1> QED BY <1>1, <1>2, InitEntryInv, TypeInvariance, PTL DEF Spec

----------------------------------------------------------------------------
(* The canonicity game. *)

Competitors(t) == {c \in Txs \ {t} : Inputs(c) \cap Inputs(t) # {}}

\* The oldest position known is that of a competitor, or that of the transaction itself after a
\* response.
GameInv ==
    \A t \in Txs : IsStarted(t) =>
        LET oldest == inFlightExits[t].oldestCompetitorPosition
        IN  IF inFlightExits[t].isCanonical
            THEN oldest \in {0} \cup Positions(t)
            ELSE oldest = Infinity \/ \E c \in Competitors(t) : oldest \in Positions(c)

LEMMA InitGameInv == Init => GameInv
  BY DEF Init, InFlightExitInit, NoInFlightExit, GameInv, IsStarted

\* What shows no competitor, answers none and starts no exit.
LEMMA GameKeeps ==
    ASSUME GameInv, \A t \in Txs : Positions(t) \subseteq Positions(t)',
           \A t \in Txs : IsStarted(t)' =>
                /\ IsStarted(t)
                /\ inFlightExits'[t].isCanonical = inFlightExits[t].isCanonical
                /\ inFlightExits'[t].oldestCompetitorPosition
                        = inFlightExits[t].oldestCompetitorPosition
    PROVE  GameInv'
  BY DEF GameInv, Competitors, Infinity

\* One exit changes, and what it says of the game is right.
LEMMA GameUpdate ==
    ASSUME TypeInv, GameInv, NEW t \in Txs, NEW ife, UNCHANGED chain,
           inFlightExits' = [inFlightExits EXCEPT ![t] = ife],
           \/ ife.exitStartTimestamp = 0
           \/ ife.isCanonical /\ ife.oldestCompetitorPosition \in {0} \cup Positions(t)
           \/ /\ ~ife.isCanonical
              /\ \/ ife.oldestCompetitorPosition = Infinity
                 \/ \E c \in Competitors(t) : ife.oldestCompetitorPosition \in Positions(c)
           \/ /\ IsStarted(t)
              /\ ife.isCanonical = inFlightExits[t].isCanonical
              /\ ife.oldestCompetitorPosition = inFlightExits[t].oldestCompetitorPosition
    PROVE  GameInv'
  <1>1. \A u \in Txs : inFlightExits'[u] = IF u = t THEN ife ELSE inFlightExits[u]
    BY DEF TypeInv, TypeOK, InFlightExitTypeOK
  <1>2. \A u \in Txs : Positions(u)' = Positions(u)
    BY DEF Positions
  <1>3. ASSUME NEW u \in Txs, IsStarted(u)'
        PROVE  IF inFlightExits'[u].isCanonical
               THEN inFlightExits'[u].oldestCompetitorPosition \in {0} \cup Positions(u)
               ELSE \/ inFlightExits'[u].oldestCompetitorPosition = Infinity
                    \/ \E c \in Competitors(u) :
                            inFlightExits'[u].oldestCompetitorPosition \in Positions(c)
    <2>1. CASE u = t
      BY <1>1, <1>3, <2>1 DEF GameInv, IsStarted
    <2>2. CASE u # t
      BY <1>1, <1>3, <2>2 DEF GameInv, IsStarted
    <2> QED BY <2>1, <2>2
  <1> QED BY <1>2, <1>3 DEF GameInv, Competitors, Infinity

LEMMA NextGameInv ==
    ASSUME TypeInv, GameInv, [Next]_vars
    PROVE  GameInv'
  <1>1. ASSUME UNCHANGED inFlightExits, \A t \in Txs : Positions(t) \subseteq Positions(t)'
        PROVE  GameInv'
    BY <1>1, GameKeeps DEF IsStarted
  <1>2. ASSUME UNCHANGED chain
        PROVE  \A t \in Txs : Positions(t) \subseteq Positions(t)'
    BY <1>2 DEF Positions
  <1>3. CASE TimePasses \/ StandardExits \/ UNCHANGED vars
    BY <1>1, <1>2, <1>3 DEF TimePasses, Tick, StandardExits, chainVars, vars
  <1>4. CASE Framework
    <2>1. UNCHANGED inFlightExits
      BY <1>4 DEF Framework
    <2>2. CASE \E t \in Txs : SubmitBlock(t)
      <3>1. PICK block : chain' = Append(chain, block)
        BY <2>2 DEF SubmitBlock
      <3>2. chain \in Seq([tx : Txs, timestamp : Nat])
        BY DEF TypeInv, TypeOK, ChainTypeOK
      <3>3. \A p \in DOMAIN chain : p \in DOMAIN chain' /\ chain'[p] = chain[p]
        BY <3>1, <3>2
      <3> QED BY <2>1, <3>3, <1>1 DEF Positions
    <2>3. CASE UNCHANGED chain
      BY <2>1, <2>3, <1>1, <1>2
    <2> QED BY <1>4, <2>2, <2>3 DEF Framework, chainVars
  <1>5. CASE InFlightGame
    <2>1. UNCHANGED chain /\ InFlightTxs \subseteq Txs
      BY <1>5, InFlightExitAssumption DEF InFlightGame, chainVars
    <2>2. ASSUME NEW t \in InFlightTxs, NEW bond \in BondSizes, StartInFlightExit(t, bond.size)
          PROVE  GameInv'
      <3>1. PICK youngest \in Range(TxInputs[t]) :
                inFlightExits' = [inFlightExits EXCEPT ![t] =
                    [NoInFlightExit EXCEPT
                        !.isCanonical = TRUE,
                        !.exitStartTimestamp = now,
                        !.position = youngest.position,
                        !.bondSize = bond.size]]
        BY <2>2 DEF StartInFlightExit
      <3> DEFINE ife == [NoInFlightExit EXCEPT
                            !.isCanonical = TRUE,
                            !.exitStartTimestamp = now,
                            !.position = youngest.position,
                            !.bondSize = bond.size]
      <3>2. ife.isCanonical /\ ife.oldestCompetitorPosition = 0
        BY DEF NoInFlightExit
      <3>3. inFlightExits' = [inFlightExits EXCEPT ![t] = ife]
        BY <3>1
      <3> HIDE DEF ife
      <3> QED BY <2>1, <3>2, <3>3, GameUpdate
    <2>3. ASSUME NEW t \in InFlightTxs, NEW s \in Slots, NEW bond \in BondSizes,
                 Piggyback(t, s, bond)
          PROVE  GameInv'
      <3>1. inFlightExits[t] \in InFlightExitData
        BY <2>1, InFlightExitLemma
      <3>2. /\ SetPiggybacked(t, s, bond).isCanonical = inFlightExits[t].isCanonical
            /\ SetPiggybacked(t, s, bond).oldestCompetitorPosition
                    = inFlightExits[t].oldestCompetitorPosition
        BY <3>1 DEF SetPiggybacked, InFlightExitData
      <3> QED BY <2>1, <2>3, <3>2, GameUpdate DEF Piggyback
    <2>4. ASSUME NEW t \in InFlightTxs, NEW c \in Txs, NEW p \in DOMAIN chain \cup {Infinity},
                 ChallengeInFlightExitNotCanonical(t, c, p)
          PROVE  GameInv'
      <3> DEFINE ife ==
            [inFlightExits[t] EXCEPT !.oldestCompetitorPosition = p, !.isCanonical = FALSE]
      <3>1. inFlightExits[t] \in InFlightExitData
        BY <2>1, InFlightExitLemma
      <3>2. ife.oldestCompetitorPosition = p /\ ife.isCanonical = FALSE
        BY <3>1 DEF InFlightExitData
      <3>3. c \in Competitors(t)
        BY <2>1, <2>4 DEF ChallengeInFlightExitNotCanonical, Competes, Spends, Inputs, Competitors
      <3>4. p = Infinity \/ p \in Positions(c)
        BY <2>4 DEF ChallengeInFlightExitNotCanonical, IsStandardFinalized
      <3>5. inFlightExits' = [inFlightExits EXCEPT ![t] = ife]
        BY <2>4 DEF ChallengeInFlightExitNotCanonical
      <3> HIDE DEF ife
      <3> QED BY <2>1, <3>2, <3>3, <3>4, <3>5, GameUpdate
    <2>5. ASSUME NEW t \in InFlightTxs, NEW p \in DOMAIN chain, RespondToNonCanonicalChallenge(t, p)
          PROVE  GameInv'
      <3> DEFINE ife ==
            [inFlightExits[t] EXCEPT !.oldestCompetitorPosition = p, !.isCanonical = TRUE]
      <3>1. inFlightExits[t] \in InFlightExitData
        BY <2>1, InFlightExitLemma
      <3>2. ife.oldestCompetitorPosition = p /\ ife.isCanonical
        BY <3>1 DEF InFlightExitData
      <3>3. p \in Positions(t)
        BY <2>5 DEF RespondToNonCanonicalChallenge, IsStandardFinalized
      <3>4. inFlightExits' = [inFlightExits EXCEPT ![t] = ife]
        BY <2>5 DEF RespondToNonCanonicalChallenge
      <3> HIDE DEF ife
      <3> QED BY <2>1, <3>2, <3>3, <3>4, GameUpdate
    <2>6. ASSUME NEW t \in InFlightTxs, NEW s, IsStarted(t), Unpiggyback(t, s)
          PROVE  GameInv'
      <3> DEFINE ife == [inFlightExits[t] EXCEPT !.exitMap = @ \ {s}]
      <3>1. inFlightExits[t] \in InFlightExitData
        BY <2>1, InFlightExitLemma
      <3>2. /\ ife.isCanonical = inFlightExits[t].isCanonical
            /\ ife.oldestCompetitorPosition = inFlightExits[t].oldestCompetitorPosition
        BY <3>1 DEF InFlightExitData
      <3>3. inFlightExits' = [inFlightExits EXCEPT ![t] = ife]
        BY <2>6 DEF Unpiggyback
      <3> HIDE DEF ife
      <3> QED BY <2>1, <2>6, <3>2, <3>3, GameUpdate
    <2> QED BY <1>5, <2>2, <2>3, <2>4, <2>5, <2>6
         DEF InFlightGame, ChallengeInFlightExitInputSpent, ChallengeInFlightExitOutputSpent
  <1>6. CASE \E t \in InFlightTxs : DeleteInFlightExit(t)
    <2>1. PICK t \in Txs : DeleteInFlightExit(t)
      BY <1>6, InFlightExitAssumption
    <2>2. inFlightExits' = [inFlightExits EXCEPT ![t] = NoInFlightExit] /\ UNCHANGED chain
      BY <2>1 DEF DeleteInFlightExit, DeleteNonPiggybackedInFlightExit, chainVars
    <2> QED BY <2>2, NoExitsLemma, GameUpdate
  <1>7. ASSUME NEW token \in Tokens, ProcessExits(token)
        PROVE  GameInv'
    <2>1. UNCHANGED chain
      BY <1>7, ProcessLemma DEF chainVars
    <2>2. CASE UNCHANGED inFlightExits
      BY <1>1, <1>2, <2>1, <2>2
    <2>3. ASSUME NEW t \in Txs, FinalizeInFlightExit(t, token)
          PROVE  GameInv'
      <3> DEFINE left == inFlightExits[t].exitMap \ Piggybacked(t, token)
                 ife == IF left = {} THEN NoInFlightExit
                        ELSE [inFlightExits[t] EXCEPT !.exitMap = left]
      <3>1. inFlightExits[t] \in InFlightExitData /\ IsStarted(t)
        BY <2>3, InFlightExitLemma DEF FinalizeInFlightExit
      <3>2. \/ ife.exitStartTimestamp = 0
            \/ /\ ife.isCanonical = inFlightExits[t].isCanonical
               /\ ife.oldestCompetitorPosition = inFlightExits[t].oldestCompetitorPosition
        BY <3>1, NoExitsLemma DEF InFlightExitData
      <3>3. inFlightExits' = [inFlightExits EXCEPT ![t] = ife]
        BY <2>3 DEF FinalizeInFlightExit, TypeInv, TypeOK, InFlightExitTypeOK
      <3> HIDE DEF ife
      <3> QED BY <2>1, <3>1, <3>2, <3>3, GameUpdate
    <2> QED BY <1>7, <2>2, <2>3, ProcessLemma DEF ProcessInFlightExit, OmitInFlightExit
  <1> QED BY <1>3, <1>4, <1>5, <1>6, <1>7 DEF Next

LEMMA RightfulSide ==
    ASSUME TypeInv, GameInv
    PROVE  RightfulSideCanAnswer
  <1> SUFFICES ASSUME NEW t \in Txs, IsStarted(t)
               PROVE  LET ife == inFlightExits[t]
                          competitors == {c \in Txs \ {t} : Inputs(c) \cap Inputs(t) # {}}
                          rivals == UNION {Positions(c) : c \in competitors}
                      IN  /\ ~ife.isCanonical
                             /\ (\E p \in Positions(t) : \A q \in rivals : p < q) =>
                                  \E p \in Positions(t) : ife.oldestCompetitorPosition > p
                          /\ ife.isCanonical /\ IsInFirstPhase(t) =>
                                  \A q \in rivals : (\A p \in Positions(t) : q < p) =>
                                      ife.oldestCompetitorPosition \notin 1..q
    BY DEF RightfulSideCanAnswer
  <1> DEFINE ife == inFlightExits[t]
             rivals == UNION {Positions(c) : c \in Competitors(t)}
  <1>1. \A c \in Txs : Positions(c) \subseteq Nat /\ \A p \in Positions(c) : p < Infinity
    <2>1. chain \in Seq([tx : Txs, timestamp : Nat]) /\ Len(chain) <= Len(Deposits) + MaxBlocks
      BY DEF TypeInv, TypeOK, ChainTypeOK
    <2>2. Len(Deposits) \in Nat /\ MaxBlocks \in Nat
      BY TxAssumption, TimeAssumption
    <2> QED BY <2>1, <2>2 DEF Positions, Infinity
  <1>2. ASSUME ~ife.isCanonical, NEW p \in Positions(t), \A q \in rivals : p < q
        PROVE  ife.oldestCompetitorPosition > p
    <2>1. CASE ife.oldestCompetitorPosition = Infinity
      BY <1>1, <2>1
    <2>2. CASE ife.oldestCompetitorPosition # Infinity
      <3>1. PICK c \in Competitors(t) : ife.oldestCompetitorPosition \in Positions(c)
        BY <1>2, <2>2 DEF GameInv
      <3>2. ife.oldestCompetitorPosition \in rivals
        BY <3>1
      <3>3. ife.oldestCompetitorPosition \in Nat /\ p \in Nat
        BY <1>1, <3>1 DEF Competitors
      <3> QED BY <1>2, <3>2, <3>3
    <2> QED BY <2>1, <2>2
  <1>3. ASSUME ife.isCanonical, NEW q \in rivals, \A p \in Positions(t) : q < p
        PROVE  ife.oldestCompetitorPosition \notin 1..q
    <2>1. q \in Nat
      BY <1>1 DEF Competitors
    <2>2. CASE ife.oldestCompetitorPosition = 0
      BY <2>1, <2>2
    <2>3. CASE ife.oldestCompetitorPosition \in Positions(t)
      BY <1>1, <1>3, <2>1, <2>3
    <2> QED BY <1>3, <2>2, <2>3 DEF GameInv
  <1> QED BY <1>2, <1>3 DEF Competitors

\* In the canonicity game whoever is right has a move.
THEOREM RightfulSideWins == Spec => []RightfulSideCanAnswer
  <1>1. TypeInv /\ GameInv /\ [Next]_vars => GameInv'
    BY NextGameInv
  <1>2. TypeInv /\ GameInv => RightfulSideCanAnswer
    BY RightfulSide
  <1> QED BY <1>1, <1>2, InitGameInv, TypeInvariance, PTL DEF Spec

----------------------------------------------------------------------------
(* The order of exits. *)

LEMMA MaxBounds ==
    ASSUME NEW a \in Nat, NEW b \in Nat
    PROVE  Max({a, b}) >= a
  <1>1. \E x \in {a, b} : \A y \in {a, b} : x >= y
    OBVIOUS
  <1>2. \A y \in {a, b} : Max({a, b}) >= y
    BY <1>1 DEF Max
  <1> QED BY <1>2

\* No block is older than one before it, nor younger than the clock; and what is queued is an
\* exit of a block, exitable no earlier than two periods after the block, unless it is a
\* standard exit of a deposit.
Timely(p) ==
    /\ p.txPos \in DOMAIN chain
    /\ \/ IsStandardExit(p.exitId) /\ IsDeposit(p.txPos)
       \/ p.exitableAt >= BlockOf(p.txPos).timestamp + 2 * MinExitPeriod

AgeInv ==
    /\ \A p \in DOMAIN chain : chain[p].timestamp <= now
    /\ \A p, q \in DOMAIN chain : p <= q => chain[p].timestamp <= chain[q].timestamp
    /\ \A k \in DOMAIN exitsQueues : \A p \in exitsQueues[k] : Timely(p)

LEMMA InitAgeInv == Init => AgeInv
  <1> SUFFICES ASSUME Init PROVE AgeInv
    OBVIOUS
  <1>1. /\ chain = [p \in DOMAIN Deposits |-> [tx |-> Deposits[p], timestamp |-> DepositTime]]
        /\ now = StartTime
    BY DEF Init, ChainInit
  <1>2. \A p \in DOMAIN chain : chain[p].timestamp = DepositTime
    BY <1>1
  <1>3. DepositTime <= StartTime /\ DepositTime \in Nat /\ StartTime \in Nat
    BY TimeAssumption
  <1> QED BY <1>1, <1>2, <1>3 DEF AgeInv, Init, ControllerInit

LEMMA BlocksLemma ==
    ASSUME TypeInv
    PROVE  /\ now \in Nat
           /\ \A p \in DOMAIN chain : p \in Nat /\ chain[p].timestamp \in Nat
  <1>1. \A p \in DOMAIN chain : p \in Nat /\ chain[p] \in [tx : Txs, timestamp : Nat]
    BY SeqElement DEF TypeInv, TypeOK, ChainTypeOK
  <1> QED BY <1>1 DEF TypeInv, TypeOK, ChainTypeOK

\* No block and no time, and in the queues nothing but what is timely.
LEMMA AgeKeeps ==
    ASSUME AgeInv, UNCHANGED chainVars,
           \A k \in DOMAIN exitsQueues' : \A p \in exitsQueues'[k] :
                Timely(p) \/ (k \in DOMAIN exitsQueues /\ p \in exitsQueues[k])
    PROVE  AgeInv'
  <1>1. now' = now /\ chain' = chain
    BY DEF chainVars
  <1>2. \A p : Timely(p)' <=> Timely(p)
    BY <1>1 DEF Timely, BlockOf, IsDeposit
  <1> QED BY <1>1, <1>2 DEF AgeInv

LEMMA EnqueueTimely ==
    ASSUME NEW token, NEW exitableAt, NEW txPos, NEW exitId,
           Enqueue(token, exitableAt, txPos, exitId), UNCHANGED chainVars, AgeInv,
           Timely(ComputePriority(exitableAt, txPos, exitId))
    PROVE  AgeInv'
  <1> DEFINE priority == ComputePriority(exitableAt, txPos, exitId)
  <1>1. exitsQueues' = [exitsQueues EXCEPT ![token] = @ \cup {priority}]
    BY DEF Enqueue
  <1>2. Timely(priority)
    OBVIOUS
  <1> HIDE DEF priority
  <1>3. \A k \in DOMAIN exitsQueues' : \A p \in exitsQueues'[k] :
            Timely(p) \/ (k \in DOMAIN exitsQueues /\ p \in exitsQueues[k])
    BY <1>1, <1>2
  <1> QED BY <1>3, AgeKeeps

LEMMA ExitableTimely ==
    ASSUME TypeInv, NEW p \in DOMAIN chain
    PROVE  CalculateTxExitableTimestamp(BlockOf(p).timestamp)
                >= BlockOf(p).timestamp + 2 * MinExitPeriod
  <1>1. BlockOf(p).timestamp + 2 * MinExitPeriod \in Nat /\ now + MinExitPeriod \in Nat
    BY BlocksLemma, TimeAssumption DEF BlockOf
  <1> QED BY <1>1, MaxBounds DEF CalculateTxExitableTimestamp

LEMMA SubmitAge ==
    ASSUME TypeInv, AgeInv, NEW t \in Txs, SubmitBlock(t), UNCHANGED exitsQueues
    PROVE  AgeInv'
  <1> DEFINE block == [tx |-> t, timestamp |-> now]
  <1>1. chain' = Append(chain, block) /\ now' = now /\ block.timestamp = now
    BY DEF SubmitBlock
  <1> HIDE DEF block
  <1>2. chain \in Seq([tx : Txs, timestamp : Nat])
    BY DEF TypeInv, TypeOK, ChainTypeOK
  <1>3. /\ \A p \in DOMAIN chain : p \in DOMAIN chain' /\ chain'[p] = chain[p]
        /\ \A p \in DOMAIN chain' \ DOMAIN chain : chain'[p] = block
        /\ \A p \in DOMAIN chain, q \in DOMAIN chain' \ DOMAIN chain : ~(q <= p)
    BY <1>1, <1>2
  <1>4. \A p \in DOMAIN chain' : chain'[p].timestamp <= now'
    BY <1>1, <1>3, BlocksLemma DEF AgeInv
  <1>5. \A p, q \in DOMAIN chain' : p <= q => chain'[p].timestamp <= chain'[q].timestamp
    BY <1>1, <1>3, <1>4, BlocksLemma DEF AgeInv
  <1>6. \A p : Timely(p) => Timely(p)'
    BY <1>3 DEF Timely, BlockOf, IsDeposit
  <1> QED BY <1>4, <1>5, <1>6 DEF AgeInv

LEMMA NextAgeInv ==
    ASSUME TypeInv, AgeInv, [Next]_vars
    PROVE  AgeInv'
  <1>1. CASE TimePasses
    <2>1. now' = now + 1 /\ chain' = chain /\ exitsQueues' = exitsQueues
      BY <1>1 DEF TimePasses, Tick, controllerVars
    <2>2. \A p : Timely(p)' <=> Timely(p)
      BY <2>1 DEF Timely, BlockOf, IsDeposit
    <2> QED BY <2>1, <2>2, BlocksLemma DEF AgeInv
  <1>2. CASE Framework
    BY <1>2, SubmitAge, AgeKeeps DEF Framework, AddExitQueue, HasExitQueue, controllerVars
  <1>3. ASSUME UNCHANGED chainVars, UNCHANGED exitsQueues
        PROVE  AgeInv'
    BY <1>3, AgeKeeps
  <1>4. CASE StandardExits
    <2>1. UNCHANGED chainVars
      BY <1>4 DEF StandardExits
    <2>2. ASSUME NEW o \in StandardExitable, NEW p \in DOMAIN chain, NEW bond \in BondSizes,
                 StartStandardExit(o, p, bond)
          PROVE  AgeInv'
      <3> DEFINE exitableAt == IF IsDeposit(p)
                     THEN CalculateDepositTxOutputExitableTimestamp
                     ELSE CalculateTxExitableTimestamp(BlockOf(p).timestamp)
                 priority == ComputePriority(exitableAt, p, StandardExitId(o))
      <3>1. /\ priority.txPos = p
            /\ priority.exitableAt = exitableAt
            /\ IsStandardExit(priority.exitId)
        BY DEF ComputePriority, StandardExitId, IsStandardExit
      <3>2. Timely(priority)
        <4>1. CASE IsDeposit(p)
          BY <3>1, <4>1 DEF Timely
        <4>2. CASE ~IsDeposit(p)
          <5>1. exitableAt >= BlockOf(p).timestamp + 2 * MinExitPeriod
            BY <4>2, ExitableTimely
          <5> HIDE DEF exitableAt, priority
          <5> QED BY <3>1, <5>1 DEF Timely
        <4> QED BY <4>1, <4>2
      <3>3. Enqueue(Token(o), exitableAt, p, StandardExitId(o))
        BY <2>2 DEF StartStandardExit
      <3> HIDE DEF exitableAt
      <3> QED BY <2>1, <3>2, <3>3, EnqueueTimely
    <2> QED BY <1>3, <1>4, <2>1, <2>2 DEF StandardExits, ChallengeStandardExit, controllerVars
  <1>5. CASE InFlightGame
    <2>1. UNCHANGED chainVars
      BY <1>5 DEF InFlightGame
    <2>2. ASSUME NEW t \in InFlightTxs, NEW s, NEW bond, Piggyback(t, s, bond)
          PROVE  AgeInv'
      <3> DEFINE position == inFlightExits[t].position
                 exitableAt == CalculateTxExitableTimestamp(BlockOf(position).timestamp)
                 priority == ComputePriority(exitableAt, position, InFlightExitId(t))
      <3>1. position \in DOMAIN chain
        BY <2>2, InFlightExitLemma, InFlightExitAssumption DEF Piggyback
      <3>2. priority.txPos = position /\ priority.exitableAt = exitableAt
        BY DEF ComputePriority
      <3>3. exitableAt >= BlockOf(position).timestamp + 2 * MinExitPeriod
        BY <3>1, ExitableTimely
      <3>4. Timely(priority)
        <4> HIDE DEF priority, exitableAt, position
        <4> QED BY <3>1, <3>2, <3>3 DEF Timely
      <3>5. Enqueue(Token(OutputAt(t, s)), exitableAt, position, InFlightExitId(t)) \/ UNCHANGED exitsQueues
        BY <2>2 DEF Piggyback
      <3> HIDE DEF exitableAt, position
      <3> QED BY <1>3, <2>1, <3>4, <3>5, EnqueueTimely
    <2> QED BY <1>3, <1>5, <2>1, <2>2
         DEF InFlightGame, StartInFlightExit, ChallengeInFlightExitNotCanonical,
             RespondToNonCanonicalChallenge, ChallengeInFlightExitInputSpent,
             ChallengeInFlightExitOutputSpent, Unpiggyback, controllerVars
  <1>6. CASE \E t \in InFlightTxs : DeleteInFlightExit(t)
    BY <1>3, <1>6 DEF DeleteInFlightExit, DeleteNonPiggybackedInFlightExit, controllerVars
  <1>7. ASSUME NEW token \in Tokens, ProcessExits(token)
        PROVE  AgeInv'
    <2>1. UNCHANGED chainVars /\ \E priority : TakeHead(token, priority)
      BY <1>7 DEF ProcessExits, ProcessExit
    <2> QED BY <2>1, AgeKeeps DEF TakeHead, HasExitQueue
  <1>8. CASE UNCHANGED vars
    BY <1>3, <1>8 DEF vars, controllerVars
  <1> QED BY <1>1, <1>2, <1>4, <1>5, <1>6, <1>7, <1>8 DEF Next

\* What leaves a queue is its head, and the head of a queue is not younger than an exit in it
\* that was started in time.
LEMMA HeadLemma ==
    ASSUME TypeInv, AgeInv, NEW token, NEW p, TakeHead(token, p), NEW q \in exitsQueues[token],
           q.exitableAt <= BlockOf(q.txPos).timestamp + 2 * MinExitPeriod,
           q.txPos < p.txPos
    PROVE  IsStandardExit(p.exitId) /\ IsDeposit(p.txPos)
  <1>1. token \in DOMAIN exitsQueues /\ p \in exitsQueues[token] /\ ~Before(q, p)
    BY DEF TakeHead, HasExitQueue, GetMin
  <1>2. p \in Priorities /\ q \in Priorities
    BY <1>1 DEF TypeInv, TypeOK, ControllerTypeOK
  <1>3. p.exitableAt \in Nat /\ q.exitableAt \in Nat /\ p.txPos \in Nat /\ q.txPos \in Nat
    BY <1>2 DEF Priorities
  <1>4. p.exitableAt < q.exitableAt
    BY <1>1, <1>3 DEF Before
  <1>5. Timely(p) /\ Timely(q)
    BY <1>1 DEF AgeInv
  <1>6. BlockOf(q.txPos).timestamp <= BlockOf(p.txPos).timestamp
    BY <1>3, <1>5 DEF AgeInv, Timely, BlockOf
  <1>7. BlockOf(q.txPos).timestamp \in Nat /\ BlockOf(p.txPos).timestamp \in Nat
    BY <1>5, BlocksLemma DEF Timely, BlockOf
  <1>8. ~(p.exitableAt >= BlockOf(p.txPos).timestamp + 2 * MinExitPeriod)
    BY <1>3, <1>4, <1>6, <1>7, TimeAssumption
  <1> QED BY <1>5, <1>8 DEF Timely

LEMMA OnlyProcessingTakes ==
    ASSUME [Next]_vars, NEW k \in DOMAIN exitsQueues, NEW p \in exitsQueues[k],
           p \notin exitsQueues'[k]
    PROVE  TakeHead(k, p)
  <1>1. ASSUME UNCHANGED exitsQueues PROVE FALSE
    BY <1>1
  <1>2. ASSUME NEW token, NEW a, NEW x, NEW e, Enqueue(token, a, x, e) PROVE FALSE
    BY <1>2, EnqueueGrows DEF QueuesGrow
  <1>3. CASE TimePasses \/ Framework \/ UNCHANGED vars
    BY <1>3 DEF TimePasses, Framework, AddExitQueue, HasExitQueue, controllerVars, vars
  <1>4. CASE StandardExits
    BY <1>1, <1>2, <1>4 DEF StandardExits, StartStandardExit, ChallengeStandardExit, controllerVars
  <1>5. CASE InFlightGame
    <2>1. ASSUME NEW t, NEW s, NEW bond, Piggyback(t, s, bond) PROVE FALSE
      BY <1>1, <1>2, <2>1 DEF Piggyback
    <2> QED BY <1>1, <1>5, <2>1
         DEF InFlightGame, StartInFlightExit, ChallengeInFlightExitNotCanonical,
             RespondToNonCanonicalChallenge, ChallengeInFlightExitInputSpent,
             ChallengeInFlightExitOutputSpent, Unpiggyback, controllerVars
  <1>6. CASE \E t \in InFlightTxs : DeleteInFlightExit(t)
    BY <1>1, <1>6 DEF DeleteInFlightExit, DeleteNonPiggybackedInFlightExit, controllerVars
  <1>7. ASSUME NEW token \in Tokens, ProcessExits(token)
        PROVE  TakeHead(k, p)
    <2>1. PICK priority : TakeHead(token, priority)
      BY <1>7 DEF ProcessExits, ProcessExit
    <2>2. token = k /\ priority = p
      BY <2>1 DEF TakeHead, HasExitQueue
    <2> QED BY <2>1, <2>2
  <1> QED BY <1>3, <1>4, <1>5, <1>6, <1>7 DEF Next

\* An exit that was started in time is not overtaken by one of a younger transaction.
THEOREM OlderExitsGoFirst == Spec => OlderGoesFirst
  <1>1. TypeInv /\ AgeInv /\ [Next]_vars => AgeInv'
    BY NextAgeInv
  <1>2. ASSUME TypeInv, AgeInv, [Next]_vars
        PROVE  \A k \in DOMAIN exitsQueues : \A p, q \in exitsQueues[k] :
                 /\ p \notin exitsQueues'[k]
                 /\ q \in exitsQueues'[k]
                 /\ q.exitableAt <= BlockOf(q.txPos).timestamp + 2 * MinExitPeriod
                 /\ q.txPos < p.txPos
                 => IsStandardExit(p.exitId) /\ IsDeposit(p.txPos)
    BY <1>2, HeadLemma, OnlyProcessingTakes
  <1> QED BY <1>1, <1>2, InitAgeInv, TypeInvariance, PTL DEF Spec, OlderGoesFirst
====
