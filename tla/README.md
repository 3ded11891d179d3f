# The OMG Plasma contracts and their tests in TLA+

This directory specifies and verifies the core of the MoreVP contracts in
`plasma_framework/contracts`: how value leaves the Plasma chain through standard and in-flight
exits, what the framework does for them (block numbers, queues, finalization flags, vaults,
registries, bonds), the fast exits built on them; and the Python program in
`plasma_framework/python_tests` that stands beside the contracts in the tests: a child chain of its
own, signing, Merkle trees, and the testing language that keeps both sides in step.
The TLA+ is translated from the Solidity and the Python; paths of contracts are relative to
`src/plasma_framework/contracts/src`, those of Python to `src/plasma_framework/python_tests`.

- `PROJECT.json` lists the components, the runs, the map from definitions to source lines, the
  mutants, the hazards, the findings and the theorems.
- Check a run with `tlc -config Swap.cfg MCPaymentExitGame.tla` (the module of each run is in the
  tables below), a proof with `tlapm PaymentExitGame_proofs.tla`.

## 1. Inventory of the system

### The contracts

Everything runs inside Ethereum transactions: each external call either succeeds or leaves nothing
behind, and is atomic but for what it calls in turn. Concurrency is the order in which users, the operator,
challengers and the callers of `processExits` get their calls in, against a clock
(`block.timestamp`) that nobody controls. Nothing crashes; what fails is a call, or a transfer of
ETH inside one that goes on.

| component | state | operations | what makes it correct |
|---|---|---|---|
| `framework/BlockController` | `nextChildBlock`, `nextDeposit`, `blocks` | `submitBlock` (operator), `submitDepositBlock` (vaults) | blocks are never overwritten; numbers are ages; a number tells deposits from child blocks |
| `framework/ExitGameController` | a priority queue per (vault, token), `delegations`, `outputsFinalizations`, a mutex | `addExitQueue`, `enqueue`, `processExits`, flagging | older exits go first; the first exit to flag an output keeps it |
| `framework/utils/PriorityQueue`, `ExitPriority` | a heap of 256-bit numbers | `insert`, `delMin` | `getMin` is the least of what is inside |
| `exits/payment`: standard exits | `StandardExitMap`: exit id → exit | start, challenge, process | an exit is processed once; a spent output does not exit |
| `exits/payment`: in-flight exits | `InFlightExitMap`: exit id → exit with `exitMap` bits | start, piggyback input/output, challenge/respond canonicity, challenge a piggyback as spent, delete, process | no output is paid twice, by whatever mix of exits; inputs or outputs, never those of two competitors; the canonicity game can be won by who is right; every bond is returned once |
| `vaults` | balances; the deposit verifiers | `deposit`, `withdraw`, `setDepositVerifier` | pay what exits ask for, or skip it (ETH), or revert (ERC20) |
| `exits/utils/BondSize` | previous and updated bond and bounty | update, read | the bond in force changes only after two days |
| registries, `Quarantine`, `Protocol` | which contracts are exit games and vaults, since when | register, `isQuarantined` | new contracts cannot act before users had time to exit |
| encodings: `PosLib`, `Bits`, `Merkle`, `RLPReader`, EIP-712, transactions | none | pure | inverse to each other, injective |
| fee exit game, spending-condition registry | a registry | registration at deployment | one condition per pair of types |
| `contracts/poc/fast_exits` (Quasar, QuasarPool, Liquidity) | tickets, reserved capacity, bonds | tickets, claims, in-flight claims, challenges | an output is paid once and in full or not at all; capacity and bonds are counted once |

How they interact: an exit game calls `enqueue`, the flags and the vaults of the framework;
`processExits` calls back into the exit game, which calls a vault, which calls the receiver. The
exits of one transaction, of its inputs and of its competitors meet only in the flags.

What is hard there, and what the properties are for: operations of unrelated exits on the same
outputs in any order; an in-flight exit of several tokens that is processed at different times and
decides anew each time which side to pay; decisions read off data that other calls clear (the bits
of the exit map, the amount of an exit); queue entries that outlive their exits; restarts under the
same exit id; positions that stand for ages; several payment paths out of one balance; calls back from a payment
in the middle of a batch; values that change only after a delay, updated again during it.

### The Python program

One thread, but not without hazards: it keeps a second copy of what the contracts know, in objects
that outlive a test, and an exception may leave an operation half done.

| component | state | operations | what makes it correct |
|---|---|---|---|
| `plasma_core/child_chain.py`, `block.py`, `transaction.py` | `blocks`, the next numbers, blocks that wait for a parent, spent flags in the transactions | `add_block`, which calls itself for the blocks that waited | nothing is spent twice by two blocks; no value is made; who waited gets its turn; numbers like the contract's |
| `plasma_core/transaction.py`, `utils/eip712_struct_hash.py` | one dictionary of typed data for all calls, signatures | `sign` | valid for the contract it was made for and no other |
| `plasma_core/utils/merkle` with `utils/Merkle.sol` | the tree | build, prove, check | its proofs are accepted; only leaves are |
| `plasma_core/utils/transactions.py`, `exit_priority.py` with `PosLib`, `ExitPriority`, `ExitableTimestamp` | none | encode, decode | words are in the order of what they stand for |
| `testlang/testlang.py` | the contracts and the child chain | deposit, submit or force a block, each operation on exits | both sides agree; arguments fit what the exit game demands |
| `InFlightExit` of `testlang.py` | the bits of the exit map | read | reads back what was piggybacked and is still there, through three shifts of the index |
| `tests_utils/convenience_wrappers.py` (the chain's clock) | the time set for the next block, automine | forward, mine, end of a test | time moves on; a forward reaches its period |
| `.circleci/scripts/check_faucet_balance_and_warn.py` | none of its own | read the balance, file an issue | a faucet that stays low is reported |

The contracts are reached through web3 only; what they return is modelled from their source.
PROJECT.json lists the hazards of both sides with their lines.

## 2. The modules

| module | models | state |
|---|---|---|
| `BlockController` | `BlockController.sol`, with the real block numbers | `now`, `nextChildBlock`, `nextDeposit`, `blocks` |
| `PlasmaBlocks` | what the exit games see of blocks, transactions and time | `now`, `chain` |
| `Funds` | vault withdrawals, ETH transfers that may fail | `vaultBalance`, `withdrawn`, `ethBalance` |
| `ExitGameController` | queues, priorities, finalization flags | `exitsQueues`, `outputsFinalizations` |
| `StandardExit` | the standard exits of payment outputs | `standardExits` |
| `InFlightExit` | the in-flight exits of payment transactions | `inFlightExits` |
| `PaymentExitGame` | the composition: `Init`, `Next`, `Spec`, fairness, the properties | all of the above |
| `Payouts` | the abstract promise about the money | `finalizedBy`, `paidTo` |
| `ProcessExits` | `processExits` itself: loop, `topExitId`, mutex, calls back, reverts | queues, `delegations`, `mutex`, the stack `calls` |
| `PriorityQueue` | the heap of `PriorityQueue.sol`, one turn of a loop per step | `heapList`, size, where the loop is |
| `UtxoPosition`, `ExitPriority` | positions and priority words as numbers of given widths, in Solidity and Python; the queue of words | `words`, `exits` |
| `BondSize` | bond and bounty updates | previous, updated, time of effect |
| `DepositVerifier` | the maturing deposit verifier of `Vault.sol` | the two verifiers, time |
| `Registries` | `VaultRegistry`, `ExitGameRegistry`, `Quarantine` | who is registered as what, since when, immunities |
| `Quasar` | `poc/fast_exits/Quasar.sol`, `QuasarPool.sol` | tickets, claims, capacity, what is held |
| `ChainTime` | `block.timestamp` for the modules above | `clock` |
| `ChildChain` | the Python child chain | `blocks`, `parentQueue`, next numbers, `spent`, the stack `frames` |
| `TestingLanguage` | `testlang.py` over `ChildChain` and the contracts' blocks | both sides, the call being made |
| `Eip712Signing`, `FixedMerkle`, `TestClock`, `InFlightExitView`, `FaucetCheck` | the other Python parts | see the inventory |
| `Payouts`, `ExitBatches`, `PriorityBag`, `DelayedValue`, `Promises` | abstract specifications, section 4 | |
| `MCPaymentExitGame`, `MCFramework`, `MCTestingLanguage`, `MCPython` | small worlds for TLC | |
| `ArithmeticLemmas` | sums over finite sets, powers of two and quotients, for the proofs | |
| `PaymentExitGame_proofs`, `PaymentBonds_proofs`, `Framework_proofs`, `Quasar_proofs`, `ChildChain_proofs`, `Language_proofs`, `TestTools_proofs` | the theorems, section 5 | |

The exit game is built in layers: `PlasmaBlocks` – `Funds` – `ExitGameController` –
(`StandardExit`, `InFlightExit`) – `PaymentExitGame`. The parts of the framework that share no state
with it stand alone and give it what it assumes: that positions are in the order of submission
(`BlockController`), that a queue is a set from which the least leaves (`PriorityQueue`,
`ExitPriority`), that a call for several exits is one exit after the other (`ProcessExits`).
`UtxoPosition` – `ChildChain` – `TestingLanguage` is the tower of the Python side; `ChildChain` is
shown to number blocks as `BlockController` does, and `TestingLanguage` holds both.

### How the state corresponds to the code

- **Transactions.** `Txs` are the payment transactions whose inputs carry valid witnesses, included
  or not. The bytes of a transaction, its hash and its in-flight exit id are all named by the
  transaction. An output is named by its outputId, the pair of creating transaction and index; its
  standard exit id likewise. Hashes are injective. An input is a position, and the witness fits one
  output, so `TxInputs` holds both.
- **Blocks.** One entry of `chain` is one Plasma block with one payment transaction of interest. A
  position is an index into it. The operator can include any transaction at any time, and one
  transaction several times, but does not include a deposit a second time.
- **Inputs and outputs of an exit** are named by their index (`Slots`), as in the arrays and the bits
  of the code, and `OutputAt` is the outputId kept there. Two inputs may be one output: they must be
  at different positions (`PaymentStartInFlightExit.sol:217-225`), and a transaction that the operator
  included twice has each of its outputs at two. What an exit is paid is therefore counted by index:
  the code asks for each input whether it is finalized, pays it, and flags only after all of them
  (`PaymentProcessInFlightExit.sol:101-111`). `withdrawn` is, per output, the sequence of exits paid.
- **The two ways a transaction is shown to spend an output.** `SpendsAt`: the input names the very
  position of the output (standard exits and output-spent challenges). `Spends`: the outputId that
  is computed from what the challenger supplies equals the one stored, and the input names a
  position for it; only for deposits does the id depend on the position.
- **Queues.** A queue is the set of priorities in it; a priority is
  `(exitableAt, txPos, exitId)`. The order of two exits of one kind that agree on the rest is that
  of their hashes, so `GetMin` leaves it open. The delegations of the code are entries of the same
  keys and are not kept twice.
- **processExits.** In `PaymentExitGame` one action processes one exit. A call for `n` exits is `n`
  such actions in a row, so every state the code can be in between two calls is reached, and more
  orders besides. That this is sound is what `ProcessExits` is for: there a call is a frame on a
  stack, a payment is a step in which anyone may call back, and a payment that reverts restores the
  state that the frame saved. Together they are `ExitBatches`.
- **Vaults and refused transfers.** `Payable` says which of the outputs due can end up paid: ERC20
  pays all or the call reverts (no action); ETH skips what cannot be paid. `Accepted` says which of
  the bond transfers succeed. With `MayRefuse = FALSE` all receivers accept.
- **The view of an in-flight exit** (`InFlightExitView`) is one exit with its bits as a number. Every
  operation of the contract that changes them is there: piggybacks through the wrapper, at any index
  up to one more than there are (an index past the inputs' sets the bit of an output, `testlang.py:404`
  has no bound), both challenges, processing for one token, which clears the token's bits and with the
  last of them ends the exit, deletion after the first phase, and the next start. Who pays what is
  left out, and when: an entry of the queue can be processed from the end of the first phase on.
- **Calls of a standard exit.** `start_standard_exit_with_tx_body` has an entry of its own without a
  block, where the tree is that of the transaction alone; `challenge_standard_exit` takes the input
  and the signature from the spending transaction or as given. Outputs are asked for at index 0 and 1.
- **Deleted exits** are the record with default values, as `delete` leaves it in Solidity.
- **add_block** of the child chain is recursive and can raise in the middle. The stack of
  activations is the variable `frames`, a step is what one activation does up to its next call, and
  an exception drops all frames and leaves what was done.
- **Hashes and bytes** are names made of what is hashed: a Merkle node is the pair below it or a
  salted leaf, a digest the pair of contract and content. Widths are kept where a number can
  overflow its field (`ExitPriority`: `% TimestampSize`, `% TxPosSize`).
- **Loops** of the heap and of Merkle proofs are one turn per step, with the variables of the loop.
- **The Quasar** knows the Plasma contracts through three questions: is the transaction included,
  when was its in-flight exit started, what is the last block. They are parameters. Blocks are
  counted in child blocks. A transfer that is refused reverts the call, so it is no step.
- `MinExitPeriod \div 2` is the integer division of `isInFirstPhase`.

Definitions whose comment begins "A mutant" are not part of the specification: each is the
definition after it with a plausible mistake, named in PROJECT.json, and shows that a property
would notice.

## 3. What the runs check

All passing runs finish without error. `TypeOK` is checked in one run and proved for all.

| run (module) | properties | world and bounds |
|---|---|---|
| `Competing` (`MCPaymentExitGame`) | `WithdrawnByItsFinalizer`, `CompetitorsExclusive`, `TypeOK` | a transaction that may be included twice, one that names its output at both positions, another that spends it too; in-flight exits of both, standard exits of that output and of the other's; two child blocks; 111,916 states |
| `Swap` (same) | `PaidOutputBlocksInputs`, `PiggybackQueued`, `BondsAccounted`, `ImplementsPayouts` | one transaction that swaps two tokens, a competitor for one of its inputs, a standard exit of that input; two queues; 78,912 states |
| `Canonicity` (same) | `RightfulSideCanAnswer` | three child blocks that include the transaction and its competitor in any order and number; 125,995 states |
| `StandardExits` (same) | `StandardExitQueuedOnce`, `EthSolvency`, `OlderGoesFirst` | standard exits of outputs of three ages, two bond sizes, refused ETH, two child blocks; 38,634 states |
| `EveryExitEnds` (same) | `ExitsEnd` | `FairSpec`; a standard exit of an input against an in-flight exit; 20,598 states |
| `Framework` (`MCFramework`) | see below | eight parts of the framework, each on its own; 543,646 states |
| `Language` (`MCTestingLanguage`) | `InStep`, `ProofsAccepted`, `InFlightInfoFits`, `ChallengesNameTheSpend` | deposits, valid, invalid and forced blocks of up to three transactions, every operation on exits, at output indexes 0 and 1, with what a test may give itself; 259,603 states |
| `Python` (`MCPython`) | see below | the child chain and five tools of the tests, each on its own; 291,027 states |

`Framework` and `Python` compose parts that share no variable but, for some, the clock. A variable
`part` is chosen at the start and says which of them moves; the others stay in their first state.
A property of one part reads only the variables of that part and the clock, so its behaviours are
those of the part alone, and nothing is lost by not interleaving what cannot meet.

| part of `Framework` | properties | bounds |
|---|---|---|
| block numbers | `TimestampsOrdered`, `DepositsRecognized`, `AppendOnly` | interval 3: two deposits between child blocks, one too many is refused; three child blocks |
| priority words | `WordsAreOrdered`, `NotBeforeItsPeriod` | two words at a time of ten positions: both ends of what fits the word, all four transactions of a block; the time stays below the width of the field (in the code, until 2106) |
| heap | `IsPriorityBag` | up to six elements of four values: three levels, a node with one child, equal elements |
| `processExits` | `IsBatched` | two queues, two exit games, three entries, batches of two, one exit whose payment may revert |
| bond | `BondIsDelayed`, `BondMovesInBounds` | sizes below, at and above both bounds, delay 2, updates during the delay and when it ends |
| deposit verifier | `VerifierIsDelayed` | three verifiers, two exit periods, settings while one matures |
| registries | `OneToOne`, `TimeToLeave` | two contracts of each kind, two ids, one immunity each |
| fast exits | `EverythingCounted`, `KeepsPromises` | two outputs of two tokens; claims by included and in-flight transactions, a competitor, a claim that pays too little; margins that revert; tickets that lapse and come again |

| part of `Python` | properties | bounds |
|---|---|---|
| child chain | `BlocksSpendOnce`, `NoValueCreated`, `WaitersAreServed`, `NumbersLikeTheContract` | eighteen blocks with competing, forged, minting and misplaced transactions in any order, again and again; interval 3, three child blocks; `MaxWaiting` 1, so that a waiting list has one block: of longer lists (an exception leaves their rest waiting) only the theorem speaks, two are beyond what TLC finishes |
| Merkle tree | `OwnProofsAccepted`, `OnlyLeavesAccepted` | depth two, four fills with equal leaves and with a leaf that looks like a node; indexes up to twice the tree; every list of up to three hashes as a proof |
| signing | `ValidForItsContractOnly` | two transactions, two keys, two contracts or none, both recovery bits |
| exit map | `ReadsBack` | five inputs and three outputs of two tokens, every map, indexes up to one too many; two entries per queue, so that one is left from an exit that was deleted and started again |
| clock | `PeriodReached` | forwards of 1, 3 or to a period, with mining on and off and over ends of tests |
| faucet | `LowIsReported` | two jobs, each run twice, balances on both sides of the threshold and at it |

**Bounds.** `MaxTime` and `MaxBlocks` cap the clock and the blocks; `LastStart` and
`LastInFlightStart` cap when exits start, so that each can be processed within `MaxTime`;
`StandardExitable` and `InFlightTxs` say whose exits a run looks at. `MinExitPeriod = 2` is the
least for which the first phase (half a period) is not empty, and the same units separate start,
end of the first phase, end of one period and end of two. In `Competing`, `Swap` and
`EarlyPayment` the last start is late enough for an exit to be deleted or processed and started
again. Two competitors, two inputs, two outputs and two tokens are the least numbers at which one
exit is processed twice, an input blocks an output of another token, and exits of different
transactions meet; two blocks are what it takes to include a transaction twice. The theorems of
section 5 have no such bounds.

`CHECK_DEADLOCK FALSE` is in every configuration since each world ends at a bound: of the clock, of
the blocks, or of the runs of a job.

**What they show, beyond the names.**

- `WithdrawnByItsFinalizer` is what the whole system keeps of "no double payment", across all exits
  that can name an output, and their restarts: one exit only is ever paid an output, and if its
  transaction names the output at one input, once. That each output is paid once whatever the
  operator includes is false, and what the run `DoubleInput` is for.
- `PaidOutputBlocksInputs` and `CompetitorsExclusive`: even when both of two competing in-flight
  exits are canonical, which happens when nobody shows the competitor, only one pays outputs.
- `PiggybackQueued`: enqueueing is decided by bits that challenges clear. That stale queue entries
  stay behind is what makes this hold in every order, and also what `EarlyPayment` below shows.
- `BondsAccounted` compares each change of the ETH of the contract with the change of what it owes.
  The one exception it allows is in the code: a standard exit that nobody challenged but whose
  output another exit finalized is omitted without returning its bond
  (`PaymentProcessStandardExit.sol:62-66`).
- `RightfulSideCanAnswer` is about the game and not about a step: whoever has the older inclusion
  always has a move.
- `ExitsEnd` is what a user relies on who did everything right or nothing at all: no exit stays for ever.
- `OlderGoesFirst` is the guarantee that lets users exit before a younger invalid transaction of the
  operator. It is relative to the `exitableAt` that the exit got, so it names the exits that were
  started in time; and deposits are exempt, because their period is one and not two.
- `IsBatched` is about the caller of `processExits`: whatever payments call back or revert in the
  middle, the call takes the first exitable exits at one moment, or nothing. The mutant without the
  mutex shows that the mutex is what makes it so.
- `BondIsDelayed` and `VerifierIsDelayed` are one promise, `DelayedValue`, made by two contracts that
  keep it differently; the interesting steps are updates while another one waits.
- `TimeToLeave` joins the quarantine with the exit periods: who exits within three periods of the
  registration of an exit game (two for a vault) is done before the new contract can do harm.
- `EverythingCounted` and `KeepsPromises`: the money of the Quasar, and the promise to the one who
  spent an output to it, over every path of a ticket.
- `WaitersAreServed` allows what the code does when a waiting block raises: those after it in the
  same list are left waiting, and only they.
- `InStep` says when the two sides agree, and that after a failed `submit_block` they never do again.
- `ProofsAccepted` exempts a transaction that has an equal one before it in its block: the tree finds
  the first (`fixed_merkle.py:75`). A standard exit that is started without a block gives the proof of
  a tree of one leaf, which a block of several does not accept: the property asks for acceptance where
  the two trees have the same leaves.
- `ReadsBack` follows an exit through its whole life. That bits vanish by processing is what
  `test_process_exits.py:598` and `662` read; nothing else than a challenge or the processing of its token takes
  back a piggyback, nor does one come back from an earlier life of the exit.

### Fairness

`FairSpec` assumes that time goes on, that for each token somebody calls `processExits` while
something in its queue is exitable (the code pays a bounty for it), and that the owner of the bond
of an exit without piggybacks has it deleted. Nobody is assumed to challenge, respond or piggyback.
Weak fairness is enough: once its time has come, an exit stays exitable until it is processed, and
an exit without piggybacks can be deleted until it is piggybacked on or gone. In `EveryExitEnds`
each transfer succeeds; a token whose transfers revert for ever would hold its queue for ever.

`LowIsReported` assumes that the machine goes on with a job that it started (`FaucetSpec`); nothing
is assumed of the networks, so a job may fail. No other property is about liveness: the tests'
program and the framework's other parts only do what they are called for.

### Where the code and its texts differ

Four runs are expected to find a violation of what a comment or a test says.

- `BothSidesPaid` (`OutputNotPaidAfterInput`): an in-flight exit of two tokens is processed for one
  token as non-canonical and pays an input; a response makes it canonical; for the other token it
  pays an output. `PaymentProcessInFlightExit.sol:83-99` rules that out.
- `EarlyPayment` (`InFlightExitAwaitsPeriod`): an in-flight exit that was deleted and started again
  is paid through the queue entry of its first life, less than a period after its second start.
- `DoubleInput` (`WithdrawnOnce`): the operator includes a transaction twice, and an in-flight
  transaction names its output at both positions. The exit becomes non-canonical, both inputs are
  piggybacked, and processing pays both: `PaymentProcessInFlightExit.sol:82-88` rules out an output that is
  finalized as an input of a non-canonical transaction, but the flags are set after the loop that pays.
- `ZeroAmount` (`ExitStartedOnce`): whether a standard exit is started is read off its amount, and
  outputs of amount 0 exist, so such an exit can be started twice.

Smaller differences that the model settles in favour of the code and no run is about:

- a challenged standard exit is kept and not deleted
  (`docs/design/payment-game-implementation-v1.md`); transactions have up to five inputs and outputs,
  not four; the quarantine of an exit game is four periods (`ExitGameRegistry.sol:31`) where the
  integration guide says three; of deposits, `interval - 1` fit between two child blocks and not
  `interval` as `BlockController.sol:67` has it;
- `waitingPeriod` of the Quasar, "from submission to processing claim" (`Quasar.sol:87`), is stored
  and read nowhere: the constant of eight days is used;
- a child block that comes too early waits for the number before its own (`child_chain.py:40`), which
  is a deposit's and may never come: it is then not tried when the child block before it comes, and
  never added (`WaitersAreServed` is about those whose number does come);
- two transactions of one block that spend the same output are both valid
  (`child_chain.py:77` and `109`: the flags are set after the whole block was validated), which is why
  `BlocksSpendOnce` is about two blocks;
- the check of the faucet opens its request twice (`check_faucet_balance_and_warn.py:51-52`), so a low
  faucet is reported by two issues;
- two forwards of time before a block do not add up, the later one counts
  (`convenience_wrappers.py:41`, `testlang.py:365`).

## 4. The abstract specifications

`Payouts` knows only which exit finalized an output and which exits were paid for it. One exit at
a time finalizes some outputs, and is paid some of those it is the first to finalize: the standard
exit of an output that output; the in-flight exit of a transaction either inputs, or outputs. The
latter requires that no other exit has one of the inputs, and takes all of them. An output is paid
once, but an input as often as the transaction names it (`InputsOf` counts). `PaymentExitGame`
implements it with `finalizedBy <- outputsFinalizations` and `paidTo <- withdrawn`
(`ImplementsPayouts`): no queue, bond, phase, challenge, block or clock matters for this promise,
which is why it survives everything the participants can do.

| abstract | what it promises | implemented by (property) |
|---|---|---|
| `Payouts` | each output is finalized and paid by one exit, once for each input that names it | `PaymentExitGame` (`ImplementsPayouts`) |
| `ExitBatches` | a call takes the first exitable exits, in order, or none | `ProcessExits` (`IsBatched`); the state of the outermost call until it returns is the one it saved |
| `PriorityBag` | a bag from which a smallest element leaves | `PriorityQueue` (`IsPriorityBag`); during a loop the element on its way is counted where it will be |
| `DelayedValue` | a value that changes a whole delay after it was announced | `BondSize` (`BondIsDelayed`), `DepositVerifier` (`VerifierIsDelayed`) |
| `Promises` | an output is reserved, then paid once or given up, but not once claimed | `Quasar` (`KeepsPromises`) |
| `BlockController` | numbers of blocks, child and deposit | `ChildChain` (`NumbersLikeTheContract`), which derives `nextDeposit` from its own counters |

All of them are checked by TLC and proved (section 5).

## 5. What is proved

Every property of a passing run except the two about liveness is also a theorem, for all values of
the constants that satisfy the assumptions of the modules. Each theorem of the form "always" rests on
an inductive invariant; the sections below say which, and what it adds to the property.

### The payment exit game

`PaymentExitGame_proofs`, for all transactions, tokens, bonds and periods that satisfy the
assumptions:

1. `TypeCorrect`: `Spec => []TypeOK`. `TypeOK` alone is not inductive: a piggyback computes its
   priority from the block at the exit's position, so `TypeInv` adds that a started exit's position
   is a block (`StartedAtBlock`).
2. `Refinement`: `Spec => ImplementsPayouts`. Only `FinalizeStandardExit` and
   `FinalizeInFlightExit` touch the flags and the payments; each is matched by one action of
   `Payouts`, the in-flight one by `ExitInputs` or `ExitOutputs` as `ExitsInputs` decides. The code
   pays by index, so the proof counts the indexes of one output among those that are paid.
3. `FinalizersAreWithdrawn`, `InputsAreBlocked`, `CompetitorsAreExclusive`, from `PayoutInv`: nothing is
   paid that is not finalized (`PaidIsFinalized`, needed because a payment is appended), what is paid was
   paid to its finalizer and no more often than that exit can claim it, and a paid output has its
   inputs blocked. The induction uses `Payouts` only: a step of the exit game is one of its actions.
   `NothingIsPaidTwice`: where no transaction names one output at two inputs, `WithdrawnOnce` holds.
   This is a premise of that theorem and of no other; `DoubleInput` shows that it is needed.

4. `PiggybacksAreQueued`, from `QueueInv`: an exit that is not started has no piggybacks
   (`OnlyStartedPiggybacked`). Only `ProcessExits` takes an entry out of a queue; it then ends the
   piggybacks of that exit and token, or omits an exit that is not started.
5. `StandardExitsQueuedOnce`, from `EntryInv`: an exit's amount is 0 exactly when it is the default
   record without an entry, and a queue holds standard exits of its own token only. It assumes that
   no output that can be exited has amount 0; without that the run `ZeroAmount` shows it false.
6. `RightfulSideWins`, from `GameInv`: the oldest competitor's position is always a position of a
   competitor, or after a response one of the transaction itself, or none was given. So whoever is
   older has a position below the one recorded.
7. `OlderExitsGoFirst`, from `AgeInv`: the timestamps of blocks grow with their positions, and each
   entry that is not a standard exit of a deposit is exitable no earlier than two periods after its
   block (`Timely`).

Assumptions of the exit game: `TimeAssumption`, `TxAssumption` (shape of the constants),
`HashAssumption` (no transaction spends its own output), `BondAssumption` (a bounty is at most its bond),
`NoExitAssumption` (0 is not an exit id). The other modules assume the types of their constants and
what their comments say of them. TLC evaluates all of them in the runs.

`PaymentBonds_proofs`, on the same assumptions:

8. `BondsArePayable`: the contract holds the ETH of every bond it owes. `BondInv` says why a step can
   rely on the record it reads: a bounty is part of its bond, an exit that is not started holds no
   bond and no piggyback, and the amount of an exitable standard exit is that of its output (so it is
   not mistaken for one that is gone). What is owed is a sum over exits and over piggybacks; each
   action changes one record of it, and the balance by at least as much (`Covered`).
9. `EveryBondIsAccountedFor`: the change of the balance is exactly the change of what is owed, except
   when an exit that nobody challenged is omitted. It assumes that no receiver refuses ETH
   (`NoneRefused`: what is refused stays in the contract) and that no output has amount 0
   (`AmountsNotZero`, as in 5: an exit of amount 0 that is started twice loses its first bond).

### The framework: `Framework_proofs`

*Block numbers*, for every interval and every bound: the types; `TimestampsOrdered`;
`AppendOnly`; `DepositsRecognized`. The inductive invariant `IInv` says in addition that every
number in use is below the next number of its kind, and that no block is younger than the clock;
without the former a deposit could overwrite the next child block. For `DepositsRecognized` it takes
one more fact (`KindsInv`), that the next child block is a multiple of the interval.

*The heap*, for elements and heaps of any size: `HeapTypeCorrect`; `MinIsFirst`
(between calls the first element is a smallest one); `HeapIsBag`, that the heap is a `PriorityBag`.
The invariant says that every element is at least its parent except around the place where a loop
is, that the loop's element fits between what is above and what is below that place, and how
often each element is in the array, counting the one in the loop once. That the root is least of
all follows from the order of parents: the first place that held something smaller than the root
would have a parent that does too.

*Priority words*, for any widths, interval and exit period: `PriorityWordsAreOrdered` and
`NoneBeforeItsPeriod`. The lemmas are about numbers in a mixed base: packing is injective and
monotone as long as each field fits; `MAX_BLOCK_NUM` is what makes positions fit.

*processExits*, for any queues, ids, batch sizes and receivers: `ProcessingIsBatched`. `ProcessInv`
says that the mutex is set exactly while one call is on its way, and that the call has taken the
first exits of the queue that it saved, in their order and exitable when taken; all that is left
comes after them, each of them but the one in hand has been paid, and queues and delegations fit each other.
The abstract state is what the outermost call saved, until it returns; its return is then one step of
`ExitBatches` that takes the whole batch, and a revert is none.

*Bonds, verifiers, registries*, for any delays, bounds, contracts and ids: `BondsAreDelayed`,
`BondsMoveInBounds` (an update that waits stays a legal step from the size in force, since none can
come into force before it), `VerifiersAreDelayed`, `RegistriesAreOneToOne`, `UsersCanLeave` (a
quarantine, if there is one, starts with the registration).

### Fast exits: `Quasar_proofs`

For any outputs, transactions, amounts and periods: `PromisesAreKept`, from
`QuasarInv`: a ticket in force reserves the whole amount, a claimed ticket stays in force, an
in-flight claim belongs to a claimed ticket. So no path pays a second time or another amount.
`EverythingIsCounted`: what is reserved is a sum over the tickets in force, and a step changes the
term of one ticket. It takes two assumptions more: tickets are finitely many, and their validity
period is not 0 (14400 seconds in the code; a ticket whose time is 0 reads as none).

### The Python child chain: `ChildChain_proofs`

For any blocks, transactions and interval: `NothingSpentTwice`,
`NoneWaitsForNothing`, and `ChainImplementsController`. `ChildInv` adds to these that the heads are
in step with the blocks that are there (`Heads`) and that what blocks spend is marked (`Marked`).
`NoValueIsCreated`, from `ValueInv`: a validated block adds outputs worth no more than what it spends,
and what it spends was unspent. The property holds only as long as no block names one output twice
(`NamesEachOnce`): the flags are set after the whole block was validated, section 3.

### The testing language: `Language_proofs`

- `ChainIsInStep`, from `StepInv`: the chain and the contracts are level, or, once a block was refused,
  the contracts are ahead by a block at least. The contract has counted the refused block and the
  chain has not, so their next numbers never meet again.
- `SpendIsNamed`, from `NamingInv`: it adds that the numbers of blocks are taken and fit the tree, that
  blocks which were validated spend what their signers own (`Stored`), and that a call to the exit
  game is made only when nothing else is under way (`CallAlone`).
- `ChainProofsAreAccepted` and `InFlightInfoIsRight`, from `FittingInv`; a proof from the transaction
  alone is one for the block if the block has the same leaves. A node of a level is made of the
  two below it, so the leaves under the node in hand of a climb are those under the node on the
  path, up to the whole tree. The index that the tree finds is the transaction's own unless an
  equal one comes before it. Inputs in ascending order are all inputs, each once.

### Tools of the tests: `TestTools_proofs`

- `OwnProofsAreAccepted`, for trees of any depth and leaves: `MerkleInv`
  follows one proof up the tree while it is made and again while it is checked: its i-th hash is the
  neighbour on level i, and the hash in hand is the node on the path. `OnlyLeavesAreAccepted`, from
  `SoundInv`: what a check has in hand is a node of the tree only if it is on its own level and over
  the leaf at the path's end. It needs that the salts keep leaves and nodes apart
  and that the hash has no collisions.
- `SignedForItsContractOnly`, from `SignedInv`: whatever the shared dictionary holds, each signature is
  none or was made for the contract that was asked for last.
- `PeriodIsReached`, from `ClockInv`: the time set for the next block is past the
  latest one, and after a forward to a later period it is half an exit period ahead at least.
- `ExitIsReadBack`, from `ViewInv`: the bits of the exit map are exactly the piggybacks, up to the last
  bit that is read, whichever of the piggybacks, challenges, processing steps and deletions came last.
  To add `2^k` where bit `k` is 0 sets that bit and leaves the others alone; to clear
  the bits of a token is to subtract a sum of such powers, one after another; to divide by a product is
  to divide twice.

### Lemmas about numbers: `ArithmeticLemmas`

Sums are folds over sets. The library's induction theorems cannot be used by the provers, so
the lemmas go by least counterexamples: a set of subsets of a finite set that has {} and grows by
single elements has all of them (`SubsetInduction`). From it follow that a fold exists and does not
depend on the order, what an element adds, and sums of disjoint, larger, renamed or nested families. The
provers know no exponentiation; what a power of two is, is part of `LanguageAssumption` and
`NumAssumption` as an equation that TLC evaluates, and the lemmas derive from it that powers are
positive and divide each other.

### Assumptions on the constants

`ChainAssumption`, `QuasarAssumption` and the others give the constants their types and what their
comments say of them. Beyond types: transactions and tickets are finitely many (a sum is over
finite sets); no contract is at the null address and the null signature is none that is made
(`SigningAssumption`); the index of a transaction in its position has as many values as the tree
has leaves, and the inputs that `spend_utxo` names survive encoding and decoding
(`LanguageAssumption`). TLC evaluates all of them in the runs.

### Only model-checked

`ExitsEnd` and `LowIsReported`: liveness takes fairness and `ENABLED`, which are out of the prover's
reach. The properties of the four runs that find a violation are false as they stand;
`WithdrawnOnce` is proved under the premise of `NothingIsPaidTwice`.

## 6. What is not modelled, and why

- RLP decoding and the bytes of hashes and signatures: a model can only name them. What they
  guarantee (injectivity, a valid witness) is assumed where it is used.
- In the exit game: a deposit transaction that the operator includes again, deposits and upgrades
  during a run, gas, 160-bit ids.
  Bonds take any value of `BondSizes` at each operation, which is more than updates allow.
- Who is maintainer or authority: calls are made by whom the code lets make them. `Protocol` and the
  registry of spending conditions are written at deployment and then read; the fee exit game has no
  operation.
- `Liquidity`, which wraps the standard exit of an output in a token that can be sold: its state
  is that of the exit, modelled in `StandardExit`, and an owner that changes.
- Of the testing language: `get_challenge_proof`, which reads attributes that transactions do not
  have and always raises, and the queries that return what a contract holds.
- Python constants, exceptions, accounts, hexadecimal conversions and packaging (no state), the
  multi-signature wallet, migrations, mocks, and the tests themselves.

## 7. Plan

Done in the order of importance: the payment exit game with its queues, flags and money; the block
numbers; the parts of the framework under it; the Python side; the abstract promises; the proofs.
What is left:

1. A vigilant user: if every owner exits and challenges in time, the vaults can pay all honest
   outputs whatever the operator includes (`OlderGoesFirst` and `RightfulSideCanAnswer` are its two
   halves).
2. `ProcessExits` and `PaymentExitGame` in one module, so that the payment of an exit is itself a step
   of the exit game with its flags, and calls back reach standard and in-flight exits.
3. `Liquidity` on `StandardExit`, if it leaves the state of a proof of concept.
