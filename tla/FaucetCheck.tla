---- MODULE FaucetCheck ----
(***************************************************************************)
(* The CI step that looks at the balance of the faucet and files a GitHub  *)
(* issue when it is low (.circleci/scripts/check_faucet_balance_and_       *)
(* warn.py).  Several CI jobs run it, at once and again; each request may  *)
(* fail with an exception, and the answer to one that was served may be    *)
(* lost.  Deployments of the same jobs spend from the faucet meanwhile.    *)
(***************************************************************************)
EXTENDS Integers, FiniteSets

CONSTANTS
    Jobs,
    THRESHOLD,          \* 3 ETH in the code
    Balances,           \* the balances the faucet can have
    MaxReruns,          \* bounds of the model: how often jobs are started again,
    MaxRefills          \* and the faucet is refilled

ASSUME FaucetAssumption == Balances \subseteq Nat /\ {THRESHOLD, MaxReruns, MaxRefills} \subseteq Nat

VARIABLES
    faucet,             \* its balance on Rinkeby
    pc,                 \* where a job's script is
    balance,            \* what it read
    issues,             \* the issues filed: job -> how many, by its present run
    reruns, refills

faucetVars == <<faucet, pc, balance, issues, reruns, refills>>

Nowhere == -1

FaucetInit ==
    /\ faucet \in Balances
    /\ pc = [j \in Jobs |-> "start"]
    /\ balance = [j \in Jobs |-> Nowhere]
    /\ issues = [j \in Jobs |-> 0]
    /\ reruns = 0 /\ refills = 0

Goto(j, label) == pc' = [pc EXCEPT ![j] = label]

\* get_faucet_balance: one request to Infura.
GetFaucetBalance(j) ==
    /\ pc[j] = "start"
    /\ \/ /\ balance' = [balance EXCEPT ![j] = faucet]
          /\ Goto(j, "compare")
       \/ /\ Goto(j, "failed")
          /\ UNCHANGED balance
    /\ UNCHANGED <<faucet, issues, reruns, refills>>

\* A mutant: an empty faucet is not low.
CompareNonzero(j) ==
    /\ pc[j] = "compare"
    /\ Goto(j, IF balance[j] # 0 /\ balance[j] < THRESHOLD THEN "open" ELSE "ok")
    /\ UNCHANGED <<faucet, balance, issues, reruns, refills>>

Compare(j) ==
    /\ pc[j] = "compare"
    /\ Goto(j, IF balance[j] < THRESHOLD THEN "open" ELSE "ok")
    /\ UNCHANGED <<faucet, balance, issues, reruns, refills>>

\* A request to GitHub: served or not, and its answer may be lost.
Post(j, then) ==
    /\ issues' \in {issues, [issues EXCEPT ![j] = @ + 1]}
    /\ \/ Goto(j, "failed")
       \/ issues' # issues /\ Goto(j, then)
    /\ UNCHANGED <<faucet, balance, reruns, refills>>

\* submit_github_issue: request.urlopen(req), and then once more to read the answer.
Open(j) == pc[j] = "open" /\ Post(j, "open and read")
OpenAndRead(j) == pc[j] = "open and read" /\ Post(j, "ok")

\* CI runs the job anew; issues are counted from there.
Rerun(j) ==
    /\ pc[j] \in {"ok", "failed"}
    /\ reruns < MaxReruns               \* bound
    /\ reruns' = reruns + 1
    /\ Goto(j, "start")
    /\ balance' = [balance EXCEPT ![j] = Nowhere]
    /\ issues' = [issues EXCEPT ![j] = 0]
    /\ UNCHANGED <<faucet, refills>>

\* A deployment of some job pays from the faucet; somebody refills it.
Pay ==
    /\ faucet' \in {b \in Balances : b < faucet}
    /\ UNCHANGED <<pc, balance, issues, reruns, refills>>
Refill ==
    /\ refills < MaxRefills             \* bound
    /\ refills' = refills + 1
    /\ faucet' \in {b \in Balances : b > faucet}
    /\ UNCHANGED <<pc, balance, issues, reruns>>

Run(j) == GetFaucetBalance(j) \/ Compare(j) \/ Open(j) \/ OpenAndRead(j)

FaucetNext == (\E j \in Jobs : Run(j) \/ Rerun(j)) \/ Pay \/ Refill

\* The machine that runs a job goes on with it.
FaucetSpec == FaucetInit /\ [][FaucetNext]_faucetVars /\ \A j \in Jobs : WF_faucetVars(Run(j))

----------------------------------------------------------------------------

\* Once the faucet stays low, no job that starts after that stays silent: it fails, or reports.
LowIsReported ==
    \A j \in Jobs :
        (pc[j] = "start" /\ [](faucet < THRESHOLD)) ~> (pc[j] = "failed" \/ issues[j] > 0)
====
