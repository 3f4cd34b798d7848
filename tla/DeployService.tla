---------------------------- MODULE DeployService ----------------------------
(***************************************************************************)
(* How the backend starts and which contract it serves: main of            *)
(* packages/backend/src/index.ts and build, initContractAddress,           *)
(* deployContract, deployAndJoin and saveDeployment of                     *)
(* packages/backend/src/services/contract-service.ts.  The process may     *)
(* exit at every await, by an error or otherwise, and is started again.    *)
(***************************************************************************)
EXTENDS Naturals, FiniteSets

CONSTANTS Addresses,            \* addresses contracts are deployed at
          ConfiguredAddresses,  \* addresses the operator may configure
          AutoDeploy,           \* VEIL_AUTO_DEPLOY
          NoAddress,
          MaxExits              \* bound on exits of the process

ASSUME DeployAssumption ==
    /\ NoAddress \notin Addresses \cup ConfiguredAddresses
    /\ AutoDeploy \in BOOLEAN
    /\ MaxExits \in Nat

VARIABLES phase,        \* what the process awaits
          configured,   \* config.contractAddress of this start
          active,       \* activeContractAddress
          deployment,   \* the address the deployment in progress has computed
          saved,        \* the saved deployment document
          submitted,    \* deployments whose transaction has not landed
          deployed,     \* contracts on the chain
          served,       \* history: the address served last
          abandoned,    \* history: deployments whose start exited before they were saved
          exits         \* exits so far

deployVars ==
    <<phase, configured, active, deployment, saved, submitted, deployed, served, abandoned, exits>>

Phases == {"down", "starting", "saving_configured", "finding", "deploying", "saving_deployed",
           "initialising", "serving"}
AnyAddress == Addresses \cup ConfiguredAddresses \cup {NoAddress}

DeployInit ==
    /\ phase = "down"
    /\ configured = NoAddress /\ active = NoAddress /\ deployment = NoAddress
    /\ saved = NoAddress
    /\ submitted = {} /\ deployed = {}
    /\ served = NoAddress
    /\ abandoned = {}
    /\ exits = 0

\* MongoDB is connected and the two wallets are built; the operator chooses the configuration.
StartProcess ==
    /\ phase = "down"
    /\ phase' = "starting"
    /\ \E address \in ConfiguredAddresses \cup {NoAddress} : configured' = address
    /\ UNCHANGED <<active, deployment, saved, submitted, deployed, served, abandoned, exits>>

\* initContractAddress: a configured address is taken, else the saved one is looked for.
InitAddress ==
    /\ phase = "starting"
    /\ \/ /\ configured # NoAddress
          /\ active' = configured
          /\ phase' = "saving_configured"
       \/ /\ configured = NoAddress
          /\ phase' = "finding"
          /\ UNCHANGED active
    /\ UNCHANGED <<configured, deployment, saved, submitted, deployed, served, abandoned, exits>>

SaveConfigured ==
    /\ phase = "saving_configured"
    /\ saved' = configured
    /\ phase' = "initialising"
    /\ UNCHANGED <<configured, active, deployment, submitted, deployed, served, abandoned, exits>>

\* A saved deployment is taken, otherwise one is made if the configuration says so.
FindSaved ==
    /\ phase = "finding"
    /\ active' = saved
    /\ phase' = IF saved = NoAddress /\ AutoDeploy THEN "deploying" ELSE "initialising"
    /\ UNCHANGED <<configured, deployment, saved, submitted, deployed, served, abandoned, exits>>

\* DynamicContractAPI.deploy submits the transaction of a contract with a new address.
SubmitDeployment ==
    /\ phase = "deploying"
    /\ deployment = NoAddress
    /\ \E address \in Addresses \ (deployed \cup submitted) :
         /\ deployment' = address
         /\ submitted' = submitted \cup {address}
    /\ UNCHANGED <<phase, configured, active, saved, deployed, served, abandoned, exits>>

\* It returns when the transaction was finalized.
JoinDeployed ==
    /\ phase = "deploying"
    /\ deployment \in deployed
    /\ phase' = "saving_deployed"
    /\ UNCHANGED <<configured, active, deployment, saved, submitted, deployed, served, abandoned, exits>>

\* Mutant of SaveDeployed: the deployment is not saved.
SaveDeployedSkipped ==
    /\ phase = "saving_deployed"
    /\ active' = deployment
    /\ deployment' = NoAddress
    /\ phase' = "initialising"
    /\ UNCHANGED <<configured, saved, submitted, deployed, served, abandoned, exits>>

SaveDeployed ==
    /\ phase = "saving_deployed"
    /\ saved' = deployment
    /\ active' = deployment
    /\ deployment' = NoAddress
    /\ phase' = "initialising"
    /\ UNCHANGED <<configured, submitted, deployed, served, abandoned, exits>>

\* Indexes are created, the reclaim timer started, and the server listens.
Serve ==
    /\ phase = "initialising"
    /\ phase' = "serving"
    /\ served' = active
    /\ UNCHANGED <<configured, active, deployment, saved, submitted, deployed, abandoned, exits>>

\* Any error before serving ends in process.exit(1); a signal or a crash ends it later.  The
\* update that was awaited may have been applied.
ExitProcess ==
    /\ phase # "down"
    /\ exits < MaxExits
    /\ exits' = exits + 1
    /\ phase' = "down"
    /\ active' = NoAddress /\ deployment' = NoAddress
    /\ \/ UNCHANGED saved
       \/ phase = "saving_configured" /\ saved' = configured
       \/ phase = "saving_deployed" /\ saved' = deployment
    /\ abandoned' = abandoned \cup ({deployment} \ {NoAddress, saved'})
    /\ UNCHANGED <<configured, submitted, deployed, served>>

\* The chain includes a deployment, also when nobody waits for it any more.
LandDeployment(address) ==
    /\ address \in submitted
    /\ submitted' = submitted \ {address}
    /\ deployed' = deployed \cup {address}
    /\ UNCHANGED <<phase, configured, active, deployment, saved, served, abandoned, exits>>

StartStep == \/ StartProcess \/ InitAddress \/ SaveConfigured \/ FindSaved
             \/ SubmitDeployment \/ JoinDeployed \/ SaveDeployed \/ Serve

DeployNext == StartStep \/ \E address \in Addresses : LandDeployment(address)
DeploySpec == DeployInit /\ [][DeployNext \/ ExitProcess]_deployVars
-----------------------------------------------------------------------------
(* Properties *)

\* Once an address was served, another one is only served if the operator configures it: no
\* sequence of exits makes the backend move to a contract of its own (contract-service.ts:399-417).
AddressStable ==
    [][phase' = "serving" /\ phase # "serving" =>
          served \in {NoAddress, served'} \/ served' \in ConfiguredAddresses]_deployVars

\* What is served is saved and on the chain, and every other contract the backend has paid for
\* was abandoned by an exit before it was saved (contract-service.ts:597-662).
OneContractKept ==
    /\ phase = "serving" /\ active # NoAddress =>
           active = saved /\ active \in deployed \cup ConfiguredAddresses
    /\ Cardinality((submitted \cup deployed) \ abandoned) <= 1

=============================================================================
