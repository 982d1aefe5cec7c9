--------------------------- MODULE SnapshotScript ---------------------------
(***************************************************************************)
(* scripts/ldo-snapshot.ts, which builds and checks the snapshot a service *)
(* starts with, and what becomes of its file: a file that a run of the     *)
(* script wrote, or that a check found right, is deployed with the service *)
(* of AddressScan, which may crash at any time.  The pull request workflow *)
(* (check-ldo-snapshot.yml) runs the check; only a vetted file is merged.  *)
(*                                                                         *)
(* A run asks the node for the finalized block, then for the events of all *)
(* blocks up to the end of the snapshot, and repeats a request that fails  *)
(* until RpcAttempts have failed.  The two address sets of the file are    *)
(* built side by side in the same way; as in AddressScan, addresses is one *)
(* of them.  toBlock 0 stands for every number below the deploy block,     *)
(* which is block 1.                                                       *)
(***************************************************************************)
EXTENDS AddressScan

CONSTANTS
  RpcAttempts,   \* RPC_ATTEMPTS
  NotInteger     \* what Number() makes of an argument that is no integer

ASSUME SnapshotScriptAssumption ==
  /\ RpcAttempts \in Nat \ {0}
  /\ NotInteger \notin Int

VARIABLES
  file,    \* src/tokens/ldo/snapshots/mainnet.json
  vetted,  \* history: the file is as a run wrote it, or has passed a check
  run,     \* the last run of the script
  errors   \* history: requests of the run that failed, at most RpcAttempts

scriptVars == <<file, vetted, run, errors>>
allVars == <<vars, scriptVars>>

-----------------------------------------------------------------------------
(* A run: its command, the block it builds up to, its phase, the attempt   *)
(* at each request not answered yet, and what it found.                    *)

(* The request for the finalized block, the first of a run.                *)
Finalized == [finalized |-> TRUE]

FirstAttempts(requests) == [q \in requests |-> 1]

Executing == run.phase \in {"finalized", "build"}

(* A run that is over, well ("done": the file written or matched) or not:  *)
(* a mismatch, a block above the finalized one refused, a request given up. *)
Over(phase) == [command |-> "check", phase |-> phase, toBlock |-> NoNumber,
                attempt |-> FirstAttempts({}), found |-> {}]

StartRun(command, toBlock) ==
  /\ ~ Executing
  /\ run' = [command |-> command, phase |-> "finalized", toBlock |-> toBlock,
             attempt |-> FirstAttempts({Finalized}), found |-> {}]
  /\ errors' = 0
  /\ UNCHANGED <<file, vetted>>

(* The block the run is to build up to, when n is the finalized block.     *)
Target(n) ==
  IF run.command = "check" THEN file.toBlock
  ELSE IF run.toBlock = NoNumber THEN n
  ELSE run.toBlock

(* Mutant: any integer is accepted, final or not.                          *)
AcceptsAnyInteger(toBlock, n) == toBlock \in Int

Accepts(toBlock, n) == toBlock \in Int /\ toBlock <= n

ServeFinalized(n) ==
  /\ run.phase = "finalized"
  /\ \/ /\ Accepts(Target(n), n)
        /\ run' = [run EXCEPT !.phase = "build", !.toBlock = Target(n),
                              !.attempt = FirstAttempts(Queries(1, Target(n)))]
     \/ /\ ~ Accepts(Target(n), n)
        /\ run' = Over("refused")
  /\ UNCHANGED <<file, vetted, errors>>

ServeBuildQuery(q) ==
  /\ run.phase = "build"
  /\ q \in DOMAIN run.attempt
  /\ run' = [run EXCEPT !.attempt = [p \in DOMAIN @ \ {q} |-> @[p]],
                        !.found = @ \cup Answer(q)]
  /\ UNCHANGED <<file, vetted, errors>>

(* Mutant: the last attempt is not made.                                   *)
FailRequestEarly(q) ==
  /\ Executing
  /\ q \in DOMAIN run.attempt
  /\ IF run.attempt[q] >= RpcAttempts - 1
       THEN run' = Over("gaveUp")
       ELSE run' = [run EXCEPT !.attempt[q] = @ + 1]
  /\ errors' = IF errors < RpcAttempts THEN errors + 1 ELSE RpcAttempts
  /\ UNCHANGED <<file, vetted>>

(* Mutant: a request that is given up counts as one without events.        *)
FailRequestSkips(q) ==
  /\ Executing
  /\ q \in DOMAIN run.attempt
  /\ IF run.attempt[q] >= RpcAttempts
       THEN run' = [run EXCEPT !.attempt = [p \in DOMAIN @ \ {q} |-> @[p]]]
       ELSE run' = [run EXCEPT !.attempt[q] = @ + 1]
  /\ errors' = IF errors < RpcAttempts THEN errors + 1 ELSE RpcAttempts
  /\ UNCHANGED <<file, vetted>>

(* RetryingProvider tries again; the last attempt fails the whole run.     *)
FailRequest(q) ==
  /\ Executing
  /\ q \in DOMAIN run.attempt
  /\ IF run.attempt[q] >= RpcAttempts
       THEN run' = Over("gaveUp")
       ELSE run' = [run EXCEPT !.attempt[q] = @ + 1]
  /\ errors' = IF errors < RpcAttempts THEN errors + 1 ELSE RpcAttempts
  /\ UNCHANGED <<file, vetted>>

Built == run.phase = "build" /\ run.attempt = FirstAttempts({})

FinishUpdate ==
  /\ Built
  /\ run.command = "update"
  /\ file' = [toBlock |-> run.toBlock, addresses |-> run.found]
  /\ vetted' = TRUE
  /\ run' = Over("done")
  /\ UNCHANGED errors

Matches == run.found = file.addresses

FinishCheck ==
  /\ Built
  /\ run.command = "check"
  /\ vetted' = (vetted \/ Matches)
  /\ run' = Over(IF Matches THEN "done" ELSE "mismatch")
  /\ UNCHANGED <<file, errors>>

-----------------------------------------------------------------------------
(* A crash, and a deployment of the file: the process starts anew.         *)
Crash == StartProcess(snapshot)

Deploy == vetted /\ StartProcess(file)

(* The first service was built with any right snapshot, and the file may   *)
(* hold anything by now.                                                   *)
ScriptInit ==
  /\ Init
  /\ file \in Snapshots
  /\ vetted = FALSE
  /\ run = Over("done")
  /\ errors = 0

ScriptStep ==
  /\ \/ \E toBlock \in 0 .. MaxBlock \cup {NoNumber, NotInteger} : StartRun("update", toBlock)
     \/ StartRun("check", NoNumber)
     \/ \E n \in 0 .. MaxBlock : IsFinal(n) /\ ServeFinalized(n)
     \/ \E q \in DOMAIN run.attempt : ServeBuildQuery(q) \/ FailRequest(q)
     \/ FinishUpdate
     \/ FinishCheck
  /\ UNCHANGED vars

ProcessStep ==
  /\ \/ ChainStep
     \/ \E r \in Runs : ServiceStep(r)
     \/ (Crash \/ Deploy) /\ UNCHANGED <<log, highest>>
  /\ UNCHANGED scriptVars

ScriptNext == ScriptStep \/ ProcessStep

ScriptSpec == ScriptInit /\ [][ScriptNext]_allVars

-----------------------------------------------------------------------------
(* The type invariant.                                                     *)
ScriptTypeOK ==
  /\ file \in Snapshots
  /\ vetted \in BOOLEAN
  /\ run \in [command : {"update", "check"},
              phase   : {"finalized", "build", "done", "mismatch", "refused", "gaveUp"},
              toBlock : 0 .. MaxBlock \cup {NoNumber, NotInteger},
              attempt : [DOMAIN run.attempt -> 1 .. RpcAttempts],
              found   : SUBSET Addresses]
  /\ DOMAIN run.attempt \subseteq (IF run.phase = "finalized" THEN {Finalized} ELSE Query)
  /\ errors \in 0 .. RpcAttempts

(* The addresses of all events up to block toBlock.                        *)
EventsUpTo(toBlock) ==
  UNION { log[n][f] : n \in {m \in DOMAIN log : m <= toBlock}, f \in Filters }

(* A file a run wrote or matched has the addresses of all events up to a   *)
(* block that no reorganisation reaches, and no other, although its answers *)
(* came one by one while the chain went on, some after failures ("Generated *)
(* and checked by scripts/ldo-snapshot.ts, never edited by hand",          *)
(* ldo-snapshot.ts:7).                                                     *)
VettedIsExact == vetted => IsFinal(file.toBlock) /\ file.addresses = EventsUpTo(file.toBlock)

(* A run is given up only when at least RpcAttempts of its requests failed *)
(* ("one transient RPC error must not fail the run",                       *)
(* scripts/ldo-snapshot.ts:25).                                            *)
FewErrorsDoNotFail == run.phase = "gaveUp" => errors >= RpcAttempts

(* The service with its real sources of snapshots, deployments and crashes *)
(* is the service of AddressScan, which starts again at any time with any  *)
(* snapshot that is right about final blocks: what holds there holds here  *)
(* (getLdoScanStart, ldo-snapshot.ts:22).                                  *)
DeploymentsAreRestarts == Spec

-----------------------------------------------------------------------------
(* The inductive strengthening of VettedIsExact.                           *)

(* What a build has found is of its blocks, and what of its blocks it has  *)
(* not found is in a request it still waits for; its blocks are final, so  *)
(* both stay so while the chain goes on (buildSnapshot, line 39).          *)
BuildInv ==
  /\ run.phase = "finalized" => run.found = {}
  /\ run.phase = "build" =>
      /\ run.toBlock \in 0 .. MaxBlock /\ IsFinal(run.toBlock)
      /\ run.command = "check" => run.toBlock = file.toBlock
      /\ \A q \in DOMAIN run.attempt : q.to <= run.toBlock
      /\ run.found \subseteq EventsUpTo(run.toBlock)
      /\ \A n \in DOMAIN log, f \in Filters : n <= run.toBlock =>
           \/ log[n][f] \subseteq run.found
           \/ \E q \in DOMAIN run.attempt : q.filter = f /\ n \in q.from .. q.to

(* The attempts at one request are no more than the failures of the run.   *)
AttemptsCounted == \A q \in DOMAIN run.attempt : run.attempt[q] <= errors + 1

ScriptInv ==
  /\ ScriptTypeOK
  /\ VettedIsExact
  /\ FewErrorsDoNotFail
  /\ BuildInv
  /\ AttemptsCounted
=============================================================================
