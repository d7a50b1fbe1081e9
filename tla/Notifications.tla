---------------------------- MODULE Notifications ----------------------------
(***************************************************************************)
(* Income notifications.  The block scanner saves a block and then tells   *)
(* every notificator (AMQP queue, webhook) of every income in it; an error *)
(* ends the process, and a block that is saved is never processed again.   *)
(* Every start dials the queue first and ends when it does not answer.     *)
(* Names begin with Notify where ShardTracker, the other side of the       *)
(* scanner, has the same: ScannerProofs extends both.                      *)
(***************************************************************************)
EXTENDS Naturals, Sequences

CONSTANTS
    Notificators,               \* the configured channels in order
    IsDepositSideCalculation,   \* config: tell of external or internal incomes
    Attempts,                   \* webhook attempts (3)
    MaxIncomes,                 \* bound: incomes of one kind in a block
    MaxBlocks,                  \* bound: blocks
    MaxCrashes                  \* bound: crashes other than log.Fatal

ASSUME NotifyAssumption ==
    /\ Notificators \in Seq({"queue", "webhook"})
    /\ IsDepositSideCalculation \in BOOLEAN
    /\ Attempts \in Nat \ {0}
    /\ MaxIncomes \in Nat /\ MaxBlocks \in Nat /\ MaxCrashes \in Nat

Blocks == 1..MaxBlocks
Channels == 1..Len(Notificators)

VARIABLES
    chain,       \* what the blocks hold: numbers of external and internal incomes
    savedBlocks, \* number of blocks in payments.block_data
    queueUp,     \* does the AMQP server answer a dial
    npc,         \* "start" until main has its notificators, then "scan", and "push"
                 \* while pushNotifications runs
    income,      \* the income and
    channel,     \* the notificator it is at, and
    attempt,     \* webhook attempts made for them
    published,   \* <<block, income, channel>> for which Publish returned nil
    received,    \* how often the receiver of a channel got each of them
    exits,       \* blocks during whose notification the process ended
    crashes

pushVars == <<npc, income, channel, attempt>>
notifyVars == <<chain, savedBlocks, queueUp, pushVars, published, received, exits, crashes>>

Events(b) == IF IsDepositSideCalculation THEN chain[b].external ELSE chain[b].internal
Here == <<savedBlocks, income, channel>>
QueueReachable == queueUp \/ \A c \in Channels : Notificators[c] # "queue"
Triples == Blocks \X (1..MaxIncomes) \X Channels

NotifyInit ==
    /\ chain \in [Blocks -> [external : 0..MaxIncomes, internal : 0..MaxIncomes]]
    /\ savedBlocks = 0
    /\ queueUp \in BOOLEAN
    /\ npc = "start" /\ income = 1 /\ channel = 1 /\ attempt = 0
    /\ published = {}
    /\ received = [x \in Triples |-> 0]
    /\ exits = {}
    /\ crashes = 0

-----------------------------------------------------------------------------
\* main makes the notificators and then the scanner.  The dial of a queue that
\* does not answer ends the process, which is at its start again: no step.
StartScanner ==
    /\ npc = "start" /\ QueueReachable
    /\ npc' = "scan"
    /\ UNCHANGED <<chain, savedBlocks, queueUp, income, channel, attempt, published, received,
                   exits, crashes>>

\* The AMQP server goes down or comes back.
QueueTurns ==
    /\ queueUp' = ~queueUp
    /\ UNCHANGED <<chain, savedBlocks, pushVars, published, received, exits, crashes>>

\* processBlock up to SaveParsedBlockData; pushNotifications returns at once
\* when there is no notificator or no income.
SaveBlock ==
    /\ npc = "scan" /\ savedBlocks < MaxBlocks
    /\ savedBlocks' = savedBlocks + 1
    /\ npc' = IF Channels = {} \/ Events(savedBlocks + 1) = 0 THEN "scan" ELSE "push"
    /\ income' = 1 /\ channel' = 1 /\ attempt' = 0
    /\ UNCHANGED <<chain, queueUp, published, received, exits, crashes>>

\* The next notificator, the next income, or the next block.
Advance ==
    /\ attempt' = 0
    /\ \/ channel < Len(Notificators) /\ channel' = channel + 1 /\ UNCHANGED <<npc, income>>
       \/ /\ channel = Len(Notificators) /\ channel' = 1
          /\ \/ income < Events(savedBlocks) /\ income' = income + 1 /\ UNCHANGED npc
             \/ income = Events(savedBlocks) /\ income' = 1 /\ npc' = "scan"

\* Mutant: the notifications are sent inside the transaction.
ProcessExitRollsBack ==
    /\ savedBlocks' = IF npc = "push" THEN savedBlocks - 1 ELSE savedBlocks
    /\ npc' = "start" /\ income' = 1 /\ channel' = 1 /\ attempt' = 0
    /\ exits' = IF npc = "push" THEN exits \cup {savedBlocks} ELSE exits

\* The process ends; once it is up again it goes on after the last saved block.
ProcessExit ==
    /\ npc' = "start" /\ income' = 1 /\ channel' = 1 /\ attempt' = 0
    /\ exits' = IF npc = "push" THEN exits \cup {savedBlocks} ELSE exits
    /\ UNCHANGED savedBlocks

\* pushNotification: the user of the deposit is not found.
UserNotFound ==
    /\ npc = "push" /\ channel = 1 /\ attempt = 0
    /\ ProcessExit
    /\ UNCHANGED <<chain, queueUp, published, received, crashes>>

\* AmqpClient.Publish: without confirms, the message may be lost whatever the
\* answer is.
PublishQueue(ok) ==
    /\ npc = "push" /\ Notificators[channel] = "queue"
    /\ received' \in {received, [received EXCEPT ![Here] = @ + 1]}
    /\ \/ ok /\ Advance /\ published' = published \cup {Here} /\ UNCHANGED <<savedBlocks, exits>>
       \/ ~ok /\ ProcessExit /\ UNCHANGED published
    /\ UNCHANGED <<chain, queueUp, crashes>>

\* One attempt of webhook.Client.Publish with the answer 200.
WebhookOK ==
    /\ npc = "push" /\ Notificators[channel] = "webhook"
    /\ received' = [received EXCEPT ![Here] = @ + 1]
    /\ published' = published \cup {Here}
    /\ Advance
    /\ UNCHANGED <<chain, savedBlocks, queueUp, exits, crashes>>

\* Mutant: after the last attempt the error is only logged.
WebhookFailsLogged ==
    /\ npc = "push" /\ Notificators[channel] = "webhook"
    /\ received' \in {received, [received EXCEPT ![Here] = @ + 1]}
    /\ \/ /\ attempt + 1 < Attempts
          /\ attempt' = attempt + 1
          /\ UNCHANGED <<npc, income, channel>>
       \/ attempt + 1 = Attempts /\ Advance
    /\ UNCHANGED <<chain, savedBlocks, queueUp, published, exits, crashes>>

\* One attempt with no answer or another one: the receiver may have got it.
\* After the last attempt Publish returns an error.
WebhookFails ==
    /\ npc = "push" /\ Notificators[channel] = "webhook"
    /\ received' \in {received, [received EXCEPT ![Here] = @ + 1]}
    /\ \/ /\ attempt + 1 < Attempts
          /\ attempt' = attempt + 1
          /\ UNCHANGED <<savedBlocks, npc, income, channel, exits>>
       \/ attempt + 1 = Attempts /\ ProcessExit
    /\ UNCHANGED <<chain, queueUp, published, crashes>>

Crash ==
    /\ crashes < MaxCrashes
    /\ crashes' = crashes + 1
    /\ ProcessExit
    /\ UNCHANGED <<chain, queueUp, published, received>>

ScannerStep ==
    \/ StartScanner
    \/ SaveBlock
    \/ UserNotFound
    \/ \E ok \in BOOLEAN : PublishQueue(ok)
    \/ WebhookOK
    \/ WebhookFails

NotifyNext == ScannerStep \/ QueueTurns \/ Crash

NotifySpec == NotifyInit /\ [][NotifyNext]_notifyVars

\* The scanner runs, and the process is started again when it has ended.  Nothing
\* is assumed of the queue, the webhook or the crashes.
NotifyFairSpec == NotifySpec /\ WF_notifyVars(ScannerStep)

-----------------------------------------------------------------------------
(* Properties *)

\* "Prevents duplicate sending on restart": the queue gets a notification at most
\* once, the webhook at most once per attempt, whenever the process ends.
NoDuplicates ==
    \A x \in Triples :
        received[x] <= IF Notificators[x[3]] = "queue" THEN 1 ELSE Attempts

\* "May result in lost notifications", but only of a block during whose
\* notification the process ended; there they are lost from one income on.
LostOnlyByExit ==
    \A x \in Triples :
        /\ x[1] <= savedBlocks /\ x[2] <= Events(x[1]) /\ x \notin published
              => x[1] \in exits \/ (npc = "push" /\ x[1] = savedBlocks)
        /\ x \in published
              => \A y \in Triples : y[1] = x[1] /\ (y[2] < x[2] \/ (y[2] = x[2] /\ y[3] < x[3]))
                                       => y \in published

\* Every block is saved in the end, although a receiver may refuse or lose every
\* notification: a webhook that never answers 200 and a queue whose publishing fails
\* end the process again and again, but each time one block further.  Only a queue
\* that cannot be dialled when the process starts holds up the scanner: the blocks
\* are all saved once it can be reached for good.
EveryBlockSaved == <>[]QueueReachable => <>(savedBlocks = MaxBlocks)
=============================================================================
