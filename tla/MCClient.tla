------------------------------ MODULE MCClient ------------------------------
(***************************************************************************)
(* A client for TLC: creating its user, the outbound service, what the     *)
(* service sends (group operations, receipts, messages, attachments and    *)
(* reactions), and the stock of tokens.  The modules share no variable     *)
(* (each has its own loop and its own tables), so what one of them does is *)
(* the same whatever state the others are in: a behaviour has one part     *)
(* that acts, the others stay in their initial states, and no fair action  *)
(* is enabled in an initial state.                                         *)
(***************************************************************************)
EXTENDS OutboundService, MCReceipts, Outbox, Attachments, Reactions, UserCreation, Tokens,
        MCGroupCommit

VARIABLE part   \* the part that acts

QueueParts == {"receipts", "outbox", "attachments", "reactions"}

ClientInit ==
  /\ part \in {"service", "commits", "creation", "tokens"} \union QueueParts
  /\ OutboundInit /\ ReceiptsInit /\ OutboxInit
  /\ AttachmentsInit /\ ReactionsInit /\ CreationInit /\ GroupInit
  /\ TokensInit

\* Bound: of two stream events, a run of the handler and a fault, three happen.
ThreeEvents == budget'["event"] + budget'["run"] + budget'["fault"] >= 1

ServiceNext ==
  \/ part = "service" /\ OutboundNext /\ ThreeEvents /\ UNCHANGED groupVars
  \/ part = "commits" /\ GroupNext /\ AliceFirst /\ UNCHANGED outboundVars

AccountNext ==
  \/ part = "creation" /\ CreationNext /\ UNCHANGED tokensVars
  \/ part = "tokens" /\ TokensNext /\ UNCHANGED creationVars

QueuesNext ==
  \/ /\ part = "receipts" /\ ReceiptsNext
     /\ UNCHANGED <<outboxVars, attachmentVars, reactionsVars>>
  \/ /\ part = "outbox" /\ OutboxNext
     /\ UNCHANGED <<receiptsVars, attachmentVars, reactionsVars>>
  \/ /\ part = "attachments" /\ AttachmentsNext
     /\ UNCHANGED <<receiptsVars, outboxVars, reactionsVars>>
  \/ /\ part = "reactions" /\ ReactionsNext
     /\ UNCHANGED <<receiptsVars, outboxVars, attachmentVars>>

ServiceRests == UNCHANGED <<outboundVars, groupVars>>
AccountRests == UNCHANGED <<creationVars, tokensVars>>
QueuesRest == UNCHANGED <<receiptsVars, outboxVars, attachmentVars, reactionsVars>>

ClientNext ==
  /\ UNCHANGED part
  /\ \/ ServiceNext /\ AccountRests /\ QueuesRest
     \/ AccountNext /\ ServiceRests /\ QueuesRest
     \/ QueuesNext /\ ServiceRests /\ AccountRests

clientVars == <<part, outboundVars, receiptsVars, outboxVars, attachmentVars, reactionsVars,
                creationVars, groupVars, tokensVars>>

\* The fairness of each module is stated with its own variables.
ClientSpec ==
  /\ ClientInit /\ [][ClientNext]_clientVars
  /\ OutboundFairness /\ ReceiptsFairness /\ OutboxFairness /\ AttachmentsFairness
  /\ ReactionsFairness /\ CreationFairness /\ GroupFairness /\ TokensFairness
=============================================================================
