----------------------------- MODULE MCReceipts -----------------------------
(***************************************************************************)
(* Four receipts in two chats for TLC: with MaxTags = 3, one tag being for *)
(* the generation, a chat may have one receipt more than the DS takes.     *)
(***************************************************************************)
EXTENDS Receipts, TLC

CONSTANTS r1, r2, r3, r4, a, b

MCReceiptIds == {r1, r2, r3, r4}
MCChats == {a, b}
MCChatOf == r1 :> a @@ r2 :> a @@ r3 :> a @@ r4 :> b
=============================================================================
