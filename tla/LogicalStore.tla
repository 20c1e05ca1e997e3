----------------------------- MODULE LogicalStore -----------------------------
(***************************************************************************)
(* What the deduplicating disk promises its user, with no tracks in sight: *)
(* each logical block holds what was last written to it, or nothing.  A    *)
(* write takes time; until it ends the block it is about holds neither the *)
(* old nor the new content for certain.  Nothing else ever changes.        *)
(***************************************************************************)
EXTENDS Naturals

CONSTANTS
  Blocks,     (* logical block numbers                                     *)
  Contents,   (* what can be written                                       *)
  Nothing,    (* of a block never written, or trimed                       *)
  InFlight    (* of the block a write is about                             *)

VARIABLES content, op

Idle == <<>>

StoreTypeOK == /\ content \in [Blocks -> Contents \cup {Nothing, InFlight}]
               /\ op \in {Idle} \cup {<<b, c>> : b \in Blocks, c \in Contents}

StoreInit == content = [b \in Blocks |-> Nothing] /\ op = Idle

BeginWrite(b, c) == /\ op = Idle
                    /\ op' = <<b, c>>
                    /\ content' = [content EXCEPT ![b] = InFlight]

EndWrite == /\ op # Idle
            /\ content' = [content EXCEPT ![op[1]] = op[2]]
            /\ op' = Idle

TrimBlock(b) == /\ op = Idle
                /\ content' = [content EXCEPT ![b] = Nothing]
                /\ op' = op

StoreNext == \/ \E b \in Blocks, c \in Contents : BeginWrite(b, c)
             \/ EndWrite
             \/ \E b \in Blocks : TrimBlock(b)

StoreSpec == StoreInit /\ [][StoreNext]_<<content, op>>
=============================================================================
