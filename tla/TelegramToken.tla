--------------------------- MODULE TelegramToken ---------------------------
(***************************************************************************)
(* What the shared queue promises, told without queue, telegrams or tasks: *)
(* there is one token.  The CLI puts it on the table; while it lies there  *)
(* either side may pick it up; the motor must put back what it picked up,  *)
(* or has lost it for good; the CLI stops asking when it has picked the    *)
(* token up again.  `heldBy` says where the token is.  MotorTelegram       *)
(* implements this module.                                                 *)
(***************************************************************************)

VARIABLE heldBy

Places == {"cli", "table", "motor", "lost"}

Init == heldBy = "cli"

Ask     == heldBy = "cli"   /\ heldBy' = "table"
Accept  == heldBy = "table" /\ heldBy' = "motor"
Reply   == heldBy = "motor" /\ heldBy' = "table"
Lose    == heldBy = "motor" /\ heldBy' = "lost"
Collect == heldBy = "table" /\ heldBy' = "cli"

Next == Ask \/ Accept \/ Reply \/ Lose \/ Collect

(* The motor does not sit on the token, and a CLI that finds the token on  *)
(* the table again and again picks it up in the end.                       *)
Spec == /\ Init /\ [][Next]_heldBy
        /\ WF_heldBy(Reply \/ Lose) /\ SF_heldBy(Collect)

(* The safety part, which the proofs are about. *)
SafeSpec == Init /\ [][Next]_heldBy
=============================================================================
