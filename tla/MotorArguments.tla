--------------------------- MODULE MotorArguments ---------------------------
(***************************************************************************)
(* What handleVariable_set (tcpCLI.c) makes of the number typed after      *)
(* "motor set speed", "upramp" or "downramp".  A request is a record with  *)
(* the fields op (the command) and arg (the number, 0 when it has none).   *)
(***************************************************************************)
EXTENDS Naturals

Word == 0 .. 65535

(* `uint16_t s1 = atoi(Value)`: the handler range-checks the number after  *)
(* it has been cut to 16 bits.  For "downramp" the terminator is written   *)
(* two characters early (the line end was already gone), which divides a   *)
(* decimal number by 100.                                                  *)
Parsed(r) == (IF r.op = "setDownramp" THEN r.arg \div 100 ELSE r.arg) % 65536

(* Mutant: the range check is forgotten. *)
AcceptedUnchecked(r) == TRUE

Accepted(r) ==
    /\ r.op = "setSpeed"    => Parsed(r) \in 1 .. 100
    /\ r.op = "setUpramp"   => Parsed(r) \in 15 .. 300
    /\ r.op = "setDownramp" => Parsed(r) \in 10 .. 100
=============================================================================
