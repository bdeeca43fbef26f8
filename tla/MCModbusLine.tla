---------------------------- MODULE MCModbusLine ----------------------------
(***************************************************************************)
(* Short frames for ModbusLine.  They keep the order of the real lengths:  *)
(* requests 9 (RR), 10 (WIB), 19 (WR) bytes, answers 8 (WIB, WR), 25 (RR), *)
(* whole transactions 18 (WIB), 27 (WR), 34 (RR).                          *)
(***************************************************************************)
EXTENDS ModbusLine

MCWriteLen == [RR |-> 1, WIB |-> 2, WR |-> 3]
MCReadLen  == [RR |-> 5, WIB |-> 2, WR |-> 2]
MCMaxCalls == [motor |-> 2, heartBeat |-> 1]
=============================================================================
