------------------------------ MODULE SocketRing ------------------------------
(***************************************************************************)
(* The memory of a W5200 socket: what write_memory and read_memory         *)
(* (W5200.c) do to it, as operators, and what the chip does (external).    *)
(*                                                                         *)
(* A memory of RingSize bytes (0x800) is a ring: pointers of 16 bits count *)
(* on, and their low bits are the offset in it.  Behind a transmit memory  *)
(* lies that of the next socket.  Bytes are counted from 0.                *)
(***************************************************************************)
EXTENDS Integers

CONSTANTS
    RingSize,               \* bytes of a socket's memory
    Turns,                  \* times it goes into the range of a pointer (32)
    W5200_Sn_TXMEM_SIZE,    \* the address of a register (0x401F)
    W5200_SOCKET_TX_BASE    \* the address of the transmit memory (0x8000)

ASSUME RingAssumption ==
    /\ RingSize \in Nat \ {0}
    /\ Turns \in Nat /\ Turns >= 2
    /\ W5200_Sn_TXMEM_SIZE \in Nat /\ W5200_Sn_TXMEM_SIZE >= 2 * RingSize
    /\ W5200_SOCKET_TX_BASE \in Nat

PointerLimit == RingSize * Turns

Pointer == 0 .. PointerLimit - 1

Advanced(ptr, n) == (ptr + n) % PointerLimit

(* How far ptr is ahead of from. *)
Ahead(from, ptr) == (ptr - from) % PointerLimit

Offset(ptr) == ptr % RingSize

(* The bytes from ptr to the end of the ring. *)
Room(ptr) == RingSize - Offset(ptr)

-----------------------------------------------------------------------------
(* One transfer of len bytes of buf, from its byte start on, to addr. *)
Stored(mem, addr, buf, start, len) ==
    [x \in DOMAIN mem |-> IF x \in addr .. addr + len - 1 THEN buf[start + x - addr] ELSE mem[x]]

(* Mutant: the pointer is not masked. *)
write_memoryUnmasked(mem, ptr, buf, len) == Stored(mem, ptr, buf, 0, len)

(* The test for the end of the ring takes the address of a register for    *)
(* the size, and the room before the end is taken from another address.    *)
write_memory(mem, ptr, buf, len) ==
    LET upper_size == W5200_SOCKET_TX_BASE - Offset(ptr) IN
    IF Offset(ptr) + len > W5200_Sn_TXMEM_SIZE + 1
    THEN Stored(Stored(mem, Offset(ptr), buf, 0, upper_size), 0, buf, upper_size, len - upper_size)
    ELSE Stored(mem, Offset(ptr), buf, 0, len)

(* buf with len bytes copied into it.  Beyond the end of the ring buf is   *)
(* moved on twice.                                                         *)
read_memory(mem, ptr, buf, len) ==
    LET upper_size == Room(ptr) IN
    IF Offset(ptr) + len > RingSize
    THEN [i \in DOMAIN buf |->
            IF i < upper_size THEN mem[Offset(ptr) + i]
            ELSE IF i \in 2 * upper_size .. upper_size + len - 1 THEN mem[i - 2 * upper_size]
            ELSE buf[i]]
    ELSE [i \in DOMAIN buf |-> IF i < len THEN mem[Offset(ptr) + i] ELSE buf[i]]

-----------------------------------------------------------------------------
(* The n bytes the chip has in the ring from ptr on: it goes round. *)
InRing(mem, ptr, n) == [i \in 0 .. n - 1 |-> mem[Offset(ptr + i)]]

(* The ring when the chip has put n bytes into it from ptr on. *)
Received(mem, ptr, bytes, n) ==
    [x \in DOMAIN mem |-> IF Offset(x - ptr) < n THEN bytes[Offset(x - ptr)] ELSE mem[x]]
===============================================================================
