------------------------------ MODULE SyncFifo ------------------------------
(***************************************************************************)
(* The FIFO of the ZYBO's router (rtl/legacy/pxc_sync_fifo.sv), of which   *)
(* there are three: commands to the Basys3, and events of the Jetson and   *)
(* reports of the sensors to the PC.  RackCommands has a queue in place of *)
(* the first; this module shows that it may.                               *)
(***************************************************************************)
EXTENDS Integers, Sequences

CONSTANTS Data, DEPTH       \* 4 where the router uses it

ASSUME DepthAssumption == DEPTH \in Nat /\ DEPTH > 1

VARIABLES mem, wr_ptr, rd_ptr, count
fifoVars == <<mem, wr_ptr, rd_ptr, count>>

Slots == 0..DEPTH - 1

full == count = DEPTH
empty == count = 0

(* The memory is not reset. *)
FifoInit ==
    /\ mem \in [Slots -> Data]
    /\ wr_ptr = 0 /\ rd_ptr = 0 /\ count = 0

(* A mutant of Advance. *)
AdvanceOnce(p) == IF p = DEPTH - 1 THEN p ELSE p + 1

Advance(p) == (p + 1) % DEPTH

(* wr_en without rd_en, or with rd_en at an empty FIFO. *)
Write(wr_data) ==
    /\ ~full
    /\ mem' = [mem EXCEPT ![wr_ptr] = wr_data]
    /\ wr_ptr' = Advance(wr_ptr) /\ count' = count + 1
    /\ UNCHANGED rd_ptr

(* rd_en without wr_en, or with wr_en at a full FIFO: the write is lost    *)
(* although the read makes room in the same cycle.                         *)
Read ==
    /\ ~empty
    /\ rd_ptr' = Advance(rd_ptr) /\ count' = count - 1
    /\ UNCHANGED <<mem, wr_ptr>>

WriteRead(wr_data) ==
    /\ ~full /\ ~empty
    /\ mem' = [mem EXCEPT ![wr_ptr] = wr_data]
    /\ wr_ptr' = Advance(wr_ptr) /\ rd_ptr' = Advance(rd_ptr)
    /\ UNCHANGED count

FifoNext == (\E d \in Data : Write(d) \/ WriteRead(d)) \/ Read

FifoSpec == FifoInit /\ [][FifoNext]_fifoVars

-----------------------------------------------------------------------------
(* Type invariant. *)
FifoTypeOK ==
    /\ mem \in [Slots -> Data]
    /\ {wr_ptr, rd_ptr} \subseteq Slots
    /\ count \in 0..DEPTH

(* A slot counted from rd_ptr, round the end of the memory. *)
Wrap(k) == IF k < DEPTH THEN k ELSE k - DEPTH

(* The counter is the distance of the pointers; at distance zero it tells  *)
(* a full FIFO from an empty one.                                          *)
CountIsDistance == wr_ptr = Wrap(rd_ptr + count)

(* The elements between the pointers, oldest first: what rd_data will show. *)
Elements(m, first, n) == [i \in 1..n |-> m[Wrap(first + i - 1)]]
Contents == Elements(mem, rd_ptr, count)

Queue == INSTANCE BoundedQueue WITH queue <- Contents, Capacity <- DEPTH

(* The FIFO is a bounded queue: nothing is overwritten, repeated or read   *)
(* before it was written, however reads and writes coincide.               *)
ImplementsQueue == Queue!Spec
=============================================================================
