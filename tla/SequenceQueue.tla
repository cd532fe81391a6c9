---------------------------- MODULE SequenceQueue ----------------------------
(***************************************************************************)
(* nxcomp/src/SequenceQueue.cpp: the circular array in which a channel     *)
(* remembers the requests it forwarded and that will get a reply.  The     *)
(* proxy matches every reply of the X server with the element at the head, *)
(* so a single element lost, repeated or moved decodes every later reply   *)
(* with the wrong opcode.  The array starts with InitialSize slots and is  *)
(* copied into a longer one when a push finds it full.                     *)
(*                                                                         *)
(* A request (opcode, sequence, data1..3) is one value of Entry; a slot    *)
(* that was allocated but never written holds Junk.                        *)
(***************************************************************************)
EXTENDS Naturals

CONSTANTS Entry, Junk, InitialSize, GrowthIncrement,
          MaxSize   \* bound for model checking: the array never outgrows it

ASSUME QueueSizesAssumption ==
    /\ InitialSize \in Nat \ {0}
    /\ GrowthIncrement \in Nat \ {0}
    /\ MaxSize \in Nat

ASSUME JunkAssumption == Junk \notin Entry

VARIABLES queue,    \* queue_: the slots 0 .. size - 1
          size,     \* size_
          length,   \* length_
          start,    \* start_
          end       \* end_

queueVars == <<queue, size, length, start, end>>

-----------------------------------------------------------------------------

QueueInit ==
    /\ size = InitialSize
    /\ queue = [i \in 0 .. InitialSize - 1 |-> Junk]
    /\ length = 0 /\ start = 0 /\ end = 0

(* An empty queue starts again at slot 0, wherever it had arrived. *)
PushEmpty(e) ==
    /\ length = 0
    /\ queue' = [queue EXCEPT ![0] = e]
    /\ length' = 1 /\ start' = 0 /\ end' = 0
    /\ UNCHANGED size

(* The next slot of the ring. *)
After(i) == IF i + 1 = size THEN 0 ELSE i + 1

PushRoom(e) ==
    /\ length # 0 /\ length # size
    /\ end' = After(end)
    /\ queue' = [queue EXCEPT ![After(end)] = e]
    /\ length' = length + 1
    /\ UNCHANGED <<size, start>>

(* The two copy loops: slots start .. length - 1, then slots 0 .. start - 1. *)
Grown(newSize) ==
    [i \in 0 .. newSize - 1 |->
        IF i < length - start THEN queue[i + start]
        ELSE IF i < length THEN queue[i - (length - start)]
        ELSE Junk]

(* Mutant: the tail pointer of the old array is kept in the new one. *)
PushGrowMutant(e) ==
    /\ length # 0 /\ length = size
    /\ size + GrowthIncrement <= MaxSize
    /\ size' = size + GrowthIncrement
    /\ queue' = [Grown(size + GrowthIncrement) EXCEPT ![end + 1] = e]
    /\ start' = 0
    /\ end' = end + 1
    /\ length' = length + 1

PushGrow(e) ==
    /\ length # 0 /\ length = size
    /\ size + GrowthIncrement <= MaxSize
    /\ size' = size + GrowthIncrement
    /\ queue' = [Grown(size + GrowthIncrement) EXCEPT ![length] = e]
    /\ start' = 0
    /\ end' = length
    /\ length' = length + 1

push(e) == PushEmpty(e) \/ PushRoom(e) \/ PushGrow(e)

(* peek reads the slot pop would take and changes nothing. *)
pop ==
    /\ length # 0
    /\ start' = After(start)
    /\ length' = length - 1
    /\ UNCHANGED <<queue, size, end>>

QueueNext == (\E e \in Entry : push(e)) \/ pop

QueueSpec == QueueInit /\ [][QueueNext]_queueVars

-----------------------------------------------------------------------------
(* Properties *)

(* The slot of the i-th queued element, counting from 0 at the head. *)
Slot(i) == IF start + i < size THEN start + i ELSE start + i - size

(* The pointers stay in the array and the length within its size. *)
QueueTypeOK ==
    /\ size \in Nat \ {0}
    /\ length \in 0 .. size
    /\ start \in 0 .. size - 1
    /\ end \in 0 .. size - 1
    /\ queue \in [0 .. size - 1 -> Entry \cup {Junk}]

(* The tail pointer is where the last element is: push relies on it to
   choose the slot it overwrites, although pop never touches it. *)
EndIsLast == length > 0 => end = Slot(length - 1)

(* No queued element is a slot that was never written: a reply is never
   matched with uninitialised memory after the array has been copied. *)
NoJunkQueued == \A i \in 0 .. length - 1 : queue[Slot(i)] \in Entry

(* The elements from head to tail. *)
Contents == [i \in 1 .. length |-> queue[Slot(i - 1)]]

F == INSTANCE Fifo WITH fifo <- Contents

(* Whatever the wrap-arounds and reallocations, the array behaves as a plain
   first-in first-out list. *)
IsFifo == F!Spec

=============================================================================
