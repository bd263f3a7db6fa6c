----------------------------- MODULE MemoryPool -----------------------------
(***************************************************************************)
(* CLockMemoryPool_Private (MemoryPool.h) over CLock_Stack (MoguiData.h):  *)
(* the objects of a class that operator new and delete reuse.  A call of   *)
(* Pop or Push is one step, under the stack's lock; AllocFromPool is a     *)
(* loop of such steps, so threads meet between them.                       *)
(***************************************************************************)
EXTENDS Naturals, Sequences

CONSTANTS AllocBlockSize, NoObject

ASSUME PoolSizes == AllocBlockSize \in Nat \ {0} /\ NoObject \notin Nat

NewPool == [free |-> <<>>, totalMalloc |-> 0]

(* Pop gives the top of the stack, and no object when it is empty.         *)
Top(pool)     == IF pool.free = <<>> THEN NoObject ELSE pool.free[Len(pool.free)]
Pop(pool)     == [pool EXCEPT !.free = IF @ = <<>> THEN @ ELSE SubSeq(@, 1, Len(@) - 1)]
Push(pool, o) == [pool EXCEPT !.free = Append(@, o)]

(* One round of AllocBlock: a new object, which goes to the stack first.   *)
Malloc(pool) == [free |-> Append(pool.free, pool.totalMalloc + 1),
                 totalMalloc |-> pool.totalMalloc + 1]
=============================================================================
