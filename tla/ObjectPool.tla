----------------------------- MODULE ObjectPool -----------------------------
(***************************************************************************)
(* FixedObjectPool and FixedPoolObject (include/tool/FixedObjectPool.h): a *)
(* semaphore counts the free objects, a lock protects the list of them, and *)
(* Acquire takes the two one after the other.  Threads borrow connections   *)
(* through FixedPoolObject, whose destructor gives back what it got.        *)
(***************************************************************************)
EXTENDS Integers, Sequences, SequencesExt

CONSTANTS
    Objects,  \* the maxCount objects the constructor makes, in a sequence
    Borrowers,
    Null

ASSUME ObjectPoolAssumption ==
    /\ Objects \in Seq(Range(Objects)) /\ IsInjective(Objects)
    /\ Null \notin Range(Objects)
    /\ IsFiniteSet(Borrowers)

VARIABLES
    m_free,  \* m_freeList
    m_count, \* the count of m_sem
    at,      \* per thread: "out", "counted" (past Wait), "in" (has its answer)
    m_obj    \* what its FixedPoolObject holds

poolVars == <<m_free, m_count, at, m_obj>>

PoolInit ==
    /\ m_free = Objects
    /\ m_count = Len(Objects)
    /\ at = [t \in Borrowers |-> "out"]
    /\ m_obj = [t \in Borrowers |-> Null]

\* m_sem.Wait(timeoutMs).
Wait(t) ==
    /\ at[t] = "out"
    /\ \/ /\ m_count > 0
          /\ m_count' = m_count - 1
          /\ at' = [at EXCEPT ![t] = "counted"]
       \/ /\ m_count = 0
          /\ at' = [at EXCEPT ![t] = "in"]
          /\ UNCHANGED m_count
    /\ UNCHANGED <<m_free, m_obj>>

\* The locked part of Acquire: back() and pop_back().
TakeBack(t) ==
    /\ at[t] = "counted"
    /\ m_obj' = [m_obj EXCEPT ![t] = Last(m_free)]
    /\ m_free' = Front(m_free)
    /\ at' = [at EXCEPT ![t] = "in"]
    /\ UNCHANGED m_count

\* ~FixedPoolObject and Release: nothing to give back after a time-out.
ReleaseAlways(t) ==
    /\ at[t] = "in"
    /\ m_free' = IF m_obj[t] = Null THEN m_free ELSE Append(m_free, m_obj[t])
    /\ m_count' = m_count + 1
    /\ m_obj' = [m_obj EXCEPT ![t] = Null]
    /\ at' = [at EXCEPT ![t] = "out"]
Release(t) ==
    /\ at[t] = "in"
    /\ IF m_obj[t] = Null
       THEN UNCHANGED <<m_free, m_count>>
       ELSE m_free' = Append(m_free, m_obj[t]) /\ m_count' = m_count + 1
    /\ m_obj' = [m_obj EXCEPT ![t] = Null]
    /\ at' = [at EXCEPT ![t] = "out"]

PoolNext == \E t \in Borrowers : Wait(t) \/ TakeBack(t) \/ Release(t)
PoolSpec == PoolInit /\ [][PoolNext]_poolVars

-----------------------------------------------------------------------------
\* Whoever gets past the semaphore finds an object on the list, though the two are not
\* taken together, and no two threads hold the same one: back() of an empty vector is
\* undefined, and a connection used by two threads is too (FixedObjectPool.h 31-50).
EachHasItsOwn ==
    /\ Cardinality({t \in Borrowers : at[t] = "counted"}) + m_count = Len(m_free)
    /\ \A s, t \in Borrowers : s # t /\ m_obj[s] = m_obj[t] => m_obj[s] = Null
    /\ \A t \in Borrowers : ~Contains(m_free, m_obj[t])
=============================================================================
