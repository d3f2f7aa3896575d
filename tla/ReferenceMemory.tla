--------------------------- MODULE ReferenceMemory ---------------------------
(***************************************************************************)
(* The lock-based transactional memory the grader compares others with     *)
(* (reference/tm.c, shared-lock.c): one lock, shared by the read-only      *)
(* transactions and held alone by a read-write one; reads and writes go    *)
(* straight to the memory; allocated segments are in a doubly linked list  *)
(* whose nodes lie in front of them.                                       *)
(*                                                                         *)
(* A segment is a number; what posix_memalign returns is any that is free, *)
(* and it fails when none is.                                              *)
(***************************************************************************)
EXTENDS Integers, FiniteSets

CONSTANT
    MaxSegments       \* bound: how many segments the heap has room for

ASSUME MaxSegmentsAssumption == MaxSegments \in Nat \ {0}

VARIABLES
    writer, readers,  \* who holds the lock, how
    content,          \* the words of each allocated segment
    allocs,           \* the first node of the list
    node              \* prev and next of each allocated segment's node

referenceVars == <<writer, readers, content, allocs, node>>

NULL == 0
Region == 1           \* the segment tm_create allocates, which has no node
NoWriter == -1

\* nothing is left of a destroyed region
Destroyed == content = <<>>

(* tm_create, with what has been stored in the region since                *)
ReferenceInit(words) ==
    /\ writer = NoWriter
    /\ readers = {}
    /\ content = [s \in {Region} |-> words]
    /\ allocs = NULL
    /\ node = <<>>
----------------------------------------------------------------------------
\* shared-lock.c over pthread_rwlock
shared_lock_acquire(t) ==
    /\ writer = NoWriter /\ readers = {}
    /\ writer' = t
    /\ UNCHANGED readers

\* mutant: a reader is let in beside the writer
shared_lock_acquire_sharedAnyway(t) ==
    /\ readers' = readers \cup {t}
    /\ UNCHANGED writer

shared_lock_acquire_shared(t) ==
    /\ writer = NoWriter
    /\ readers' = readers \cup {t}
    /\ UNCHANGED writer

\* pthread_rwlock_unlock gives up whatever the caller holds
shared_lock_release(t) ==
    /\ writer' = IF writer = t THEN NoWriter ELSE writer
    /\ readers' = readers \ {t}

\* mutant: the modes are swapped
RefBeginSwapped(t, is_ro) ==
    /\ IF is_ro THEN shared_lock_acquire(t) ELSE shared_lock_acquire_shared(t)
    /\ UNCHANGED <<content, allocs, node>>

RefBegin(t, is_ro) ==
    /\ IF is_ro THEN shared_lock_acquire_shared(t) ELSE shared_lock_acquire(t)
    /\ UNCHANGED <<content, allocs, node>>

\* mutant: a read-only transaction keeps the lock
RefEndKeepsShared(t) ==
    /\ writer' = NoWriter
    /\ UNCHANGED <<readers, content, allocs, node>>

RefEnd(t) ==
    /\ shared_lock_release(t)
    /\ UNCHANGED <<content, allocs, node>>

(* memcpy from and to the segment, which is there                          *)
RefReads(s, off) == content[s][off]

RefWrite(s, off, v) ==
    /\ content' = [content EXCEPT ![s][off] = v]
    /\ UNCHANGED <<writer, readers, allocs, node>>

(* s, which was free, is put in front of the list and zeroed               *)
RefAlloc(s, size) ==
    /\ s \in 1 .. MaxSegments \ DOMAIN content
    /\ node' = [n \in DOMAIN node \cup {s} |->
                    IF n = s THEN [prev |-> NULL, next |-> allocs]
                    ELSE IF n = allocs THEN [node[n] EXCEPT !.prev = s] ELSE node[n]]
    /\ allocs' = s
    /\ content' = [n \in DOMAIN content \cup {s} |->
                       IF n = s THEN [off \in 0 .. size - 1 |-> 0] ELSE content[n]]
    /\ UNCHANGED <<writer, readers>>

Without(f, s) == [x \in DOMAIN f \ {s} |-> f[x]]

\* mutant: the node after the freed one goes on pointing at it
RefFreeHalfUnlinked(s) ==
    /\ LET sn == node[s] IN
       /\ allocs' = IF sn.prev = NULL THEN sn.next ELSE allocs
       /\ node' = [n \in DOMAIN node \ {s} |->
                      IF n = sn.prev THEN [node[n] EXCEPT !.next = sn.next] ELSE node[n]]
    /\ content' = Without(content, s)
    /\ UNCHANGED <<writer, readers>>

RefFree(s) ==
    /\ LET sn == node[s] IN
       /\ allocs' = IF sn.prev = NULL THEN sn.next ELSE allocs
       /\ node' = [n \in DOMAIN node \ {s} |->
                      IF n = sn.prev THEN [node[n] EXCEPT !.next = sn.next]
                      ELSE IF n = sn.next THEN [node[n] EXCEPT !.prev = sn.prev]
                      ELSE node[n]]
    /\ content' = Without(content, s)
    /\ UNCHANGED <<writer, readers>>

(* tm_destroy: node after node, then the region                            *)
RefDestroyNode ==
    /\ allocs # NULL
    /\ allocs' = node[allocs].next
    /\ content' = Without(content, allocs)
    /\ node' = Without(node, allocs)
    /\ UNCHANGED <<writer, readers>>

RefDestroyRegion ==
    /\ allocs = NULL
    /\ ~Destroyed
    /\ content' = Without(content, Region)
    /\ UNCHANGED <<writer, readers, allocs, node>>
(* tm_alloc returns nomem_alloc                                            *)
RefAllocFails ==
    /\ 1 .. MaxSegments \subseteq DOMAIN content
    /\ UNCHANGED referenceVars

----------------------------------------------------------------------------
(* What the properties of the modules that extend this one speak of        *)

(* The list is doubly linked: each node is the one before its next, and    *)
(* the first is allocs.                                                    *)
WellLinked ==
    /\ \A n \in DOMAIN node : node[n].next # NULL => node[node[n].next].prev = n
    /\ \A n \in DOMAIN node : node[n].prev = NULL <=> n = allocs
=============================================================================
