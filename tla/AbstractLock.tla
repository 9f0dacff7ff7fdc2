---------------------------- MODULE AbstractLock ----------------------------
(***************************************************************************)
(* What a lock promises its clients.  held[c] is the number of successful  *)
(* acquisitions of client c that it has not released yet, and ret[c] the   *)
(* result of its last completed call.  Every lock of the library is meant  *)
(* to implement this module.                                               *)
(***************************************************************************)
EXTENDS Naturals

CONSTANTS
    Clients,        \* whoever may own the lock: threads, or threads of processes
    Recursive,      \* whether a client that holds the lock is granted it again
    Mortal,         \* the clients whose acquisitions may vanish: their process
                    \* dies, or closes the lock
    Forgotten       \* the clients whose release may be refused although they
                    \* hold the lock

VARIABLES
    held,           \* number of acquisitions of a client not yet released
    ret             \* result of the last completed call of a client

absVars == <<held, ret>>

Returns(c, result) == ret' = [ret EXCEPT ![c] = result]

AbsInit ==
    /\ held = [c \in Clients |-> 0]
    /\ ret  = [c \in Clients |-> "none"]

\* The lock is granted when no other client holds it.
Acquire(c) ==
    /\ \A d \in Clients \ {c} : held[d] = 0
    /\ Recursive \/ held[c] = 0
    /\ held' = [held EXCEPT ![c] = @ + 1]
    /\ Returns(c, "granted")

\* An attempt to lock may fail, but not for the owner of a recursive lock.
Busy(c) ==
    /\ ~Recursive \/ held[c] = 0
    /\ Returns(c, "busy")
    /\ UNCHANGED held

\* A release is accepted from a client that holds the lock, and undoes one acquisition.
Release(c) ==
    /\ held[c] > 0
    /\ held' = [held EXCEPT ![c] = @ - 1]
    /\ Returns(c, "released")

\* A release is refused to a client that does not hold the lock, and to no
\* other unless its ownership may be forgotten.
Refuse(c) ==
    /\ held[c] = 0 \/ c \in Forgotten
    /\ Returns(c, "refused")
    /\ UNCHANGED held

\* Some clients lose what they hold without a call of their own.
Abandon(gone) ==
    /\ held' = [c \in Clients |-> IF c \in gone THEN 0 ELSE held[c]]
    /\ UNCHANGED ret

AbsNext ==
    \/ \E c \in Clients : Acquire(c) \/ Busy(c) \/ Release(c) \/ Refuse(c)
    \/ \E gone \in SUBSET Mortal : Abandon(gone)

AbsSpec == AbsInit /\ [][AbsNext]_absVars
=============================================================================
