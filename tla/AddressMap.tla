----------------------------- MODULE AddressMap -----------------------------
(***************************************************************************)
(* What a shadow memory promises to the threads that use it: one cell for  *)
(* every address, shared by all threads, Zero until somebody writes it.  A *)
(* thread asks for the page of an address; it is answered, and may then    *)
(* read and write the cells of that page, or it is told that nothing was   *)
(* ever written there.  How pages come into being, and who made them, is   *)
(* not visible.                                                            *)
(***************************************************************************)

CONSTANTS
    Thread,
    Addr,        \* <<directory slot, table slot, offset>>
    Base,        \* <<directory slot, table slot>>
    Cell,
    Zero

VARIABLES
    cell,        \* the contents, one cell per address
    asked,       \* per thread: the page of its last request
    answer,      \* per thread: "none", "waiting", "held" or "missed"
    seen,        \* per thread: the last cell it has read
    open         \* FALSE once the memory has been given back

vars == <<cell, asked, answer, seen, open>>

OnPage(a, b) == <<a[1], a[2]>> = b

Init ==
    /\ cell = [a \in Addr |-> Zero]
    /\ asked \in [Thread -> Base]
    /\ answer = [t \in Thread |-> "none"]
    /\ seen = [t \in Thread |-> Zero]
    /\ open = TRUE

(* A thread may drop a page, or the answer that there is none, at any time. *)
Ask(t, b) ==
    /\ open
    /\ answer[t] # "waiting"
    /\ asked' = [asked EXCEPT ![t] = b]
    /\ answer' = [answer EXCEPT ![t] = "waiting"]
    /\ UNCHANGED <<cell, seen, open>>

Grant(t) ==
    /\ answer[t] = "waiting"
    /\ answer' = [answer EXCEPT ![t] = "held"]
    /\ UNCHANGED <<cell, asked, seen, open>>

(* "Missed" is only said of a page on which no cell has been written. *)
Deny(t) ==
    /\ answer[t] = "waiting"
    /\ \A a \in Addr : OnPage(a, asked[t]) => cell[a] = Zero
    /\ answer' = [answer EXCEPT ![t] = "missed"]
    /\ UNCHANGED <<cell, asked, seen, open>>

Read(t, a) ==
    /\ open
    /\ answer[t] = "held"
    /\ OnPage(a, asked[t])
    /\ seen' = [seen EXCEPT ![t] = cell[a]]
    /\ UNCHANGED <<cell, asked, answer, open>>

Write(t, a) ==
    /\ open
    /\ answer[t] = "held"
    /\ OnPage(a, asked[t])
    /\ cell'[a] \in Cell
    /\ cell' = [cell EXCEPT ![a] = cell'[a]]
    /\ UNCHANGED <<asked, answer, seen, open>>

Close ==
    /\ open
    /\ \A t \in Thread : answer[t] # "waiting"
    /\ open' = FALSE
    /\ UNCHANGED <<cell, asked, answer, seen>>

Next ==
    \/ \E t \in Thread :
        \/ \E b \in Base : Ask(t, b)
        \/ Grant(t)
        \/ Deny(t)
        \/ \E a \in Addr : Read(t, a)
        \/ \E a \in Addr : Write(t, a)
    \/ Close

Spec == Init /\ [][Next]_vars
=============================================================================
