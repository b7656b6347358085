------------------------------- MODULE Mailbox -------------------------------
(***************************************************************************)
(* What pipe/read_fifo.c and pipe/write_fifo.c promise together: a writer  *)
(* sends one string, a string that was sent reaches one reader whole or is *)
(* lost, a reader gets at most one, and what is lost stays lost.           *)
(***************************************************************************)
CONSTANTS Senders, Receivers

VARIABLE fate   \* of each sender's string; a receiver stands for delivery to it

Init == fate = [s \in Senders |-> "unsent"]

Send(s) ==
    /\ fate[s] = "unsent"
    /\ fate' = [fate EXCEPT ![s] = "waiting"]

Deliver(s, r) ==
    /\ fate[s] = "waiting"
    /\ \A t \in Senders : fate[t] # r
    /\ fate' = [fate EXCEPT ![s] = r]

\* Nobody is left to read what is waiting in one fifo.
Lose(S) ==
    /\ \A s \in S : fate[s] = "waiting"
    /\ fate' = [s \in Senders |-> IF s \in S THEN "lost" ELSE fate[s]]

Next ==
    \/ \E s \in Senders : Send(s) \/ \E r \in Receivers : Deliver(s, r)
    \/ \E S \in SUBSET Senders : Lose(S)

Spec == Init /\ [][Next]_fate
=============================================================================
