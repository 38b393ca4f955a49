----------------------------- MODULE ConnService -----------------------------
(***************************************************************************)
(* What mcr-server promises, without threads or descriptors: each          *)
(* connection is served in isolation, from being taken off the backlog to  *)
(* its one close; it gets responses to its own messages only and never     *)
(* more of them than it sent messages.  The whole service may stop at any  *)
(* time.  Once spoilt, nothing is promised any more.                       *)
(***************************************************************************)
EXTENDS Naturals

CONSTANT Conns

VARIABLES up,        \* the process runs
          stage,     \* idle, pending, serving or closed
          asked,     \* messages sent by each client
          answered,  \* answered[d][s]: responses on d to messages of s
          spoilt     \* the promise is void

svars == <<up, stage, asked, answered, spoilt>>

Init == /\ up = TRUE
        /\ stage = [c \in Conns |-> "idle"]
        /\ asked = [c \in Conns |-> 0]
        /\ answered = [d \in Conns |-> [s \in Conns |-> 0]]
        /\ spoilt = FALSE

Move(c, a, b) == /\ up /\ stage[c] = a
                 /\ stage' = [stage EXCEPT ![c] = b]
                 /\ UNCHANGED <<up, asked, answered, spoilt>>

Arrive(c) == Move(c, "idle", "pending")
Admit(c)  == Move(c, "pending", "serving")
Finish(c) == Move(c, "serving", "closed")

Ask(c) == /\ up /\ stage[c] \in {"pending", "serving"}
          /\ asked' = [asked EXCEPT ![c] = @ + 1]
          /\ UNCHANGED <<up, stage, answered, spoilt>>

Answer(c) == /\ up /\ stage[c] = "serving" /\ answered[c][c] < asked[c]
             /\ answered' = [answered EXCEPT ![c][c] = @ + 1]
             /\ UNCHANGED <<up, stage, asked, spoilt>>

Stop == /\ up /\ up' = FALSE
        /\ stage' = [c \in Conns |-> IF stage[c] = "idle" THEN "idle"
                                     ELSE "closed"]
        /\ UNCHANGED <<asked, answered, spoilt>>

Next == \/ spoilt'
        \/ \E c \in Conns : \/ Arrive(c) \/ Admit(c) \/ Finish(c)
                            \/ Ask(c) \/ Answer(c)
        \/ Stop

Spec == Init /\ [][Next]_svars

=============================================================================
