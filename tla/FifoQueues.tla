------------------------------ MODULE FifoQueues ------------------------------
(***************************************************************************)
(* What the execution queues promise to those who use them: each queue is  *)
(* a line of tasks without repetitions, a task joins at the end, an agent  *)
(* is handed the one that is first, and nothing but a request to move a    *)
(* task lets it overtake another.                                          *)
(***************************************************************************)
EXTENDS Integers, Sequences, SequencesExt

CONSTANTS Tasks, Queues, Agents, None

VARIABLES
  line,  \* line[q]: the tasks waiting in q, the first to be handed out first
  hand   \* hand[a]: the task agent a was handed, until it has dealt with it

Waiting(t, q) == \E i \in DOMAIN line[q] : line[q][i] = t

Init ==
  /\ line = [q \in Queues |-> <<>>]
  /\ hand = [a \in Agents |-> None]

Join(t, q) ==
  /\ ~Waiting(t, q)
  /\ line' = [line EXCEPT ![q] = Append(@, t)]
  /\ UNCHANGED hand

Take(a, q) ==
  /\ hand[a] = None
  /\ line[q] # <<>>
  /\ hand' = [hand EXCEPT ![a] = Head(line[q])]
  /\ line' = [line EXCEPT ![q] = Tail(@)]

Settle(a) ==
  /\ hand' = [hand EXCEPT ![a] = None]
  /\ UNCHANGED line

Leave(q) ==
  /\ \E i \in DOMAIN line[q] : line' = [line EXCEPT ![q] = RemoveAt(@, i)]
  /\ UNCHANGED hand

(* One task changes its place, the others keep their order.                *)
Move(q) ==
  /\ \E i, j \in DOMAIN line[q] :
       line' = [line EXCEPT ![q] = InsertAt(RemoveAt(@, i), j, @[i])]
  /\ UNCHANGED hand

Dissolve(q) ==
  /\ line' = [line EXCEPT ![q] = <<>>]
  /\ UNCHANGED hand

Next ==
  \/ \E q \in Queues :
       \/ \E t \in Tasks : Join(t, q)
       \/ \E a \in Agents : Take(a, q)
       \/ Leave(q) \/ Move(q) \/ Dissolve(q)
  \/ \E a \in Agents : Settle(a)

Spec == Init /\ [][Next]_<<line, hand>>
===============================================================================
