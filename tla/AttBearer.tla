------------------------------ MODULE AttBearer ------------------------------
(***************************************************************************)
(* What an ATT bearer promises the procedures above it: requests go on the *)
(* air one at a time and in the order in which they were accepted, except  *)
(* that the next part of a procedure may go first; whoever still wants the *)
(* answer of a request is told once, when its own request ends; a request  *)
(* that is on the air cannot be taken back; and a bearer that gives up a   *)
(* request is closed.                                                      *)
(*                                                                         *)
(* A request is a record [id, part, wanted], where a part other than 0     *)
(* continues the request of the same id.  The steps are stated by their    *)
(* outcome, without a choice, so that TLC can follow an implementation.    *)
(***************************************************************************)
EXTENDS Integers, Sequences, SequencesExt

VARIABLES
  queue,   \* the accepted requests that have not been on the air
  air,     \* the request on the air, or Idle
  told,    \* the [id, part] of the callbacks that the last step ran
  seen,    \* the largest identifier given to a request
  closed   \* the bearer has given up

vars == <<queue, air, told, seen, closed>>

Idle == [id |-> 0, part |-> 0, wanted |-> FALSE]

Name(r) == [id |-> r.id, part |-> r.part]
Wants(rs) == {Name(r) : r \in {s \in rs : s.wanted}}

Init == queue = <<>> /\ air = Idle /\ told = {} /\ seen = 0 /\ closed = FALSE

\* A new request at the end of q, with an identifier of its own.
Extends(q) ==
  /\ queue' # <<>> /\ Front(queue') = q
  /\ Last(queue').id > seen /\ Last(queue').part = 0 /\ seen' = Last(queue').id

Accept ==
  /\ ~ closed /\ Extends(queue)
  /\ told' = {} /\ UNCHANGED <<air, closed>>

Start ==
  /\ ~ closed /\ air = Idle /\ queue # <<>>
  /\ air' = Head(queue) /\ queue' = Tail(queue)
  /\ told' = {} /\ UNCHANGED <<seen, closed>>

\* A command, which has no answer.
Post ==
  /\ ~ closed /\ air = Idle /\ queue # <<>> /\ ~ Head(queue).wanted
  /\ queue' = Tail(queue)
  /\ told' = {} /\ UNCHANGED <<air, seen, closed>>

\* The answer to the request on the air, whose callback may continue the
\* request or make a new one.
Complete ==
  /\ ~ closed /\ air # Idle /\ air' = Idle
  /\ told' = Wants({air})
  /\ \/ UNCHANGED <<queue, seen>>
     \/ air.wanted /\ Extends(queue)
     \/ /\ air.wanted /\ UNCHANGED seen
        /\ queue' = <<[air EXCEPT !.part = @ + 1]>> \o queue
  /\ UNCHANGED closed

\* What is left when elements are taken out of q.
IsPartOf(s, q) ==
  \E f \in [DOMAIN s -> DOMAIN q] : \A i \in DOMAIN s :
    s[i] = q[f[i]] /\ \A j \in DOMAIN s : i < j => f[i] < f[j]

\* Requests are withdrawn: those not yet sent are removed, the others keep
\* their order; of the one on the air only the callback is.
Withdraw ==
  /\ ~ closed
  /\ IsPartOf(queue', queue)
  /\ air' \in {air, [air EXCEPT !.wanted = FALSE]}
  /\ told' = {} /\ UNCHANGED <<seen, closed>>

\* No answer came in time, which all that want one are told, or the last
\* user has left.
Abandon ==
  /\ ~ closed /\ closed' = TRUE
  /\ queue' = <<>> /\ air' = Idle
  /\ told' \in {{}, Wants(ToSet(queue) \cup {air})}
  /\ seen' >= seen

\* Something that does not concern requests; a confirmation takes an
\* identifier, too.
Other ==
  /\ told' = {} /\ seen' >= seen
  /\ UNCHANGED <<queue, air, closed>>

Next == Accept \/ Start \/ Post \/ Complete \/ Withdraw \/ Abandon \/ Other

Spec == Init /\ [][Next]_vars
=============================================================================
