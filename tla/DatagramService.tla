-------------------------- MODULE DatagramService --------------------------
(***************************************************************************)
(* What the emulated network promises its users while no table entry has   *)
(* expired and no process stops: a message is shown at the station it was  *)
(* sent to, once, unchanged.  Nothing is promised about the order of       *)
(* messages, nor about messages to oneself or to an address nobody has.    *)
(***************************************************************************)
EXTENDS Naturals, Sequences

CONSTANTS
  Host,       \* the stations and routers
  Address,    \* what a message is sent to
  Content,    \* the messages, all different
  addresses   \* addresses[h]: the addresses of host h

VARIABLES
  sent,       \* the messages sent so far
  inbox       \* inbox[h]: the messages shown at h, in order

Shown(m) ==
  \E h \in Host : \E n \in DOMAIN inbox[h] : inbox[h][n].data = m.data

Init == sent = {} /\ inbox = [h \in Host |-> <<>>]

Send(h, a, c) ==
  /\ \A m \in sent : m.data # c
  /\ sent' = sent \cup {[from |-> h, dst |-> a, data |-> c]}
  /\ UNCHANGED inbox

Show(h) ==
  /\ \E m \in sent :
       /\ m.dst \in addresses[h] /\ ~Shown(m)
       /\ inbox' = [inbox EXCEPT ![h] = Append(@, [dst |-> m.dst, data |-> m.data])]
  /\ UNCHANGED sent

Next ==
  \/ \E h \in Host, a \in Address, c \in Content : Send(h, a, c)
  \/ \E h \in Host : Show(h)

Spec == Init /\ [][Next]_<<sent, inbox>>
=============================================================================
