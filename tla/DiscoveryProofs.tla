-------------------------- MODULE DiscoveryProofs ---------------------------
(***************************************************************************)
(* Discovery for any nodes and any room in the socket.  What is proved of  *)
(* it is that its state is what TypeOK says, and that no node is found     *)
(* which has not announced itself.                                         *)
(***************************************************************************)
EXTENDS Discovery, SequenceTheorems, TLAPS

(* What is left of a queue.                                                *)
LEMMA Shorter ==
  ASSUME NEW S, NEW q \in Seq(S), q # <<>>
  PROVE  Tail(q) \in Seq(S) /\ Len(Tail(q)) = Len(q) - 1
  OBVIOUS

(* The loop, the others and the network keep the types.                    *)
LEMMA TypeStep ==
  ASSUME TypeOK, [Next]_vars
  PROVE  TypeOK'
<1> USE DiscoveryAssumption
<1>1. CASE Announce
  BY <1>1 DEF TypeOK, Announce
<1>2. CASE Hear
  <2>1. PICK address \in {"address", "undefined"} :
          node_map' = Presence(Head(socket), address)
    BY <1>2 DEF Hear
  <2>2. Head(socket) \in Node
    BY <1>2 DEF TypeOK, Hear, Parses
  <2>3. /\ DOMAIN node_map' \subseteq Node
        /\ node_map' \in [DOMAIN node_map' -> {"address", "undefined"}]
    BY <2>1, <2>2 DEF TypeOK, Presence
  <2>4. /\ socket' \in Seq(Node \cup {Junk})
        /\ Len(socket') <= MaxSocket
    BY <1>2, Shorter DEF TypeOK, Hear
  <2> QED
    BY <1>2, <2>3, <2>4 DEF TypeOK, Hear
<1>3. CASE ListenEnds
  <2>1. socket' = socket \/ (socket # <<>> /\ socket' = Tail(socket))
    BY <1>3 DEF ListenEnds, Rest
  <2>2. /\ socket' \in Seq(Node \cup {Junk})
        /\ Len(socket') <= MaxSocket
    BY <2>1, Shorter DEF TypeOK
  <2>3. failed' \in BOOLEAN
    BY <1>3 DEF ListenEnds
  <2> QED
    BY <1>3, <2>2, <2>3 DEF TypeOK, ListenEnds
<1>4. CASE Sleep
  BY <1>4 DEF TypeOK, Sleep
<1>5. ASSUME NEW n \in Node, Join(n)
      PROVE  TypeOK'
  BY <1>5 DEF TypeOK, Join
<1>6. ASSUME NEW datagram \in Node \cup {Junk}, Deliver(datagram)
      PROVE  TypeOK'
  BY <1>6 DEF TypeOK, Deliver
<1>7. CASE UNCHANGED vars
  BY <1>7 DEF TypeOK, vars
<1> QED
  BY <1>1, <1>2, <1>3, <1>4, <1>5, <1>6, <1>7 DEF Next, MainLoop

(* The state of discovery has the types it is declared with: no datagram   *)
(* that does not parse gets into node_map (discovery.cpp:142), and the     *)
(* socket never holds more than it has room for.                           *)
THEOREM TypeCorrect == Spec => []TypeOK
<1>1. Init => TypeOK
  <2> SUFFICES ASSUME Init PROVE TypeOK
    OBVIOUS
  <2>1. DOMAIN node_map = {} /\ node_map \in [{} -> {"address", "undefined"}]
    BY DEF Init
  <2>2. socket \in Seq(Node \cup {Junk}) /\ Len(socket) <= MaxSocket
    BY DiscoveryAssumption DEF Init
  <2> QED
    BY <2>1, <2>2 DEF Init, TypeOK
<1>2. TypeOK /\ [Next]_vars => TypeOK'
  BY TypeStep
<1> QED
  BY <1>1, <1>2, PTL DEF Spec

-----------------------------------------------------------------------------
(* What is in the socket and in the map has been sent by a node that is    *)
(* there.                                                                  *)
Heard ==
  /\ \A i \in DOMAIN socket : socket[i] \in announced \cup {Junk}
  /\ DOMAIN node_map \subseteq announced

(* Datagrams are lost, repeated and late, but none is made up.             *)
LEMMA HeardStep ==
  ASSUME TypeOK, Heard, [Next]_vars
  PROVE  Heard'
<1> USE DiscoveryAssumption DEF TypeOK, Heard
<1>1. CASE Announce
  BY <1>1 DEF Announce
<1>2. ASSUME socket # <<>>, socket' = Tail(socket)
      PROVE  \A i \in DOMAIN socket' : socket'[i] \in announced \cup {Junk}
  BY <1>2
<1>3. CASE Hear
  <2>1. PICK address \in {"address", "undefined"} :
          node_map' = Presence(Head(socket), address)
    BY <1>3 DEF Hear
  <2>2. Head(socket) \in announced
    BY <1>3 DEF Hear, Parses
  <2>3. DOMAIN node_map' \subseteq announced
    BY <2>1, <2>2 DEF Presence
  <2> QED
    BY <1>2, <1>3, <2>3 DEF Hear
<1>4. CASE ListenEnds
  <2>1. socket' = socket \/ (socket # <<>> /\ socket' = Tail(socket))
    BY <1>4 DEF ListenEnds, Rest
  <2> QED
    BY <1>2, <1>4, <2>1 DEF ListenEnds
<1>5. CASE Sleep
  BY <1>5 DEF Sleep
<1>6. ASSUME NEW n \in Node, Join(n)
      PROVE  Heard'
  BY <1>6 DEF Join
<1>7. ASSUME NEW datagram \in Node \cup {Junk}, Deliver(datagram)
      PROVE  Heard'
  BY <1>7 DEF Deliver
<1>8. CASE UNCHANGED vars
  BY <1>8 DEF vars
<1> QED
  BY <1>1, <1>3, <1>4, <1>5, <1>6, <1>7, <1>8 DEF Next, MainLoop

(* Whatever is lost, repeated, late or sent to the port by others: listen  *)
(* (discovery.cpp:100) never finds a node that has not announced itself.   *)
THEOREM FoundHaveAnnounced == Spec => [](DOMAIN node_map \subseteq announced)
<1>1. Init => Heard
  BY DEF Init, Heard
<1>2. TypeOK /\ Heard /\ [Next]_vars => Heard'
  BY HeardStep
<1>3. Heard => DOMAIN node_map \subseteq announced
  BY DEF Heard
<1> QED
  BY <1>1, <1>2, <1>3, TypeCorrect, PTL DEF Spec
=============================================================================
