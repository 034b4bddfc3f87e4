----------------------------- MODULE Discovery ------------------------------
(***************************************************************************)
(* How a node learns of the others (src/src/lib/edge/cpp/discovery.cpp):   *)
(* the main thread of a group broadcasts the name of its node and then     *)
(* empties its socket, once a second.                                      *)
(*                                                                         *)
(* The broadcasts are datagrams: each may arrive never, once, or several   *)
(* times, late, and in any order.  So an announcement of a node that has   *)
(* announced itself at all may come in at any time.  Others use the port   *)
(* as well; what they send is junk.                                        *)
(*                                                                         *)
(* The length of the address buffer passed to recvfrom is read before      *)
(* anything was assigned to it.  Whatever it holds is one of three cases:  *)
(* enough for an address; too short, so that a piece of the address stays  *)
(* undefined; or negative, so that recvfrom drops the datagram and fails.  *)
(***************************************************************************)
EXTENDS Naturals, Sequences

CONSTANTS
  Node,       (* the names of the nodes                                    *)
  Self,       (* this one                                                  *)
  Junk,       (* a datagram that does not parse                            *)
  MaxSocket   (* bound: datagrams the socket holds                         *)

ASSUME DiscoveryAssumption ==
  /\ Self \in Node
  /\ Junk \notin Node
  /\ MaxSocket \in Nat \ {0}

VARIABLES
  doing,      (* what the loop does next                                   *)
  announced,  (* the nodes that have broadcast their name                  *)
  socket,     (* the datagrams that have arrived                           *)
  node_map,   (* partial map: node to what is stored as its address        *)
  failed      (* whether the last call of listen ended with an error       *)

vars == <<doing, announced, socket, node_map, failed>>

TypeOK ==
  /\ doing \in {"announce", "listen", "sleep"}
  /\ announced \subseteq Node
  /\ socket \in Seq(Node \cup {Junk})
  /\ Len(socket) <= MaxSocket
  /\ DOMAIN node_map \subseteq Node
  /\ node_map \in [DOMAIN node_map -> {"address", "undefined"}]
  /\ failed \in BOOLEAN

(* The others may have been running for long.                              *)
Init ==
  /\ doing = "announce"
  /\ announced \in {others \in SUBSET Node : Self \notin others}
  /\ socket = <<>>
  /\ node_map = [n \in {} |-> ""]
  /\ failed = FALSE

-----------------------------------------------------------------------------
(* sendto may fail, which is only logged.                                  *)
Announce ==
  /\ doing = "announce"
  /\ doing' = "listen"
  /\ announced' \in {announced, announced \cup {Self}}
  /\ UNCHANGED <<socket, node_map, failed>>

(* Faulty: the result of the parser is not looked at.                      *)
FaultyParses(datagram) == TRUE

Parses(datagram) == datagram # Junk

(* insert keeps the entry of a node that is known.                         *)
Presence(n, address) ==
  [m \in DOMAIN node_map \cup {n} |->
     IF m \in DOMAIN node_map THEN node_map[m] ELSE address]

(* A datagram is read, and listen goes on.                                 *)
Hear ==
  /\ doing = "listen"
  /\ socket # <<>>
  /\ Parses(Head(socket))
  /\ \E address \in {"address", "undefined"} :
       node_map' = Presence(Head(socket), address)
  /\ socket' = Tail(socket)
  /\ UNCHANGED <<doing, announced, failed>>

(* Faulty: a datagram that does not parse stays in the socket.             *)
FaultyRest == IF Head(socket) = Junk THEN socket ELSE Tail(socket)

Rest == Tail(socket)

(* listen returns: nothing is left, a datagram that does not parse was     *)
(* read, or select or recvfrom failed.                                     *)
ListenEnds ==
  /\ doing = "listen"
  /\ doing' = "sleep"
  /\ \/ /\ socket = <<>>
        /\ failed' = FALSE
        /\ UNCHANGED socket
     \/ failed' = TRUE /\ UNCHANGED socket
     \/ /\ socket # <<>>
        /\ failed' \in (IF Parses(Head(socket)) THEN {} ELSE {FALSE}) \cup {TRUE}
        /\ socket' = Rest
  /\ UNCHANGED <<announced, node_map>>

Sleep ==
  /\ doing = "sleep"
  /\ doing' = "announce"
  /\ UNCHANGED <<announced, socket, node_map, failed>>

-----------------------------------------------------------------------------
(* Another node joins.                                                     *)
Join(n) ==
  /\ n \in Node \ (announced \cup {Self})
  /\ announced' = announced \cup {n}
  /\ UNCHANGED <<doing, socket, node_map, failed>>

(* A datagram reaches the socket; where there is no room it is lost.       *)
Deliver(datagram) ==
  /\ datagram \in announced \cup {Junk}
  /\ Len(socket) < MaxSocket
  /\ socket' = Append(socket, datagram)
  /\ UNCHANGED <<doing, announced, node_map, failed>>

MainLoop == Announce \/ Hear \/ ListenEnds \/ Sleep

Next ==
  \/ MainLoop
  \/ \E n \in Node : Join(n)
  \/ \E datagram \in Node \cup {Junk} : Deliver(datagram)

(* The scheduler runs the main thread; of the announcements that a node    *)
(* repeats for ever some get through.                                      *)
Fairness == WF_vars(MainLoop) /\ \A n \in Node : SF_vars(Deliver(n))

Spec == Init /\ [][Next]_vars /\ Fairness

-----------------------------------------------------------------------------
(* Every node that sends its name, and goes on sending it, gets into       *)
(* node_map, whatever else is lost, repeated or sent to the port: as long  *)
(* as listen (discovery.cpp:100) does not fail again and again, no         *)
(* datagram can keep those behind it from being read for ever.             *)
NodesFound ==
  \A n \in Node : n \in announced ~> (n \in DOMAIN node_map \/ failed)
=============================================================================
