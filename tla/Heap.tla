-------------------------------- MODULE Heap --------------------------------
(***************************************************************************)
(* What an allocator promises its caller: the bytes it hands out lie in    *)
(* its pool and belong to nobody else until they are given back.           *)
(***************************************************************************)
EXTENDS Naturals

CONSTANTS
  Start,   \* the address of the pool
  Bytes    \* its size

VARIABLE live    \* the pointers handed out, with the bytes asked for

Span(p, bytes) == p..(p + bytes - 1)

Init == live = [p \in {} |-> 0]

Get(p, bytes) ==
  /\ p \notin DOMAIN live /\ p + bytes <= Start + Bytes
  /\ \A q \in DOMAIN live : Span(p, bytes) \cap Span(q, live[q]) = {}
  /\ live' = [q \in DOMAIN live \cup {p} |-> IF q = p THEN bytes ELSE live[q]]

Give(p) ==
  /\ p \in DOMAIN live
  /\ live' = [q \in DOMAIN live \ {p} |-> live[q]]

Next ==
  \/ \E p \in Start..(Start + Bytes), bytes \in 0..Bytes : Get(p, bytes)
  \/ \E p \in DOMAIN live : Give(p)

Spec == Init /\ [][Next]_live
=============================================================================
