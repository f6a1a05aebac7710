------------------------------ MODULE DeviceMap ------------------------------
(***************************************************************************)
(* class device_memmap (libmdpi/mdpi_driver.cpp): which memory of the      *)
(* testbench the addresses of the design stand for.  A map takes the first *)
(* address of a segment to the offset that leads to the testbench's        *)
(* memory; the offset Unmapped ends the segment before.                    *)
(*                                                                         *)
(* Addresses are naturals and no byte of the design has the address of the *)
(* memory it is mapped to, as an offset of zero would mean unmapped.       *)
(***************************************************************************)
EXTENDS Integers, FiniteSets, FiniteSetsExt

Unmapped == 0

EmptyMap == [b \in {0} |-> Unmapped]

Inserted(m, b, offset) ==
  [c \in DOMAIN m \cup {b} |-> IF c \in DOMAIN m THEN m[c] ELSE offset]

Erased(m, B) == [b \in DOMAIN m \ B |-> m[b]]

Before(m, b) == Max({c \in DOMAIN m : c < b})

After(m, b) == {c \in DOMAIN m : b < c}

(* A mapped segment is joined to the one before it when their offsets are  *)
(* the same; front is where the segment of the new one begins.             *)
(* Mutant: whatever its offset.                                            *)
JoinedAny(m, dst, offset, fresh) ==
  LET prev == Before(m, dst)
      joins == m[prev] # Unmapped
  IN  [map |-> IF fresh \/ m[dst] # Unmapped THEN m
               ELSE IF joins THEN Erased(m, {dst}) ELSE [m EXCEPT ![dst] = offset],
       front |-> IF m[dst] = Unmapped /\ joins THEN prev ELSE dst,
       failed |-> FALSE]

Joined(m, dst, offset, fresh) ==
  LET prev == Before(m, dst)
      set == [m EXCEPT ![dst] = offset]
      joins == m[prev] = offset
  IN  IF fresh
      THEN [map |-> m, front |-> IF m[prev] # Unmapped THEN prev ELSE dst,
            failed |-> m[prev] \notin {Unmapped, offset}]
      ELSE [map |-> IF m[dst] # Unmapped THEN m
                    ELSE IF joins THEN Erased(m, {dst}) ELSE set,
            front |-> IF m[dst] = Unmapped /\ joins THEN prev ELSE dst,
            failed |-> m[dst] \notin {Unmapped, offset}]

(* map(): the map with [dst, dst + bytes) at src, and whether it failed.   *)
(* What a failure leaves in the map stays there.                           *)
Mapping(m, dst, src, bytes) ==
  LET offset == src - dst
      top == dst + bytes
      both == Inserted(Inserted(m, dst, offset), top, Unmapped)
      j == Joined(both, dst, offset, dst \notin DOMAIN m)
      next == After(j.map, top)
      back == IF top \notin DOMAIN m /\ next # {} /\ j.map[Min(next)] = Unmapped
              THEN Min(next) ELSE top
      inner == {b \in DOMAIN j.map : j.front < b /\ b < back}
      failed == j.failed \/ \E b \in inner : j.map[b] \notin {Unmapped, offset}
  IN  [map |-> IF failed THEN j.map ELSE Erased(j.map, inner), failed |-> failed]

(* addrmap(): the memory an address of the design stands for, or null.     *)
AddrMap(m, a) ==
  LET b == Max({c \in DOMAIN m : c <= a})
  IN  IF b # Min(DOMAIN m) /\ m[b] # Unmapped THEN m[b] + a ELSE 0

(* mapaddr(): the address the design has for some memory, the first of     *)
(* them, or null.                                                          *)
MapAddr(m, h) ==
  LET hits == {b \in DOMAIN m :
                 /\ m[b] # Unmapped
                 /\ b + m[b] <= h /\ h < Min(After(m, b)) + m[b]}
  IN  IF hits = {} THEN 0 ELSE h - m[Min(hits)]
=============================================================================
