---------------------------- MODULE AddressSpace ----------------------------
(* The addresses the class memory gives to variables and to the parameters *)
(* of memory-mapped functions.  Internal memory and parameters are laid    *)
(* out one behind the other from the internal base address, external       *)
(* memory from the off-chip base address; private memories are not on the  *)
(* bus and all begin near the internal base address.  Addresses do not     *)
(* wrap around.                                                            *)
EXTENDS Integers

CONSTANTS
  Symbol,      \* what gets an address: variables and parameters
  Scope,       \* the functions
  Sizes,       \* sizes in bytes
  Alignments,  \* alignments in bytes
  Settings     \* the options the memory is created with

ASSUME SizesAssumption ==
  Sizes \subseteq Nat /\ Alignments \subseteq Nat \ {0}

(* bus: twice the widest block memory, in bytes; initial: the initial      *)
(* internal address, if it is given; offBase: the base of external memory. *)
ASSUME SettingsAssumption ==
  Settings \subseteq [bus : Nat \ {0}, nullCheck : BOOLEAN, given : BOOLEAN,
                      initial : Nat, offBase : Nat]

VARIABLES
  setting,
  symbols,   \* the symbols with an address: kind, first address, size, range
  scopes,    \* the functions that access an internal variable directly
  privates,  \* the variables chosen to be private memories
  start,     \* internal_base_address_start
  next,      \* next_base_address
  nextOff,   \* next_off_base_address
  unit,      \* internal_base_address_alignment
  largest    \* maximum_private_memory_size

memvars == <<setting, symbols, scopes, privates, start, next, nextOff, unit, largest>>

Kinds == {"internal", "private", "parameter", "external"}

(* A symbol is decoded by its range, which is not less than its size.      *)
Entry == [kind : Kinds, at : Nat, size : Nat, range : Nat]

ParameterAlignment == 16

Larger(a, b) == IF a < b THEN b ELSE a

AlignedTo(address, alignment) ==
  ((address \div alignment) + (IF address % alignment # 0 THEN 1 ELSE 0)) * alignment

Allocated == DOMAIN symbols

With(s, entry) == [x \in Allocated \cup {s} |-> IF x = s THEN entry ELSE symbols[x]]

-----------------------------------------------------------------------------
FirstAddress(o) ==
  IF o.nullCheck /\ ~o.given THEN o.bus
  ELSE IF o.given /\ o.initial # 0 THEN AlignedTo(o.initial, o.bus)
  ELSE 0

MemInit ==
  /\ setting \in Settings
  /\ symbols = [x \in {} |-> 0] /\ scopes = {} /\ privates = {}
  /\ start = FirstAddress(setting) /\ next = start
  /\ nextOff = setting.offBase
  /\ unit = setting.bus
  /\ largest = 0

(* set_internal_base_address_alignment goes back to the start.             *)
SetAlignment(alignment) ==
  /\ unit' = alignment
  /\ start' = AlignedTo(start, alignment)
  /\ next' = start'
  /\ UNCHANGED <<setting, symbols, scopes, privates, nextOff, largest>>

(* add_private_memory.                                                     *)
MakePrivate(s) ==
  /\ privates' = privates \cup {s}
  /\ UNCHANGED <<setting, symbols, scopes, start, next, nextOff, unit, largest>>

(* add_internal_variable for a private variable.                           *)
AddPrivate(f, s, size, alignment) ==
  /\ s \notin Allocated /\ s \in privates
  /\ start' = IF setting.nullCheck THEN AlignedTo(start, alignment) ELSE start
  /\ symbols' = With(s, [kind |-> "private", at |-> IF setting.nullCheck THEN start' ELSE 0,
                         size |-> size, range |-> AlignedTo(size, unit)])
  /\ scopes' = scopes \cup {<<f, s>>}
  /\ largest' = Larger(largest, size)
  /\ UNCHANGED <<setting, privates, next, nextOff, unit>>

(* Again, for another function that reads it: the symbol is the same.      *)
AddPrivateAgain(f, s) ==
  /\ s \in Allocated /\ s \in privates
  /\ scopes' = scopes \cup {<<f, s>>}
  /\ UNCHANGED <<setting, symbols, privates, start, next, nextOff, unit, largest>>

(* Mutant: the end is computed from the address before it is aligned.      *)
AddInternalShort(f, s, size, alignment) ==
  LET at  == AlignedTo(next, alignment)
      end == Larger(at, AlignedTo(next + size, unit))
  IN  /\ s \notin Allocated /\ s \notin privates
      /\ symbols' = With(s, [kind |-> "internal", at |-> at, size |-> size, range |-> end - at])
      /\ next' = end
      /\ scopes' = scopes \cup {<<f, s>>}
      /\ UNCHANGED <<setting, privates, start, nextOff, unit, largest>>

(* add_internal_variable for any other variable: a second time is asserted *)
(* not to happen.                                                          *)
AddInternal(f, s, size, alignment) ==
  LET at  == AlignedTo(next, alignment)
      end == Larger(at, AlignedTo(at + size, unit))
  IN  /\ s \notin Allocated /\ s \notin privates
      /\ symbols' = With(s, [kind |-> "internal", at |-> at, size |-> size, range |-> end - at])
      /\ next' = end
      /\ scopes' = scopes \cup {<<f, s>>}
      /\ UNCHANGED <<setting, privates, start, nextOff, unit, largest>>

(* add_parameter: what follows the last one is aligned as memory is.       *)
AddParameter(s, size, last) ==
  LET end == Larger(AlignedTo(next + size, ParameterAlignment), next)
  IN  /\ symbols' = With(s, [kind |-> "parameter", at |-> next, size |-> size, range |-> size])
      /\ next' = IF last THEN AlignedTo(end, unit) ELSE end
      /\ UNCHANGED <<setting, scopes, privates, start, nextOff, unit, largest>>

(* add_external_variable.                                                  *)
AddExternal(s, size, alignment) ==
  LET at == AlignedTo(nextOff, alignment)
  IN  /\ symbols' = With(s, [kind |-> "external", at |-> at, size |-> size, range |-> size])
      /\ nextOff' = Larger(nextOff, AlignedTo(at + size, setting.bus))
      /\ UNCHANGED <<setting, scopes, privates, start, next, unit, largest>>

(* How the memory is meant to be used: its alignment is set before the     *)
(* first address is given, a variable is made private before it gets one,  *)
(* and nothing but a private variable gets one twice.                      *)
MemNext ==
  \/ \E a \in Alignments : Allocated = {} /\ SetAlignment(a)
  \/ \E s \in Symbol \ Allocated : MakePrivate(s)
  \/ \E s \in Symbol, f \in Scope : AddPrivateAgain(f, s)
  \/ \E s \in Symbol \ Allocated, size \in Sizes :
       \/ \E f \in Scope, a \in Alignments : AddPrivate(f, s, size, a) \/ AddInternal(f, s, size, a)
       \/ \E last \in BOOLEAN : AddParameter(s, size, last)
       \/ \E a \in Alignments : AddExternal(s, size, a)

MemSpec == MemInit /\ [][MemNext]_memvars

-----------------------------------------------------------------------------
(* get_max_address: what the width of the address bus is computed from.    *)
MaxAddress == Larger(next, largest + start)

(* Two symbols of one space: the internal memory and the parameters, which *)
(* share it, or external memory.                                           *)
OnBus == {"internal", "parameter"}

SameSpace(s, t) ==
  \/ symbols[s].kind \in OnBus /\ symbols[t].kind \in OnBus
  \/ symbols[s].kind = "external" /\ symbols[t].kind = "external"

Before(s, t) == symbols[s].at + symbols[s].range <= symbols[t].at

(* The ranges two symbols of one space are decoded by never overlap, and   *)
(* hold the symbols; whatever is on the chip, private memories included,   *)
(* is below the address the width of the bus is computed from, although    *)
(* each kind is counted by a counter of its own; and with the check for    *)
(* null pointers nothing on the chip is at address 0.                      *)
Disjoint ==
  /\ \A s, t \in Allocated : s # t /\ SameSpace(s, t) => Before(s, t) \/ Before(t, s)
  /\ \A s \in Allocated :
       /\ symbols[s].size <= symbols[s].range
       /\ symbols[s].kind # "external" =>
            /\ symbols[s].at + symbols[s].size <= MaxAddress
            /\ setting.nullCheck /\ ~setting.given => symbols[s].at # 0
=============================================================================
