----------------------------- MODULE MCMemoryMap -----------------------------
(***************************************************************************)
(* MemoryMap for TLC: words of 8 bits, two hexadecimal digits, so that     *)
(* every value of a word is printed in every format.  The maps have none   *)
(* to three regions below and above a word, entries of 24 and 32 bytes,    *)
(* and tags of every length modulo 8 before and behind them.               *)
(***************************************************************************)
EXTENDS MemoryMap

MCOthers ==
  {Field(spec, zero, width, arg) :
     spec \in Spec_, zero \in BOOLEAN, width \in 0 .. 4, arg \in 0 .. Word - 1}

T(type, size) == [type |-> type, size |-> size, lower |-> 0, upper |-> 0,
                  entry_size |-> 0, entries |-> <<>>]
Basic(lower, upper) == [T("basic", 16) EXCEPT !.lower = lower, !.upper = upper]
Map(entry_size, regions) ==
  [T("mmap", 16 + entry_size * Len(regions)) EXCEPT
     !.entry_size = entry_size, !.entries = regions]
End == T("end", 8)
R(type, addr, len) == [type |-> type, addr |-> addr, len |-> len]

Regions ==
  { R("available", addr, len) :
      addr \in {0, 5, 16, 160, 255, 256, 261, 4096 + 10, 40000}, len \in {0, 1, 127, 128, 300} }
Few == { <<>>, <<R("available", 256, 44)>>,
         <<R("badram", 9, 9), R("unknown", 20, 1), R("nvs", 21, 107)>> }
Maps == {<<r>> : r \in Regions} \cup {<<r, R("reserved", 700, 44)>> : r \in Regions}

MCInfos ==
  {<<Map(24, m), End>> : m \in Maps}
    \cup {<<T("other", size), Map(entry_size, m), Basic(63, 7), End>> :
            size \in 8 .. 16, entry_size \in {24, 28, 32}, m \in Few}
    \cup {<<T("other", 9), T("other", 21), Map(28, m), T("other", 13), End>> : m \in Few}
    \cup {<<Basic(lower, 64), T("other", 11), End>> : lower \in {0, 1, 31, 32, 63, 64}}
==============================================================================
