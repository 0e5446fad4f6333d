--------------------------- MODULE MCAddressText ----------------------------
(* AddressText for TLC: the numerals, the addresses, and the texts to edit. *)
EXTENDS AddressText

MCDec == [n \in {"0", "1", "80", "255", "256", "65536"} |->
            CASE n = "0" -> 0 [] n = "1" -> 1 [] n = "80" -> 80
              [] n = "255" -> 255 [] n = "256" -> 256 [] n = "65536" -> 65536]

MCHex == [n \in {"0", "1", "80", "ffff"} |->
            CASE n = "0" -> 0 [] n = "1" -> 1 [] n = "80" -> 128 [] n = "ffff" -> 65535]

\* Every pattern of zero and other segments; every address whose last four
\* segments are zero, one or all ones, which are the mapped addresses of these
\* words, and what is mapped only nearly.
MCAddresses ==
  [1..N -> {0, 1}] \cup {[p \in 1..N - 4 |-> 0] \o s : s \in [1..4 -> {0, 1, 65535}]}

\* Edited: an address of every kind in every form.
MCSamples ==
  LET v4     == <<"0", ".", "1", ".", "255", ".", "255">>
      mapped == <<":", ":", "ffff", ":">> \o v4
      local  == <<":", ":", "1">>
      inner  == <<"1", ":", ":", "1">>
      full   == <<"1", ":", "0", ":", "1", ":", "ffff", ":", "1", ":", "0", ":", "1", ":", "0">>
      at80   == <<":", "80">>
      In(t)  == <<"[">> \o t \o <<"]">>
  IN {v4, mapped, local, inner, full, v4 \o at80, inner \o at80,
      In(local) \o at80, In(inner) \o at80, In(mapped) \o at80}

=============================================================================
