----------------------------- MODULE Characters -----------------------------
(***************************************************************************)
(* Characters as the modules that look into texts write them: each is a    *)
(* string, of length one where TLA+ can write it so, and stands for one    *)
(* byte of ASCII.                                                          *)
(***************************************************************************)
EXTENDS Naturals, Sequences

Ascii ==
  << "nul", "soh", "stx", "etx", "eot", "enq", "ack", "bel",
     "bs", "\t", "\n", "vt", "\f", "\r", "so", "si",
     "dle", "dc1", "dc2", "dc3", "dc4", "nak", "syn", "etb",
     "can", "em", "sub", "esc", "fs", "gs", "rs", "us",
     " ", "!", "\"", "#", "$", "%", "&", "'", "(", ")", "*", "+", ",", "-", ".", "/",
     "0", "1", "2", "3", "4", "5", "6", "7", "8", "9", ":", ";", "<", "=", ">", "?",
     "@", "A", "B", "C", "D", "E", "F", "G", "H", "I", "J", "K", "L", "M", "N", "O",
     "P", "Q", "R", "S", "T", "U", "V", "W", "X", "Y", "Z", "[", "\\", "]", "^", "_",
     "grave", "a", "b", "c", "d", "e", "f", "g", "h", "i", "j", "k", "l", "m", "n", "o",
     "p", "q", "r", "s", "t", "u", "v", "w", "x", "y", "z", "{", "|", "}", "~", "del" >>

Chars == {Ascii[n] : n \in 1 .. 128}

CharOf(n) == Ascii[n + 1]
Code(c)   == (CHOOSE n \in 1 .. 128 : Ascii[n] = c) - 1

IsControl(c) == Code(c) < 32

=============================================================================
