----------------------------- MODULE MCEncodings -----------------------------
(***************************************************************************)
(* Instances of Encodings for TLC.                                         *)
(***************************************************************************)
EXTENDS Encodings

MCAlphabet ==
  [decimal |-> {"0", "7", "-", "+", ".", "e"},
   key |-> {"a", "b", "-", ":"},
   string |-> {"a", "n", "u", "0", "\"", "\\", "\n", "^A"},
   bytes |-> {0, 15, 160, 255},
   map |-> 0..6,
   snapshot |-> 0..6,
   other |-> {}]

MCMaxText ==
  [decimal |-> 6, key |-> 8, string |-> 4, bytes |-> 3, map |-> 6, snapshot |-> 0, other |-> 0]

\* The digits 0 and 1, the point, a letter, the colon, no character, and "-".
MCCharOf == [b \in 0..7 |-> <<"0", "1", ".", "a", ":", "?", "-", "b">>[b + 1]]

MCReserved == <<"b", "-", "b">>

Snap(entries) == [ns |-> <<3, 3, 3>>, tick |-> 1, seq |-> 2, ts |-> 0, seal |-> 5, entries |-> entries]
MCSnapshots ==
  {Snap(<< >>),
   Snap(<<Entry(<<3, 3, 3, 4, 1>>, 1, <<0>>)>>),
   Snap(<<Entry(<<3, 3, 3, 4, 1>>, 6, << >>), Entry(<<3, 3, 3, 4, 3>>, 3, <<1, 2, 1>>)>>)}
=============================================================================
