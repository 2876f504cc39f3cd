-------------------------------- MODULE Keys --------------------------------
(***************************************************************************)
(* Namespaces and keys (key.rs): what a tenant may be called, and which    *)
(* keys are its own.  A text is a sequence of one-character strings.       *)
(***************************************************************************)
EXTENDS Integers, Sequences

CONSTANTS
  Letters,        \* a-z and 0-9
  Reserved,       \* trisync-system
  MinNamespace, MaxNamespace, MaxKey

ASSUME LettersAssumption == ":" \notin Letters

\* validate_namespace
ValidNamespace(ns) ==
  /\ Len(ns) \in MinNamespace..MaxNamespace
  /\ ns # << >> => ns[1] # "-" /\ ns[Len(ns)] # "-"
  /\ \A i \in DOMAIN ns : ns[i] \in Letters \union {"-"}
  /\ ns # Reserved

StartsWith(key, prefix) ==
  Len(prefix) <= Len(key) /\ SubSeq(key, 1, Len(prefix)) = prefix

\* A prefix that may end inside a name.
ValidKey_AnyPrefix(ns, key) ==
  /\ key # << >> /\ Len(key) <= MaxKey
  /\ \A i \in DOMAIN key : key[i] # "NUL"
  /\ StartsWith(key, ns)
  /\ Len(key) > Len(ns)

\* validate_key
ValidKey(ns, key) ==
  LET expected == Append(ns, ":")
  IN  /\ key # << >> /\ Len(key) <= MaxKey
      /\ \A i \in DOMAIN key : key[i] # "NUL"
      /\ StartsWith(key, expected)
      /\ Len(key) > Len(expected)
      /\ key[Len(expected) + 1] # ":"
=============================================================================
